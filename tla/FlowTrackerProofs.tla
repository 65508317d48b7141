--------------------------- MODULE FlowTrackerProofs ---------------------------
(***************************************************************************)
(* Safety of FlowTracker for every set of packets, every limit, all        *)
(* timeouts, with packets late or not and with exceptions at any of the    *)
(* points a call can raise at.  First, facts about the TCP transition      *)
(* table, for every state, every set of flags, both directions and every   *)
(* list of FINs a flow can remember; then the invariant, the ledger, the   *)
(* packets, and the order of the tables.                                   *)
(***************************************************************************)
EXTENDS FlowTracker, FoldProofs, SequenceTheorems

\* Appending to a list of one: the one place where the table builds a list of two.
LEMMA AppendToOne ==
  ASSUME NEW d, NEW e
  PROVE  Append(<<d>>, e) = <<d, e>>
<1> DEFINE s == Append(<<d>>, e)
           t == <<d, e>>
<1>1. <<d>> \in Seq({d, e}) /\ Len(<<d>>) = 1
  OBVIOUS
<1>2. s \in Seq({d, e}) /\ Len(s) = 2 /\ s[1] = d /\ s[2] = e
  BY <1>1
<1>3. t \in Seq({d, e}) /\ Len(t) = 2 /\ t[1] = d /\ t[2] = e
  OBVIOUS
<1>4. \A i \in 1..Len(s) : s[i] = t[i]
  <2>1. \A i \in 1..2 : i = 1 \/ i = 2
    OBVIOUS
  <2> QED BY <1>2, <1>3, <2>1
<1> HIDE DEF s, t
<1>5. s = t
  BY <1>2, <1>3, <1>4, SeqEqual
<1> QED BY <1>5 DEF s, t

\* _with_fin: a repeated FIN changes nothing, so no direction is remembered twice; a FIN is never forgotten.
LEMMA WithFinType ==
  ASSUME NEW fins \in FinOrders, NEW dir \in Directions
  PROVE  WithFin(fins, dir) \in FinOrders \ {<<>>}
<1>1. CASE fins = <<>>
  <2>1. Append(<<>>, dir) = <<dir>>
    OBVIOUS
  <2> QED BY <1>1, <2>1 DEF WithFin, FinOrders, Directions
<1>2. CASE \E d \in Directions : fins = <<d>>
  <2>1. PICK d \in Directions : fins = <<d>>
    BY <1>2
  <2>2. 1 \in DOMAIN fins /\ fins[1] = d
    BY <2>1
  <2>3. CASE d = dir
    BY <2>1, <2>2, <2>3 DEF WithFin
  <2>4. CASE d # dir
    <3>1. WithFin(fins, dir) = <<d, dir>>
      BY <2>1, <2>4, AppendToOne DEF WithFin
    <3> QED BY <3>1, <2>4 DEF FinOrders, Directions
  <2> QED BY <2>3, <2>4
<1>3. CASE fins \in {<<"forward", "backward">>, <<"backward", "forward">>}
  <2>1. 1 \in DOMAIN fins /\ 2 \in DOMAIN fins
    BY <1>3
  <2>2. \E i \in DOMAIN fins : fins[i] = dir
    BY <1>3, <2>1 DEF Directions
  <2> QED BY <1>3, <2>2 DEF WithFin
<1> QED BY <1>1, <1>2, <1>3 DEF FinOrders, Directions

\* The first packet of a flow gives it a state, and the FINs that fit it.
THEOREM FirstStepFits ==
  ASSUME NEW flags \in SUBSET Flags, NEW dir \in Directions
  PROVE  /\ FirstStep(flags, dir).state \in States
         /\ FirstStep(flags, dir).fins \in FinOrders
         /\ FinsFit(FirstStep(flags, dir).state, FirstStep(flags, dir).fins)
BY DEF FirstStep, States, FinOrders, FinsFit, Directions, Flags

\* Every later packet moves a flow forward in the life of a connection and keeps its FINs fitting its
\* state: a flow is CLOSED only when both directions sent a FIN, and CLOSED and RESET are final.
THEOREM NextStepFits ==
  ASSUME NEW state \in States, NEW flags \in SUBSET Flags, NEW dir \in Directions,
         NEW fins \in FinOrders, FinsFit(state, fins)
  PROVE  LET step == NextStep(state, flags, dir, fins)
         IN  /\ step.state \in After(state)
             /\ step.state \in States
             /\ step.fins \in FinOrders
             /\ FinsFit(step.state, step.fins)
<1> DEFINE step == NextStep(state, flags, dir, fins)
<1>1. step.state \in After(state) /\ step.state \in States
  BY DEF NextStep, AfterReset, After, States, Ended
<1>2. step.fins \in FinOrders
  BY WithFinType DEF NextStep
<1>3. FinsFit(step.state, step.fins)
  <2>1. CASE step.state = "CLOSED" /\ state # "CLOSED"
    <3>1. step.fins = fins /\ Len(fins) = 2
      BY <2>1 DEF NextStep, AfterReset, BothFinsSeenAndLastCameFromTheOtherSide, States
    <3>2. fins \in {<<"forward", "backward">>, <<"backward", "forward">>}
      BY <3>1 DEF FinOrders
    <3> QED BY <2>1, <3>1, <3>2 DEF FinsFit
  <2>2. CASE ~(step.state = "CLOSED" /\ state # "CLOSED")
    BY <2>2, WithFinType DEF NextStep, AfterReset, FinsFit, States
  <2> QED BY <2>1, <2>2
<1> QED BY <1>1, <1>2, <1>3

-------------------------------------------------------------------------------
\* The steps of a call take their flows out of the tables, and no flow for two reasons.
LEMMA Departures ==
  ASSUME NEW v \in Views
  PROVE  /\ Overdue(v) \subseteq flows /\ Reused(v) \subseteq flows
         /\ Known(v) \subseteq flows /\ Evicted(v) \subseteq flows
         /\ Overdue(v) \cap Reused(v) = {} /\ Overdue(v) \cap Evicted(v) = {}
         /\ Reused(v) \cap Evicted(v) = {}
         /\ Known(v) \cap (Overdue(v) \cup Reused(v) \cup Evicted(v)) = {}
         /\ Stay(v) = flows \ (Overdue(v) \cup Reused(v) \cup Evicted(v))
<1>1. /\ Overdue(v) \subseteq flows /\ Reused(v) \subseteq flows /\ Known(v) \subseteq flows
      /\ Overdue(v) \cap Reused(v) = {} /\ Known(v) \cap (Overdue(v) \cup Reused(v)) = {}
  BY DEF Overdue, Live, Same, Reused, Known, Table
<1>2. Kept(v) = flows \ (Overdue(v) \cup Reused(v))
  BY DEF Live, Kept
<1>3. Evicted(v) \subseteq Kept(v)
  BY DEF Evicted, Oldest, Front
<1>4. Known(v) \cap Evicted(v) = {}
  BY DEF Evicted, NeedsRoom
<1> QED BY <1>1, <1>2, <1>3, <1>4 DEF Stay

LEMMA ReleasedShape ==
  ASSUME NEW v \in Views, NEW r \in Released(v)
  PROVE  /\ r = [flow |-> r.flow, reason |-> r.reason]
         /\ r.flow \in flows /\ r.reason \in Reasons
         /\ r.reason = "idle_timeout" <=> r.flow \in Overdue(v)
         /\ r.reason = "new_connection" <=> r.flow \in Reused(v)
         /\ r.reason = "evicted" <=> r.flow \in Evicted(v)
BY Departures DEF Released, Record, Reasons

LEMMA DirectionType ==
  ASSUME NEW f, NEW v
  PROVE  Direction(f, v) \in Directions
BY DEF Direction, Directions

LEMMA RankType ==
  ASSUME NEW v \in Views
  PROVE  Rank(v) \in 0..2
BY DEF Rank

LEMMA ViewType ==
  ASSUME NEW v \in Views
  PROVE  /\ v.protocol \in Protocols /\ v.ts \in Nat /\ v.flags \in SUBSET Flags
         /\ v.src \in Endpoints /\ v.dst \in Endpoints /\ v.app \in Applications
BY ViewsAreKept DEF Endpoints, Applications

\* The label of g was detected on better evidence than that of f, or is the same.
Better(g, f) == g.rank > f.rank \/ (g.rank = f.rank /\ g.app = f.app)

\* _count adds one packet to a flow and keeps what names it.
LEMMA CountType ==
  ASSUME NEW v \in Views, NEW f \in Flow
  PROVE  /\ Count(f, v) \in Flow
         /\ Count(f, v).number = f.number /\ Count(f, v).protocol = f.protocol
         /\ Count(f, v).a = f.a /\ Count(f, v).b = f.b
         /\ Count(f, v).state = f.state /\ Count(f, v).fins = f.fins
         /\ Count(f, v).start = f.start /\ Count(f, v).turn = f.turn
         /\ Count(f, v).last = IF v.ts > f.last THEN v.ts ELSE f.last
         /\ Count(f, v).forward + Count(f, v).backward = f.forward + f.backward + 1
         /\ Better(Count(f, v), f)
<1> DEFINE last == IF v.ts > f.last THEN v.ts ELSE f.last
           forward == IF Direction(f, v) = "forward" THEN f.forward + 1 ELSE f.forward
           backward == IF Direction(f, v) = "forward" THEN f.backward ELSE f.backward + 1
           app == IF Rank(v) > f.rank THEN v.app ELSE f.app
           rank == IF Rank(v) > f.rank THEN Rank(v) ELSE f.rank
<1>1. last \in Nat /\ app \in Applications /\ rank \in 0..2
  BY ViewType, RankType DEF Flow
<1>2. forward \in Nat /\ backward \in Nat /\ forward + backward = f.forward + f.backward + 1
  BY DEF Flow
<1>3. Count(f, v) = [f EXCEPT !.last = last, !.forward = forward, !.backward = backward,
                              !.app = app, !.rank = rank]
  BY DEF Count
<1>4. /\ last = IF v.ts > f.last THEN v.ts ELSE f.last
      /\ rank > f.rank \/ (rank = f.rank /\ app = f.app)
  OBVIOUS
<1> HIDE DEF last, forward, backward, app, rank
<1> DEFINE g == [f EXCEPT !.last = last, !.forward = forward, !.backward = backward,
                         !.app = app, !.rank = rank]
<1>5. g \in Flow
  BY <1>1, <1>2 DEF Flow
<1>6. /\ g.number = f.number /\ g.protocol = f.protocol /\ g.a = f.a /\ g.b = f.b
      /\ g.state = f.state /\ g.fins = f.fins /\ g.start = f.start /\ g.turn = f.turn
  BY DEF Flow
<1>7. /\ g.last = last /\ g.forward = forward /\ g.backward = backward
      /\ g.rank = rank /\ g.app = app
  BY DEF Flow
<1> HIDE DEF g
<1>8. Count(f, v) = g
  BY <1>3 DEF g
<1> QED BY <1>2, <1>4, <1>5, <1>6, <1>7, <1>8 DEF Better

\* What holds of one flow, at any time, in the tables or in a record.
FlowSound(f, time) ==
  /\ f.forward + f.backward > 0
  /\ f.start <= f.last /\ f.last <= time
  /\ f.state = "NONE" <=> f.protocol = "UDP"
  /\ IF f.protocol = "TCP" THEN FinsFit(f.state, f.fins) ELSE f.fins = <<>>

\* A packet that continues a flow: the flow keeps its name, and its TCP state moves forward.
LEMMA ContinuedSound ==
  ASSUME NEW v \in Views, NEW f \in Flow, NEW time \in Nat, received \in Nat,
         FlowSound(f, time), v.ts <= time
  PROVE  LET g == Continued(f, v)
         IN  /\ g \in Flow /\ FlowSound(g, time)
             /\ g.number = f.number /\ g.protocol = f.protocol /\ g.a = f.a /\ g.b = f.b
             /\ f.protocol = "TCP" => g.state \in After(f.state)
             /\ g.last = IF v.ts > f.last THEN v.ts ELSE f.last
             /\ g.turn = IF v.ts >= now THEN received + 1 ELSE f.turn
             /\ g.forward + g.backward = f.forward + f.backward + 1
             /\ Better(g, f)
<1> DEFINE c == Count(f, v)
           step == NextStep(f.state, v.flags, Direction(f, v), f.fins)
           m == Move(c, step)
           turn == IF v.ts >= now THEN received + 1 ELSE f.turn
           g == Continued(f, v)
<1>1. /\ c \in Flow
      /\ c.number = f.number /\ c.protocol = f.protocol /\ c.a = f.a /\ c.b = f.b
      /\ c.state = f.state /\ c.fins = f.fins /\ c.start = f.start /\ c.turn = f.turn
      /\ c.last = IF v.ts > f.last THEN v.ts ELSE f.last
      /\ c.forward + c.backward = f.forward + f.backward + 1
      /\ Better(c, f)
  BY CountType
<1>2. ASSUME f.protocol = "TCP"
      PROVE  /\ step.state \in After(f.state) /\ step.state \in States
             /\ step.fins \in FinOrders /\ FinsFit(step.state, step.fins)
  <2>1. f.state \in States /\ f.fins \in FinOrders /\ FinsFit(f.state, f.fins)
    BY <1>2 DEF Flow, FlowSound
  <2>2. v.flags \in SUBSET Flags /\ Direction(f, v) \in Directions
    BY ViewType, DirectionType
  <2> QED BY <2>1, <2>2, NextStepFits
<1> HIDE DEF c, step
<1>3. /\ m \in Flow
      /\ m.number = c.number /\ m.protocol = c.protocol /\ m.a = c.a /\ m.b = c.b
      /\ m.start = c.start /\ m.last = c.last /\ m.turn = c.turn
      /\ m.forward = c.forward /\ m.backward = c.backward /\ m.rank = c.rank /\ m.app = c.app
      /\ f.protocol = "TCP" => m.state = step.state /\ m.fins = step.fins
      /\ f.protocol = "UDP" => m.state = c.state /\ m.fins = c.fins
  <2>1. CASE f.protocol = "TCP"
    <3>1. m = [c EXCEPT !.state = step.state, !.fins = step.fins]
      BY <1>1, <2>1 DEF Move
    <3> HIDE DEF m
    <3> QED BY <1>1, <1>2, <2>1, <3>1 DEF Flow
  <2>2. CASE f.protocol = "UDP"
    BY <1>1, <2>2 DEF Move
  <2> QED BY <2>1, <2>2 DEF Flow, Protocols
<1>4. g = [m EXCEPT !.turn = turn] /\ turn \in Nat
  <2>1. m.turn = f.turn
    BY <1>1, <1>3
  <2>2. g = [m EXCEPT !.turn = IF v.ts >= now THEN received + 1 ELSE m.turn]
    BY DEF Continued, m, c, step
  <2> HIDE DEF m, g
  <2> QED BY <2>1, <2>2 DEF Flow
<1>5. turn = IF v.ts >= now THEN received + 1 ELSE f.turn
  OBVIOUS
<1> HIDE DEF m, turn, g
<1>6. /\ g \in Flow
      /\ g.number = m.number /\ g.protocol = m.protocol /\ g.a = m.a /\ g.b = m.b
      /\ g.start = m.start /\ g.last = m.last /\ g.state = m.state /\ g.fins = m.fins
      /\ g.forward = m.forward /\ g.backward = m.backward /\ g.rank = m.rank /\ g.app = m.app
      /\ g.turn = turn
  BY <1>3, <1>4 DEF Flow
<1>7. FlowSound(g, time)
  <2>1. g.forward + g.backward > 0 /\ g.start <= g.last /\ g.last <= time
    <3>1. /\ g.forward + g.backward = f.forward + f.backward + 1 /\ g.start = f.start
          /\ g.last = IF v.ts > f.last THEN v.ts ELSE f.last
      BY <1>1, <1>3, <1>6
    <3>2. f.forward + f.backward > 0 /\ f.start <= f.last /\ f.last <= time
      BY DEF FlowSound
    <3>3. f.forward \in Nat /\ f.backward \in Nat /\ f.start \in Nat /\ f.last \in Nat /\ v.ts \in Nat
      BY ViewType DEF Flow
    <3> QED BY <3>1, <3>2, <3>3
  <2>2. CASE f.protocol = "TCP"
    BY <1>1, <1>2, <1>3, <1>6, <2>1, <2>2 DEF FlowSound, States
  <2>3. CASE f.protocol = "UDP"
    BY <1>1, <1>3, <1>6, <2>1, <2>3 DEF FlowSound
  <2> QED BY <2>2, <2>3 DEF Flow, Protocols
<1>8. f.protocol = "TCP" => g.state \in After(f.state)
  BY <1>2, <1>3, <1>6
<1>9. /\ g.number = f.number /\ g.protocol = f.protocol /\ g.a = f.a /\ g.b = f.b
      /\ g.last = IF v.ts > f.last THEN v.ts ELSE f.last
      /\ g.forward + g.backward = f.forward + f.backward + 1
  BY <1>1, <1>3, <1>6
<1>10. Better(g, f)
  BY <1>1, <1>3, <1>6 DEF Better
<1> QED BY <1>5, <1>6, <1>7, <1>8, <1>9, <1>10 DEF g

\* A packet that starts a flow: the flow has the packet's endpoints, one packet and the next number.
LEMMA StartedSound ==
  ASSUME NEW v \in Views, NEW time \in Nat, received \in Nat, created \in Nat,
         flows \subseteq Flow, v.ts <= time
  PROVE  LET g == Started(v)
         IN  /\ g \in Flow /\ FlowSound(g, time)
             /\ g.number = created + 1 /\ g.protocol = v.protocol /\ FlowKey(g) = ViewKey(v)
             /\ g.last = v.ts /\ g.turn = received + 1
             /\ g.forward + g.backward = 1
<1> DEFINE n == Create(v)
           c == Count(n, v)
           step == FirstStep(v.flags, Direction(n, v))
           g == Started(v)
<1>1. Occurrence(v) \in Nat
  <2>1. Reused(v) \subseteq Flow
    BY Departures
  <2>2. CASE \E old \in Reused(v) : old.start = v.ts
    <3>1. (CHOOSE old \in Reused(v) : old.start = v.ts) \in Reused(v)
      BY <2>2
    <3> QED BY <2>1, <2>2, <3>1 DEF Occurrence, Flow
  <2>3. CASE ~\E old \in Reused(v) : old.start = v.ts
    BY <2>3 DEF Occurrence
  <2> QED BY <2>2, <2>3
<1>2. /\ n \in Flow
      /\ n.number = created + 1 /\ n.protocol = v.protocol /\ FlowKey(n) = ViewKey(v)
      /\ n.start = v.ts /\ n.last = v.ts /\ n.forward = 0 /\ n.backward = 0
      /\ n.state = "NONE" /\ n.fins = <<>> /\ n.turn = received + 1
  <2>1. Initiator(v) \in {v.src, v.dst}
    BY DEF Initiator
  <2> QED BY <1>1, <2>1, ViewType DEF Create, Flow, FlowKey, ViewKey, FinOrders, Applications
<1> HIDE DEF n
<1>3. /\ c \in Flow
      /\ c.number = n.number /\ c.protocol = n.protocol /\ c.a = n.a /\ c.b = n.b
      /\ c.state = n.state /\ c.fins = n.fins /\ c.start = n.start /\ c.turn = n.turn
      /\ c.last = v.ts /\ c.forward + c.backward = 1
  <2>1. v.ts \in Nat
    BY ViewType
  <2>2. /\ c \in Flow
        /\ c.number = n.number /\ c.protocol = n.protocol /\ c.a = n.a /\ c.b = n.b
        /\ c.state = n.state /\ c.fins = n.fins /\ c.start = n.start /\ c.turn = n.turn
        /\ c.last = IF v.ts > n.last THEN v.ts ELSE n.last
        /\ c.forward + c.backward = n.forward + n.backward + 1
    BY <1>2, CountType
  <2> HIDE DEF c
  <2> QED BY <1>2, <2>1, <2>2
<1>4. step.state \in States /\ step.fins \in FinOrders /\ FinsFit(step.state, step.fins)
  BY ViewType, DirectionType, FirstStepFits
<1>5. g = Move(c, step)
  BY DEF Started, n
<1> HIDE DEF c, step, g
<1>6. /\ g \in Flow
      /\ g.number = c.number /\ g.protocol = c.protocol /\ g.a = c.a /\ g.b = c.b
      /\ g.start = c.start /\ g.last = c.last /\ g.turn = c.turn
      /\ g.forward = c.forward /\ g.backward = c.backward
      /\ c.protocol = "TCP" => g.state = step.state /\ g.fins = step.fins
      /\ c.protocol = "UDP" => g.state = c.state /\ g.fins = c.fins
  <2>1. CASE c.protocol = "TCP"
    <3>1. g = [c EXCEPT !.state = step.state, !.fins = step.fins]
      BY <1>5, <2>1 DEF Move
    <3> QED BY <1>3, <1>4, <2>1, <3>1 DEF Flow
  <2>2. CASE c.protocol = "UDP"
    BY <1>3, <1>5, <2>2 DEF Move
  <2> QED BY <1>3, <2>1, <2>2 DEF Flow, Protocols
<1>7. FlowSound(g, time)
  <2>1. g.forward + g.backward > 0 /\ g.start <= g.last /\ g.last <= time
    <3>1. g.forward + g.backward = 1
      BY <1>3, <1>6
    <3>2. g.start = v.ts /\ g.last = v.ts
      BY <1>2, <1>3, <1>6
    <3>3. v.ts \in Nat /\ v.ts <= time
      BY ViewType
    <3> QED BY <3>1, <3>2, <3>3
  <2>2. CASE c.protocol = "TCP"
    BY <1>4, <1>6, <2>1, <2>2 DEF FlowSound, States
  <2>3. CASE c.protocol = "UDP"
    BY <1>2, <1>3, <1>6, <2>1, <2>3 DEF FlowSound
  <2> QED BY <1>3, <2>2, <2>3 DEF Flow, Protocols
<1>8. /\ g.number = created + 1 /\ g.protocol = v.protocol /\ FlowKey(g) = ViewKey(v)
      /\ g.last = v.ts /\ g.turn = received + 1
      /\ g.forward + g.backward = 1
  BY <1>2, <1>3, <1>6 DEF FlowKey
<1> QED BY <1>6, <1>7, <1>8 DEF g

-------------------------------------------------------------------------------
\* _make_room finds a flow: a table that is not empty has a front, and the fronts have an oldest flow.
LEMMA OldestFront ==
  ASSUME NEW fs \in SUBSET Flow, fs # {}
  PROVE  \E f \in Front(fs) : \A g \in Front(fs) : Older(f, g)
<1>1. Front(fs) # {}
  <2>1. PICK f0 \in fs : TRUE
    OBVIOUS
  <2> DEFINE T == Table(fs, f0.protocol)
             turns == {g.turn : g \in T}
  <2>2. turns \in SUBSET Nat /\ turns # {}
    BY <2>1 DEF Table, Flow
  <2>3. PICK m \in turns : \A n \in turns : m <= n
    <3> HIDE DEF turns
    <3> QED BY <2>2, LeastNat
  <2>4. PICK f \in T : f.turn = m
    OBVIOUS
  <2>5. f \in Front(fs)
    BY <2>3, <2>4 DEF Front, Table
  <2> QED BY <2>5
<1> DEFINE lasts == {f.last : f \in Front(fs)}
<1>2. lasts \in SUBSET Nat /\ lasts # {}
  BY <1>1 DEF Front, Flow
<1>3. PICK time \in lasts : \A n \in lasts : time <= n
  <2> HIDE DEF lasts
  <2> QED BY <1>2, LeastNat
<1> DEFINE oldest == {f \in Front(fs) : f.last = time}
           numbers == {f.number : f \in oldest}
<1>4. numbers \in SUBSET Nat /\ numbers # {}
  BY <1>3 DEF Front, Flow
<1>5. PICK number \in numbers : \A n \in numbers : number <= n
  <2> HIDE DEF numbers
  <2> QED BY <1>4, LeastNat
<1>6. PICK f \in oldest : f.number = number
  OBVIOUS
<1>7. ASSUME NEW g \in Front(fs)
      PROVE  Older(f, g)
  <2>1. f.last = time /\ time <= g.last
    BY <1>3, <1>6
  <2>2. g.last = time => number <= g.number
    BY <1>5
  <2>3. time \in Nat /\ g.last \in Nat
    BY <1>2, <1>3 DEF Front, Flow
  <2> QED BY <1>6, <2>1, <2>2, <2>3 DEF Older
<1> QED BY <1>6, <1>7

-------------------------------------------------------------------------------
(***************************************************************************)
(* The inductive invariant.  The properties alone are not inductive: that  *)
(* no flow is exported twice rests on the numbers of the flows, which are  *)
(* distinct in the tables and not above `created'; that one flow is left   *)
(* when a packet continues it rests on one flow for each key; and that the *)
(* limit holds rests on the tables being finite and their fronts existing. *)
(***************************************************************************)
Tabled(fs, time, n) ==
  /\ fs \in SUBSET Flow /\ IsFiniteSet(fs) /\ Cardinality(fs) <= MaxFlows
  /\ \A f \in fs : FlowSound(f, time) /\ f.number <= n
  /\ \A f, g \in fs : f.number = g.number => f = g
  /\ \A f, g \in fs : f.protocol = g.protocol /\ FlowKey(f) = FlowKey(g) => f = g

Exported(recs, fs, time, n) ==
  /\ recs \in SUBSET [flow : Flow, reason : Reasons]
  /\ \A r \in recs : FlowSound(r.flow, time) /\ r.flow.number <= n
  /\ \A r, s \in recs : r.flow.number = s.flow.number => r = s
  /\ \A r \in recs, f \in fs : r.flow.number # f.number

Scalars ==
  /\ now \in Nat \cup {NoTime}
  /\ created \in Nat /\ received \in Nat /\ counted \in Nat /\ flushed \in BOOLEAN

IInv ==
  /\ Scalars
  /\ Tabled(flows, now, created)
  /\ Exported(Records, flows, now, created)
  /\ pending \cap delivered = {}

LEMMA SoundLater ==
  ASSUME NEW f \in Flow, NEW time \in Int, NEW time2 \in Int, time <= time2, FlowSound(f, time)
  PROVE  FlowSound(f, time2)
<1>1. f.last \in Nat
  BY DEF Flow
<1> QED BY <1>1 DEF FlowSound

\* Some flows leave.
LEMMA TabledFewer ==
  ASSUME NEW fs, NEW sub \in SUBSET fs, NEW time \in Int, NEW time2 \in Int, time <= time2,
         NEW n \in Nat, NEW n2 \in Nat, n <= n2, Tabled(fs, time, n)
  PROVE  Tabled(sub, time2, n2)
<1>1. IsFiniteSet(sub) /\ Cardinality(sub) <= MaxFlows
  <2>1. IsFiniteSet(sub) /\ Cardinality(sub) <= Cardinality(fs)
    BY FS_Subset DEF Tabled
  <2>2. Cardinality(sub) \in Nat /\ Cardinality(fs) \in Nat
    BY <2>1, FS_CardinalityType DEF Tabled
  <2> QED BY <2>1, <2>2, LimitIsPositive DEF Tabled
<1>2. \A f \in sub : FlowSound(f, time2) /\ f.number <= n2
  BY SoundLater DEF Tabled, Flow
<1> QED BY <1>1, <1>2 DEF Tabled

\* A flow is replaced by itself after one more packet, and some others leave.
LEMMA TabledReplace ==
  ASSUME NEW fs, NEW time \in Int, NEW time2 \in Int, time <= time2, NEW n \in Nat, NEW n2 \in Nat,
         n <= n2, Tabled(fs, time, n), NEW k \in fs, NEW sub \in SUBSET (fs \ {k}),
         NEW g \in Flow, FlowSound(g, time2), g.number = k.number, g.protocol = k.protocol,
         g.a = k.a, g.b = k.b
  PROVE  Tabled(sub \cup {g}, time2, n2)
<1>1. IsFiniteSet(fs \ {k}) /\ Cardinality(fs \ {k}) = Cardinality(fs) - 1
  BY FS_RemoveElement DEF Tabled
<1>2. IsFiniteSet(sub) /\ Cardinality(sub) <= Cardinality(fs) - 1
  BY <1>1, FS_Subset
<1>3. IsFiniteSet(sub \cup {g}) /\ Cardinality(sub \cup {g}) <= Cardinality(sub) + 1
  <2>1. /\ IsFiniteSet(sub \cup {g})
        /\ Cardinality(sub \cup {g}) = IF g \in sub THEN Cardinality(sub) ELSE Cardinality(sub) + 1
    BY <1>2, FS_AddElement
  <2>2. Cardinality(sub) \in Nat
    BY <1>2, FS_CardinalityType
  <2> QED BY <2>1, <2>2
<1>4. Cardinality(sub \cup {g}) <= MaxFlows
  <2>1. Cardinality(sub) \in Nat /\ Cardinality(fs) \in Nat /\ Cardinality(sub \cup {g}) \in Nat
    BY <1>2, <1>3, FS_CardinalityType DEF Tabled
  <2> QED BY <1>2, <1>3, <2>1, LimitIsPositive DEF Tabled
<1>5. Tabled(sub, time2, n2)
  BY TabledFewer
<1>6. g.number <= n2
  BY DEF Tabled, Flow
<1>7. \A f \in sub : f.number # g.number /\ ~(f.protocol = g.protocol /\ FlowKey(f) = FlowKey(g))
  BY DEF Tabled, FlowKey
<1> QED BY <1>3, <1>4, <1>5, <1>6, <1>7 DEF Tabled

\* A flow is added where there is room and its key is free.
LEMMA TabledAdd ==
  ASSUME NEW fs, NEW time \in Int, NEW n \in Nat, Tabled(fs, time, n),
         Cardinality(fs) < MaxFlows, NEW g \in Flow, FlowSound(g, time), g.number = n + 1,
         \A f \in fs : ~(f.protocol = g.protocol /\ FlowKey(f) = FlowKey(g))
  PROVE  Tabled(fs \cup {g}, time, n + 1)
<1>1. Cardinality(fs) \in Nat
  BY FS_CardinalityType DEF Tabled
<1>2. IsFiniteSet(fs \cup {g}) /\ Cardinality(fs \cup {g}) <= MaxFlows
  <2>1. /\ IsFiniteSet(fs \cup {g})
        /\ Cardinality(fs \cup {g}) = IF g \in fs THEN Cardinality(fs) ELSE Cardinality(fs) + 1
    BY FS_AddElement DEF Tabled
  <2> QED BY <1>1, <2>1, LimitIsPositive
<1>3. \A f \in fs : f.number \in Nat /\ f.number <= n
  BY DEF Tabled, Flow
<1>4. \A f \in fs \cup {g} : FlowSound(f, time) /\ f.number <= n + 1
  BY <1>3 DEF Tabled
<1>5. \A f \in fs : f.number # g.number
  BY <1>3
<1> QED BY <1>2, <1>4, <1>5 DEF Tabled

\* Flows of the tables turn into records, and the tables keep or get only other numbers.
LEMMA ExportedMore ==
  ASSUME NEW recs, NEW fs, NEW time \in Int, NEW time2 \in Int, time <= time2,
         NEW n \in Nat, NEW n2 \in Nat, n <= n2, Tabled(fs, time, n), Exported(recs, fs, time, n),
         NEW gone \in SUBSET fs, NEW new,
         \A r \in new : r \in [flow : Flow, reason : Reasons] /\ r.flow \in gone,
         \A r, s \in new : r.flow = s.flow => r = s,
         NEW fs2, \A g \in fs2 : \/ \E f \in fs \ gone : f.number = g.number
                                \/ g.number = n + 1
  PROVE  /\ Exported(recs \cup new, fs2, time2, n2)
         /\ recs \cap new = {}
<1>1. \A f \in fs : f.number \in Nat /\ f.number <= n
  BY DEF Tabled, Flow
<1>2. \A r \in recs : r.flow \in Flow /\ r.flow.number \in Nat /\ r.flow.number <= n
  BY DEF Exported, Flow
<1>3. \A r \in recs \cup new : FlowSound(r.flow, time2) /\ r.flow.number <= n2
  <2>1. \A r \in recs : FlowSound(r.flow, time2)
    BY <1>2, SoundLater DEF Exported
  <2>2. \A r \in new : FlowSound(r.flow, time2)
    BY SoundLater DEF Tabled
  <2> QED BY <1>1, <1>2, <2>1, <2>2
<1>4. \A r \in recs, s \in new : r.flow.number # s.flow.number
  BY DEF Exported
<1>5. \A r, s \in recs \cup new : r.flow.number = s.flow.number => r = s
  BY <1>4 DEF Exported, Tabled
<1>6. ASSUME NEW r \in recs \cup new, NEW g \in fs2
      PROVE  r.flow.number # g.number
  <2>1. CASE g.number = n + 1
    BY <1>1, <1>2, <2>1
  <2>2. CASE \E f \in fs \ gone : f.number = g.number
    BY <2>2 DEF Exported, Tabled
  <2> QED BY <2>1, <2>2
<1>7. recs \cup new \in SUBSET [flow : Flow, reason : Reasons]
  BY DEF Exported
<1>8. Exported(recs \cup new, fs2, time2, n2)
  BY <1>3, <1>5, <1>6, <1>7 DEF Exported
<1>9. recs \cap new = {}
  BY <1>4
<1> QED BY <1>8, <1>9

-------------------------------------------------------------------------------
\* Facts about one call that every way it can end uses.
LEMMA ClockAdvances ==
  ASSUME Scalars, NEW v \in Views
  PROVE  Clock(v) \in Nat /\ now \in Int /\ now <= Clock(v) /\ v.ts <= Clock(v)
BY ViewType DEF Scalars, Clock, NoTime

LEMMA OneKnown ==
  ASSUME IInv, NEW v \in Views, Known(v) # {}
  PROVE  \E k \in flows : Known(v) = {k}
<1>1. \A f, g \in Known(v) : f = g
  BY DEF Known, Same, Live, Table, IInv, Tabled
<1> QED BY <1>1, Departures

LEMMA ReleasedOnce ==
  ASSUME NEW v \in Views, NEW r \in Released(v), NEW s \in Released(v), r.flow = s.flow
  PROVE  r = s
<1>1. r.reason \in {"idle_timeout", "new_connection", "evicted"}
  BY DEF Released, Record
<1>2. s.reason \in {"idle_timeout", "new_connection", "evicted"}
  BY DEF Released, Record
<1>3. r.reason = s.reason
  BY <1>1, <1>2, ReleasedShape
<1> QED BY <1>3, ReleasedShape

LEMMA ReleasedType ==
  ASSUME IInv, NEW v \in Views, NEW r \in Released(v)
  PROVE  r \in [flow : Flow, reason : Reasons] /\ r.flow \in flows
BY ReleasedShape DEF IInv, Tabled

\* The limit check makes room: what stays when a flow is created is below the limit.
LEMMA RoomMade ==
  ASSUME IInv, NEW v \in Views, Known(v) = {}
  PROVE  Cardinality(Stay(v)) < MaxFlows
<1>1. Kept(v) \in SUBSET flows /\ Stay(v) = Kept(v) \ Evicted(v)
  BY DEF Live, Kept, Stay
<1>2. IsFiniteSet(flows) /\ flows \in SUBSET Flow /\ Cardinality(flows) <= MaxFlows
  BY DEF IInv, Tabled
<1>3. IsFiniteSet(Kept(v)) /\ Cardinality(Kept(v)) <= Cardinality(flows)
  BY <1>1, <1>2, FS_Subset
<1>4. Cardinality(Kept(v)) \in Nat /\ Cardinality(flows) \in Nat
  BY <1>2, <1>3, FS_CardinalityType
<1>5. CASE ~NeedsRoom(v)
  <2>1. Stay(v) = Kept(v)
    BY <1>1, <1>5 DEF Evicted
  <2> QED BY <1>4, <1>5, <2>1, LimitIsPositive DEF NeedsRoom
<1>6. CASE NeedsRoom(v)
  <2>1. Kept(v) # {}
    BY <1>6, FS_EmptySet, LimitIsPositive DEF NeedsRoom
  <2>2. PICK e \in Front(Kept(v)) : \A g \in Front(Kept(v)) : Older(e, g)
    BY <1>1, <1>2, <2>1, OldestFront
  <2>3. e \in Evicted(v) /\ e \in Kept(v)
    BY <1>6, <2>2 DEF Evicted, Oldest, Front
  <2>4. Stay(v) \in SUBSET (Kept(v) \ {e})
    BY <1>1, <2>3
  <2>5. IsFiniteSet(Kept(v) \ {e}) /\ Cardinality(Kept(v) \ {e}) = Cardinality(Kept(v)) - 1
    BY <1>3, <2>3, FS_RemoveElement
  <2>6. IsFiniteSet(Stay(v)) /\ Cardinality(Stay(v)) <= Cardinality(Kept(v)) - 1
    BY <2>4, <2>5, FS_Subset
  <2>7. Cardinality(Stay(v)) \in Nat
    BY <2>6, FS_CardinalityType
  <2> QED BY <1>2, <1>3, <1>4, <2>6, <2>7, LimitIsPositive
<1> QED BY <1>5, <1>6

-------------------------------------------------------------------------------
\* Each way a call can end keeps the invariant.
LEMMA KnownKeepsIInv ==
  ASSUME IInv, NEW v \in Views, UpdateKnown(v)
  PROVE  IInv'
<1>1. PICK k \in flows : Known(v) = {k}
  BY OneKnown DEF UpdateKnown
<1>2. /\ flows' = (Stay(v) \ {k}) \cup {Continued(k, v)}
      /\ now' = Clock(v) /\ created' = created /\ received' = received + 1
      /\ counted' = counted + 1 /\ flushed' = flushed
      /\ Records' = Records \cup Released(v) /\ pending' = {}
  BY <1>1 DEF UpdateKnown, Receive, Records
<1>3. Scalars'
  BY <1>2, ClockAdvances DEF Scalars, IInv
<1>4. /\ Clock(v) \in Nat /\ now \in Int /\ now <= Clock(v) /\ v.ts <= Clock(v)
      /\ created \in Nat /\ received \in Nat
  BY ClockAdvances DEF IInv, Scalars
<1> DEFINE g == Continued(k, v)
<1>5. /\ g \in Flow /\ FlowSound(g, Clock(v))
      /\ g.number = k.number /\ g.protocol = k.protocol /\ g.a = k.a /\ g.b = k.b
  <2>1. k \in Flow /\ FlowSound(k, now)
    BY DEF IInv, Tabled
  <2>2. FlowSound(k, Clock(v))
    BY <1>4, <2>1, SoundLater
  <2> QED BY <1>4, <2>1, <2>2, ContinuedSound
<1> HIDE DEF g
<1>6. Tabled(flows', now', created')
  <2>1. Stay(v) \ {k} \in SUBSET (flows \ {k})
    BY Departures
  <2>2. Tabled(flows, now, created)
    BY DEF IInv
  <2>3. Tabled((Stay(v) \ {k}) \cup {g}, Clock(v), created)
    <3>1. Clock(v) \in Int /\ created <= created
      BY <1>4
    <3> HIDE DEF IInv
    <3> QED BY <1>4, <1>5, <2>1, <2>2, <3>1, TabledReplace
  <2> QED BY <1>2, <2>3 DEF g
<1>7. Exported(Records', flows', now', created')
  <2> DEFINE gone == flows \ (Stay(v) \cup {k})
  <2>1. \A r \in Released(v) : r \in [flow : Flow, reason : Reasons] /\ r.flow \in gone
    <3>1. Known(v) \cap (Overdue(v) \cup Reused(v) \cup Evicted(v)) = {}
      BY Departures
    <3>2. \A r \in Released(v) : r.flow \in Overdue(v) \cup Reused(v) \cup Evicted(v)
      BY DEF Released, Record
    <3>3. Stay(v) = flows \ (Overdue(v) \cup Reused(v) \cup Evicted(v))
      BY Departures
    <3> QED BY <1>1, <3>1, <3>2, <3>3, ReleasedType
  <2>2. \A f \in flows' : \/ \E h \in flows \ gone : h.number = f.number
                         \/ f.number = created + 1
    <3>1. Stay(v) \subseteq flows \ gone /\ k \in flows \ gone
      BY Departures
    <3> QED BY <1>2, <1>5, <3>1 DEF g
  <2> HIDE DEF gone
  <2>3. Exported(Records \cup Released(v), flows', Clock(v), created)
    <3>1. gone \in SUBSET flows
      BY DEF gone
    <3>2. Tabled(flows, now, created) /\ Exported(Records, flows, now, created)
      BY DEF IInv
    <3> QED BY <1>4, <2>1, <2>2, <3>1, <3>2, ReleasedOnce, ExportedMore
  <2> QED BY <1>2, <2>3
<1> QED BY <1>2, <1>3, <1>6, <1>7 DEF IInv

LEMMA NewKeepsIInv ==
  ASSUME IInv, NEW v \in Views, UpdateNew(v)
  PROVE  IInv'
<1> DEFINE g == Started(v)
<1>1. /\ Known(v) = {} /\ flows' = Stay(v) \cup {g}
      /\ now' = Clock(v) /\ created' = created + 1 /\ received' = received + 1
      /\ counted' = counted + 1 /\ flushed' = flushed
      /\ Records' = Records \cup Released(v) /\ pending' = {}
  BY DEF UpdateNew, Receive, Records
<1>2. Scalars'
  BY <1>1, ClockAdvances DEF Scalars, IInv
<1>3. /\ Clock(v) \in Nat /\ Clock(v) \in Int /\ now \in Int /\ now <= Clock(v) /\ v.ts <= Clock(v)
      /\ created \in Nat /\ received \in Nat /\ created <= created /\ created <= created + 1
      /\ created + 1 \in Nat
  BY ClockAdvances DEF IInv, Scalars
<1>4. Tabled(flows, now, created) /\ Exported(Records, flows, now, created)
  BY DEF IInv
<1>5. /\ g \in Flow /\ FlowSound(g, Clock(v))
      /\ g.number = created + 1 /\ g.protocol = v.protocol /\ FlowKey(g) = ViewKey(v)
  BY <1>3, <1>4, StartedSound DEF Tabled
<1> HIDE DEF g
<1>6. Tabled(flows', now', created')
  <2>1. Stay(v) \in SUBSET flows
    BY Departures
  <2>2. Tabled(Stay(v), Clock(v), created)
    BY <1>3, <1>4, <2>1, TabledFewer
  <2>3. \A f \in Stay(v) : ~(f.protocol = g.protocol /\ FlowKey(f) = FlowKey(g))
    BY <1>1, <1>5 DEF Stay, Kept, Known, Same, Table
  <2>4. Cardinality(Stay(v)) < MaxFlows
    BY <1>1, RoomMade
  <2> QED BY <1>1, <1>3, <1>5, <2>2, <2>3, <2>4, TabledAdd
<1>7. Exported(Records', flows', now', created')
  <2> DEFINE gone == flows \ Stay(v)
  <2>1. \A r \in Released(v) : r \in [flow : Flow, reason : Reasons] /\ r.flow \in gone
    <3>1. \A r \in Released(v) : r.flow \in Overdue(v) \cup Reused(v) \cup Evicted(v)
      BY DEF Released, Record
    <3>2. Stay(v) = flows \ (Overdue(v) \cup Reused(v) \cup Evicted(v))
      BY Departures
    <3> QED BY <3>1, <3>2, ReleasedType
  <2>2. \A f \in flows' : \/ \E h \in flows \ gone : h.number = f.number
                         \/ f.number = created + 1
    BY <1>1, <1>5, Departures
  <2>3. gone \in SUBSET flows
    OBVIOUS
  <2> HIDE DEF gone
  <2>4. Exported(Records \cup Released(v), flows', Clock(v), created + 1)
    BY <1>3, <1>4, <2>1, <2>2, <2>3, ReleasedOnce, ExportedMore
  <2> QED BY <1>1, <2>4
<1> QED BY <1>1, <1>2, <1>6, <1>7 DEF IInv

LEMMA FailureKeepsIInv ==
  ASSUME IInv, NEW v \in Views, NEW at \in Points, UpdateFails(v, at)
  PROVE  IInv'
<1> DEFINE gone == Gone(v, at)
           hit == IF at = "count" THEN Known(v) ELSE {}
           new == {r \in Released(v) : r.flow \in gone}
<1>1. /\ flows' = (flows \ (gone \cup hit)) \cup {Count(f, v) : f \in hit}
      /\ now' = Clock(v) /\ created' \in {created, created + 1} /\ received' = received + 1
      /\ counted' = counted + Cardinality(hit) /\ flushed' = flushed
      /\ pending' = pending \cup new /\ delivered' = delivered
  BY DEF UpdateFails, Receive
<1>2. gone \in SUBSET flows /\ hit \in SUBSET flows /\ gone \cap hit = {}
  BY Departures DEF Gone
<1>3. hit = {} \/ \E k \in flows : hit = {k}
  BY OneKnown
<1> HIDE DEF gone, hit
<1>4. Scalars'
  <2>1. Cardinality(hit) \in Nat
    BY <1>3, FS_EmptySet, FS_Singleton
  <2> QED BY <1>1, <2>1, ClockAdvances DEF Scalars, IInv
<1>5. /\ Clock(v) \in Nat /\ Clock(v) \in Int /\ now \in Int /\ now <= Clock(v) /\ v.ts <= Clock(v)
      /\ created \in Nat /\ received \in Nat /\ created' \in Nat /\ created <= created'
      /\ now' = Clock(v)
  BY <1>1, ClockAdvances DEF IInv, Scalars
<1>6. Tabled(flows, now, created) /\ Exported(Records, flows, now, created)
  BY DEF IInv
<1>7. Tabled(flows', now', created')
  <2>1. CASE hit = {}
    <3>1. flows' = flows \ gone
      BY <1>1, <2>1
    <3>2. flows \ gone \in SUBSET flows
      OBVIOUS
    <3> QED BY <1>5, <1>6, <3>1, <3>2, TabledFewer
  <2>2. CASE \E k \in flows : hit = {k}
    <3>1. PICK k \in flows : hit = {k}
      BY <2>2
    <3> DEFINE g == Count(k, v)
    <3>2. flows' = (flows \ (gone \cup {k})) \cup {g}
      BY <1>1, <3>1
    <3>3. k \in Flow /\ FlowSound(k, now)
      BY <1>6 DEF Tabled
    <3>4. /\ g \in Flow
          /\ g.number = k.number /\ g.protocol = k.protocol /\ g.a = k.a /\ g.b = k.b
          /\ g.state = k.state /\ g.fins = k.fins /\ g.start = k.start
          /\ g.last = IF v.ts > k.last THEN v.ts ELSE k.last
          /\ g.forward + g.backward = k.forward + k.backward + 1
      BY <3>3, CountType
    <3> HIDE DEF g
    <3>5. FlowSound(g, Clock(v))
      <4>1. /\ k.forward \in Nat /\ k.backward \in Nat /\ k.start \in Nat /\ k.last \in Nat
            /\ v.ts \in Nat
        BY <3>3, ViewType DEF Flow
      <4>2. k.forward + k.backward > 0 /\ k.start <= k.last /\ k.last <= now
        BY <3>3 DEF FlowSound
      <4>3. g.forward + g.backward > 0 /\ g.start <= g.last /\ g.last <= Clock(v)
        BY <1>5, <3>4, <4>1, <4>2
      <4> QED BY <3>3, <3>4, <4>3 DEF FlowSound
    <3>6. flows \ (gone \cup {k}) \in SUBSET (flows \ {k})
      OBVIOUS
    <3> QED BY <1>5, <1>6, <3>2, <3>4, <3>5, <3>6, TabledReplace
  <2> QED BY <1>3, <2>1, <2>2
<1>8. /\ Exported(Records \cup new, flows', now', created')
      /\ Records \cap new = {}
  <2>1. \A r \in new : r \in [flow : Flow, reason : Reasons] /\ r.flow \in gone
    BY ReleasedType
  <2>2. \A r, s \in new : r.flow = s.flow => r = s
    BY ReleasedOnce
  <2>3. \A f \in flows' : \E h \in flows \ gone : h.number = f.number
    <3>1. \A f \in hit : Count(f, v).number = f.number
      BY <1>2, <1>6, CountType DEF Tabled
    <3> QED BY <1>1, <1>2, <3>1
  <2> HIDE DEF new
  <2> QED BY <1>2, <1>5, <1>6, <2>1, <2>2, <2>3, ExportedMore
<1>9. Records' = Records \cup new
  BY <1>1 DEF Records
<1>10. pending' \cap delivered' = {}
  BY <1>1, <1>8 DEF Records, IInv
<1> QED BY <1>4, <1>7, <1>8, <1>9, <1>10 DEF IInv

LEMMA FlushKeepsIInv ==
  ASSUME IInv, Flush
  PROVE  IInv'
<1> DEFINE new == Record(flows, "end_of_input")
<1>1. /\ flows' = {} /\ pending' = {} /\ now' = now /\ created' = created
      /\ Records' = Records \cup new
  BY DEF Flush, Records
<1>2. Scalars' /\ now \in Int /\ now <= now /\ created \in Nat /\ created <= created
  BY DEF Flush, Scalars, IInv, NoTime
<1>3. Tabled(flows, now, created) /\ Exported(Records, flows, now, created)
  BY DEF IInv
<1>4. Tabled(flows', now', created')
  <2>1. {} \in SUBSET flows
    OBVIOUS
  <2> QED BY <1>1, <1>2, <1>3, <2>1, TabledFewer
<1>5. Exported(Records \cup new, flows', now, created)
  <2>1. \A r \in new : r \in [flow : Flow, reason : Reasons] /\ r.flow \in flows
    BY <1>3 DEF Record, Reasons, Tabled
  <2>2. \A r, s \in new : r.flow = s.flow => r = s
    BY DEF Record
  <2>3. flows \in SUBSET flows /\ \A g \in {} : g \in flows
    OBVIOUS
  <2> HIDE DEF new
  <2>4. Exported(Records \cup new, {}, now, created)
    BY <1>2, <1>3, <2>1, <2>2, <2>3, ExportedMore
  <2> QED BY <1>1, <2>4
<1> QED BY <1>1, <1>2, <1>4, <1>5 DEF IInv

LEMMA InitIInv == Init => IInv
<1> SUFFICES ASSUME Init PROVE IInv
  OBVIOUS
<1>1. flows = {} /\ Records = {} /\ pending \cap delivered = {}
  BY DEF Init, Records
<1>2. Scalars
  BY DEF Init, Scalars
<1>3. Tabled({}, now, created)
  BY FS_EmptySet, LimitIsPositive DEF Tabled
<1>4. Exported({}, {}, now, created)
  BY DEF Exported
<1> QED BY <1>1, <1>2, <1>3, <1>4 DEF IInv

LEMMA StepKeepsIInv == IInv /\ [Next]_vars => IInv'
<1> SUFFICES ASSUME IInv, [Next]_vars PROVE IInv'
  OBVIOUS
<1>1. ASSUME NEW v \in Views, UpdateKnown(v) PROVE IInv'
  BY <1>1, KnownKeepsIInv
<1>2. ASSUME NEW v \in Views, UpdateNew(v) PROVE IInv'
  BY <1>2, NewKeepsIInv
<1>3. ASSUME NEW v \in Views, NEW at \in Points, UpdateFails(v, at) PROVE IInv'
  BY <1>3, FailureKeepsIInv
<1>4. CASE Flush
  BY <1>4, FlushKeepsIInv
<1>5. CASE UNCHANGED vars
  BY <1>5 DEF vars, IInv, Scalars, Records, Tabled, Exported
<1> QED BY <1>1, <1>2, <1>3, <1>4, <1>5 DEF Next, Update

THEOREM Invariance == Spec => []IInv
BY InitIInv, StepKeepsIInv, PTL DEF Spec

\* The types of the state.
THEOREM TypeCorrect == Spec => []TypeOK
<1>1. IInv => TypeOK
  BY DEF IInv, TypeOK, Scalars, Tabled, Exported
<1> QED BY <1>1, Invariance, PTL

\* max_flows is never exceeded, also by calls that raise.
THEOREM LimitHolds == Spec => []TableLimit
<1>1. IInv => TableLimit
  BY DEF IInv, TableLimit, Tabled
<1> QED BY <1>1, Invariance, PTL

\* No flow is exported twice or exported while it stays in a table.
THEOREM EachFlowExportedOnce == Spec => []ExportedOnce
<1>1. IInv => ExportedOnce
  BY DEF IInv, ExportedOnce, Exported
<1> QED BY <1>1, Invariance, PTL

\* The two directions of a conversation share one flow.
THEOREM KeysAreUnique == Spec => []OneFlowPerKey
<1>1. IInv => OneFlowPerKey
  BY DEF IInv, OneFlowPerKey, Tabled
<1> QED BY <1>1, Invariance, PTL

\* Every flow and every record has a packet, a duration that is not negative and a state of its protocol.
THEOREM RecordsMakeSense == Spec => []FlowsMakeSense
<1>1. IInv => FlowsMakeSense
  BY DEF IInv, FlowsMakeSense, Tabled, Exported, FlowSound
<1> QED BY <1>1, Invariance, PTL

\* A flow is CLOSED only after a FIN from each side, CLOSING only after one, and has none before.
THEOREM FinsFollowState == Spec => []FinsMatchState
<1>1. IInv => FinsMatchState
  BY DEF IInv, FinsMatchState, Tabled, Exported, FlowSound
<1> QED BY <1>1, Invariance, PTL

-------------------------------------------------------------------------------
\* What a step exports: what one call released, or everything at the end of the input.
LEMMA NewRecordsShape ==
  ASSUME IInv, Next
  PROVE  \/ \E v \in Views : NewRecords \subseteq Released(v) /\ now' = Clock(v)
         \/ NewRecords \subseteq Record(flows, "end_of_input")
<1>1. ASSUME NEW v \in Views, UpdateKnown(v) \/ UpdateNew(v)
      PROVE  NewRecords \subseteq Released(v) /\ now' = Clock(v)
  BY <1>1 DEF UpdateKnown, UpdateNew, Receive, NewRecords, Records
<1>2. ASSUME NEW v \in Views, NEW at \in Points, UpdateFails(v, at)
      PROVE  NewRecords \subseteq Released(v) /\ now' = Clock(v)
  BY <1>2 DEF UpdateFails, Receive, NewRecords, Records
<1>3. ASSUME Flush
      PROVE  NewRecords \subseteq Record(flows, "end_of_input")
  BY <1>3 DEF Flush, NewRecords, Records
<1> QED BY <1>1, <1>2, <1>3 DEF Next, Update

LEMMA ReuseLeavesRoom ==
  ASSUME IInv, NEW v \in Views, Reused(v) # {}
  PROVE  Evicted(v) = {}
<1>1. PICK old \in Reused(v) : TRUE
  OBVIOUS
<1>2. old \in flows /\ Kept(v) \in SUBSET (flows \ {old})
  BY <1>1, Departures DEF Live, Kept
<1>3. IsFiniteSet(flows) /\ Cardinality(flows) <= MaxFlows /\ Cardinality(flows) \in Nat
  BY FS_CardinalityType DEF IInv, Tabled
<1>4. ~NeedsRoom(v)
  <2>1. IsFiniteSet(flows \ {old}) /\ Cardinality(flows \ {old}) = Cardinality(flows) - 1
    BY <1>2, <1>3, FS_RemoveElement
  <2>2. IsFiniteSet(Kept(v)) /\ Cardinality(Kept(v)) <= Cardinality(flows) - 1
    BY <1>2, <2>1, FS_Subset
  <2>3. Cardinality(Kept(v)) \in Nat
    BY <2>2, FS_CardinalityType
  <2> QED BY <1>3, <2>2, <2>3, LimitIsPositive DEF NeedsRoom
<1> QED BY <1>4 DEF Evicted

\* "A reuse never evicts another flow", at whatever point the call ends.
THEOREM ReuseIsFree == Spec => ReuseNeverEvicts
<1> DEFINE Step == \A r, s \in NewRecords : r.reason = "new_connection" => s.reason # "evicted"
<1>1. ASSUME IInv, Next PROVE Step
  <2>1. ASSUME NEW v \in Views, NewRecords \subseteq Released(v) PROVE Step
    <3>1. SUFFICES ASSUME NEW r \in Released(v), NEW s \in Released(v),
                          r.reason = "new_connection", s.reason = "evicted"
                   PROVE  FALSE
      BY <2>1
    <3>2. r.flow \in Reused(v) /\ s.flow \in Evicted(v)
      BY <3>1, ReleasedShape
    <3> QED BY <1>1, <3>2, ReuseLeavesRoom
  <2>2. ASSUME NewRecords \subseteq Record(flows, "end_of_input") PROVE Step
    BY <2>2 DEF Record
  <2> QED BY <1>1, <2>1, <2>2, NewRecordsShape
<1>2. IInv /\ [Next]_vars => [Step]_vars
  BY <1>1
<1> QED BY <1>2, Invariance, PTL DEF Spec, ReuseNeverEvicts

\* A flow ends as idle only when its last packet is older than its timeout.
THEOREM ExpiryIsSound == Spec => ExpirySound
<1> DEFINE Step == \A r \in NewRecords : r.reason = "idle_timeout" =>
             now' - r.flow.last > Timeout[r.flow.protocol]
<1>1. ASSUME IInv, Next PROVE Step
  <2>1. ASSUME NEW v \in Views, NewRecords \subseteq Released(v), now' = Clock(v),
               NEW r \in NewRecords, r.reason = "idle_timeout"
        PROVE  now' - r.flow.last > Timeout[r.flow.protocol]
    <3>1. r.flow \in Overdue(v)
      BY <2>1, ReleasedShape
    <3>2. r.flow \in Table(flows, r.flow.protocol) /\ r.flow.turn \in Nat
      BY <1>1, <3>1, Departures DEF Table, IInv, Tabled, Flow
    <3>3. r.flow.turn <= r.flow.turn
      BY <3>2
    <3>4. \A g \in Table(flows, r.flow.protocol) : g.turn <= r.flow.turn => Idle(g, Clock(v))
      BY <3>1 DEF Overdue
    <3>5. Idle(r.flow, Clock(v))
      BY <3>2, <3>3, <3>4
    <3> QED BY <2>1, <3>5 DEF Idle
  <2>2. ASSUME NewRecords \subseteq Record(flows, "end_of_input") PROVE Step
    BY <2>2 DEF Record
  <2> QED BY <1>1, <2>1, <2>2, NewRecordsShape
<1>2. IInv /\ [Next]_vars => [Step]_vars
  BY <1>1
<1> QED BY <1>2, Invariance, PTL DEF Spec, ExpirySound

LEMMA AfterReflexive ==
  ASSUME NEW state \in States
  PROVE  state \in After(state)
BY DEF After, States, Ended

\* The TCP state of a flow only moves forward, from its first packet to its record.
THEOREM StateOnlyAdvances == Spec => StateNeverReverts
<1> DEFINE Step == \A f \in flows : \A g \in flows' \cup {r.flow : r \in NewRecords} :
                     f.number = g.number /\ f.protocol = "TCP" => g.state \in After(f.state)
<1>1. ASSUME IInv, Next PROVE Step
  <2>1. ASSUME NEW f \in flows, f.protocol = "TCP"
        PROVE  f.state \in After(f.state)
    <3>1. f.state \in States
      BY <1>1, <2>1 DEF IInv, Tabled, FlowSound, Flow
    <3> QED BY <3>1, AfterReflexive
  <2>2. \A r \in NewRecords : r.flow \in flows
    <3>1. \A v \in Views : \A r \in Released(v) : r.flow \in flows
      BY ReleasedShape
    <3>2. \A r \in Record(flows, "end_of_input") : r.flow \in flows
      BY DEF Record
    <3> QED BY <1>1, <3>1, <3>2, NewRecordsShape
  <2>3. \A f, g \in flows : f.number = g.number => f = g
    BY <1>1 DEF IInv, Tabled
  <2>4. SUFFICES ASSUME NEW f \in flows, NEW g \in flows', f.number = g.number, f.protocol = "TCP"
                 PROVE  g.state \in After(f.state)
    BY <2>1, <2>2, <2>3
  <2>5. CASE g \in flows
    BY <2>1, <2>3, <2>4, <2>5
  <2>6. ASSUME NEW v \in Views, NEW k \in flows, g = Continued(k, v)
        PROVE  g.state \in After(f.state)
    <3>1. /\ Clock(v) \in Nat /\ now \in Int /\ now <= Clock(v) /\ v.ts <= Clock(v)
          /\ received \in Nat
      BY <1>1, ClockAdvances DEF IInv, Scalars
    <3>2. k \in Flow /\ FlowSound(k, Clock(v))
      BY <1>1, <3>1, SoundLater DEF IInv, Tabled
    <3>3. g.number = k.number /\ (k.protocol = "TCP" => g.state \in After(k.state))
      BY <2>6, <3>1, <3>2, ContinuedSound
    <3> QED BY <2>3, <2>4, <3>3
  <2>7. ASSUME NEW v \in Views, g = Started(v)
        PROVE  FALSE
    <3>1. /\ Clock(v) \in Nat /\ v.ts <= Clock(v) /\ received \in Nat /\ created \in Nat
          /\ flows \subseteq Flow
      BY <1>1, ClockAdvances DEF IInv, Scalars, Tabled
    <3>2. g.number = created + 1
      BY <2>7, <3>1, StartedSound
    <3>3. f.number \in Nat /\ f.number <= created
      BY <1>1 DEF IInv, Tabled, Flow
    <3> QED BY <2>4, <3>1, <3>2, <3>3
  <2>8. ASSUME NEW v \in Views, NEW k \in flows, g = Count(k, v)
        PROVE  g.state \in After(f.state)
    <3>1. g.number = k.number /\ g.state = k.state
      BY <1>1, <2>8, CountType DEF IInv, Tabled
    <3> QED BY <2>1, <2>3, <2>4, <3>1
  <2>9. ASSUME NEW v \in Views, UpdateKnown(v)
        PROVE  g.state \in After(f.state)
    <3>1. g \in flows \/ \E k \in flows : g = Continued(k, v)
      BY <2>9, Departures DEF UpdateKnown
    <3> QED BY <2>5, <2>6, <3>1
  <2>10. ASSUME NEW v \in Views, UpdateNew(v)
         PROVE  g.state \in After(f.state)
    <3>1. g \in flows \/ g = Started(v)
      BY <2>10, Departures DEF UpdateNew
    <3> QED BY <2>5, <2>7, <3>1
  <2>11. ASSUME NEW v \in Views, NEW at \in Points, UpdateFails(v, at)
         PROVE  g.state \in After(f.state)
    <3>1. g \in flows \/ \E k \in flows : g = Count(k, v)
      BY <2>11, Departures DEF UpdateFails
    <3> QED BY <2>5, <2>8, <3>1
  <2>12. CASE Flush
    BY <2>12 DEF Flush
  <2> QED BY <1>1, <2>9, <2>10, <2>11, <2>12 DEF Next, Update
<1>2. IInv /\ [Next]_vars => [Step]_vars
  BY <1>1
<1> QED BY <1>2, Invariance, PTL DEF Spec, StateNeverReverts

-------------------------------------------------------------------------------
\* Numbers tell flows apart, so what leaves the tables leaves the ledger.
LEMMA NumbersLeft ==
  ASSUME IInv, NEW gone \in SUBSET flows
  PROVE  /\ Numbers(flows) \ Numbers(flows \ gone) = Numbers(gone)
         /\ Numbers(flows \ gone) \subseteq Numbers(flows)
<1>1. \A f, g \in flows : f.number = g.number => f = g
  BY DEF IInv, Tabled
<1> QED BY <1>1 DEF Numbers

LEMMA RecordNumbersUnion ==
  ASSUME NEW rs, NEW ss, NEW ts
  PROVE  RecordNumbers(rs \cup ss \cup ts) = RecordNumbers(rs) \cup RecordNumbers(ss) \cup RecordNumbers(ts)
BY DEF RecordNumbers

LEMMA RecordOfEach ==
  ASSUME NEW fs, NEW reason
  PROVE  /\ \A r \in Record(fs, reason) : r.flow \in fs
         /\ \A f \in fs : \E r \in Record(fs, reason) : r.flow = f
         /\ RecordNumbers(Record(fs, reason)) = Numbers(fs)
<1>1. \A r \in Record(fs, reason) : r.flow \in fs
  BY DEF Record
<1>2. ASSUME NEW f \in fs PROVE \E r \in Record(fs, reason) : r.flow = f
  <2>1. [flow |-> f, reason |-> reason] \in Record(fs, reason)
    BY DEF Record
  <2>2. [flow |-> f, reason |-> reason].flow = f
    OBVIOUS
  <2> QED BY <2>1, <2>2
<1> QED BY <1>1, <1>2 DEF RecordNumbers, Numbers

LEMMA ReleasedNumbers ==
  ASSUME NEW v \in Views
  PROVE  /\ \A f \in Overdue(v) \cup Reused(v) \cup Evicted(v) : \E r \in Released(v) : r.flow = f
         /\ RecordNumbers(Released(v)) = Numbers(Overdue(v) \cup Reused(v) \cup Evicted(v))
<1>1. \A f \in Overdue(v) \cup Reused(v) \cup Evicted(v) : \E r \in Released(v) : r.flow = f
  BY RecordOfEach DEF Released
<1>2. \A r \in Released(v) : r.flow \in Overdue(v) \cup Reused(v) \cup Evicted(v)
  BY RecordOfEach DEF Released
<1> QED BY <1>1, <1>2 DEF RecordNumbers, Numbers

\* A flow keeps its number, and a new flow has the next one.
LEMMA NumbersKept ==
  ASSUME IInv, NEW v \in Views
  PROVE  /\ \A f \in flows : Continued(f, v).number = f.number /\ Count(f, v).number = f.number
         /\ Started(v).number = created + 1
         /\ created + 1 \notin Numbers(flows) \cup RecordNumbers(Records)
<1>1. /\ Clock(v) \in Nat /\ v.ts <= Clock(v) /\ received \in Nat /\ created \in Nat
      /\ now \in Int /\ now <= Clock(v) /\ flows \subseteq Flow
  BY ClockAdvances DEF IInv, Scalars, Tabled
<1>2. ASSUME NEW f \in flows PROVE Continued(f, v).number = f.number /\ Count(f, v).number = f.number
  <2>1. f \in Flow /\ FlowSound(f, Clock(v))
    BY <1>1, SoundLater DEF IInv, Tabled
  <2> QED BY <1>1, <2>1, ContinuedSound, CountType
<1>3. Started(v).number = created + 1
  BY <1>1, StartedSound
<1>4. \A n \in Numbers(flows) \cup RecordNumbers(Records) : n \in Nat /\ n <= created
  BY DEF IInv, Tabled, Exported, Flow, Numbers, RecordNumbers
<1> QED BY <1>1, <1>2, <1>3, <1>4

LEMMA KnownReturns ==
  ASSUME IInv, NEW v \in Views, UpdateKnown(v)
  PROVE  Ledger!Return
<1> DEFINE gone == Overdue(v) \cup Reused(v) \cup Evicted(v)
<1>1. gone \in SUBSET flows /\ Stay(v) = flows \ gone /\ Known(v) \subseteq Stay(v)
  BY Departures
<1>2. Numbers(flows') = Numbers(Stay(v))
  <2>1. flows' = (Stay(v) \ Known(v)) \cup {Continued(f, v) : f \in Known(v)}
    BY DEF UpdateKnown
  <2>2. \A f \in Known(v) : Continued(f, v).number = f.number
    BY <1>1, NumbersKept
  <2> QED BY <1>1, <2>1, <2>2 DEF Numbers
<1>3. Ledger!Ended = Numbers(gone) /\ Ledger!Opened = {}
  BY <1>1, <1>2, NumbersLeft DEF Ledger!Ended, Ledger!Opened
<1>4. /\ ~flushed /\ flushed' = flushed /\ pending' = {}
      /\ delivered' = delivered \cup pending \cup Released(v)
  BY DEF UpdateKnown, Receive
<1>5. RecordNumbers(delivered') =
        RecordNumbers(delivered) \cup RecordNumbers(pending) \cup Numbers(gone)
  BY <1>4, RecordNumbersUnion, ReleasedNumbers
<1>6. RecordNumbers(pending') = {}
  BY <1>4 DEF RecordNumbers
<1> QED BY <1>3, <1>4, <1>5, <1>6 DEF Ledger!Return, Ledger!OneIsNew

LEMMA NewReturns ==
  ASSUME IInv, NEW v \in Views, UpdateNew(v)
  PROVE  Ledger!Return
<1> DEFINE gone == Overdue(v) \cup Reused(v) \cup Evicted(v)
<1>1. gone \in SUBSET flows /\ Stay(v) = flows \ gone
  BY Departures
<1>2. Numbers(flows') = Numbers(Stay(v)) \cup {created + 1}
  <2>1. flows' = Stay(v) \cup {Started(v)} /\ Started(v).number = created + 1
    BY NumbersKept DEF UpdateNew
  <2> QED BY <2>1 DEF Numbers
<1>3. /\ created + 1 \notin Numbers(flows)
      /\ created + 1 \notin RecordNumbers(pending) \cup RecordNumbers(delivered)
  BY NumbersKept DEF Records, RecordNumbers
<1>4. Ledger!Ended = Numbers(gone) /\ Ledger!Opened = {created + 1}
  <2>1. Numbers(flows) \ Numbers(Stay(v)) = Numbers(gone) /\ Numbers(Stay(v)) \subseteq Numbers(flows)
    BY <1>1, NumbersLeft
  <2> QED BY <1>2, <1>3, <2>1 DEF Ledger!Ended, Ledger!Opened
<1>5. /\ ~flushed /\ flushed' = flushed /\ pending' = {}
      /\ delivered' = delivered \cup pending \cup Released(v)
  BY DEF UpdateNew, Receive
<1>6. RecordNumbers(delivered') =
        RecordNumbers(delivered) \cup RecordNumbers(pending) \cup Numbers(gone)
  BY <1>5, RecordNumbersUnion, ReleasedNumbers
<1>7. RecordNumbers(pending') = {}
  BY <1>5 DEF RecordNumbers
<1> QED BY <1>3, <1>4, <1>5, <1>6, <1>7 DEF Ledger!Return, Ledger!OneIsNew

LEMMA FailureRaises ==
  ASSUME IInv, NEW v \in Views, NEW at \in Points, UpdateFails(v, at)
  PROVE  Ledger!Raise
<1> DEFINE hit == IF at = "count" THEN Known(v) ELSE {}
           new == {r \in Released(v) : r.flow \in Gone(v, at)}
<1>1. Gone(v, at) \in SUBSET flows /\ hit \subseteq flows \ Gone(v, at)
  BY Departures DEF Gone
<1>2. /\ ~flushed /\ flushed' = flushed /\ delivered' = delivered /\ pending' = pending \cup new
      /\ flows' = (flows \ (Gone(v, at) \cup hit)) \cup {Count(f, v) : f \in hit}
  BY DEF UpdateFails, Receive
<1>3. Numbers(flows') = Numbers(flows \ Gone(v, at))
  <2>1. \A f \in hit : Count(f, v).number = f.number
    BY <1>1, NumbersKept
  <2> HIDE DEF hit
  <2> QED BY <1>1, <1>2, <2>1 DEF Numbers
<1>4. Ledger!Ended = Numbers(Gone(v, at)) /\ Ledger!Opened = {}
  BY <1>1, <1>3, NumbersLeft DEF Ledger!Ended, Ledger!Opened
<1>5. RecordNumbers(new) = Numbers(Gone(v, at))
  <2>1. Gone(v, at) \subseteq Overdue(v) \cup Reused(v) \cup Evicted(v)
    BY DEF Gone
  <2>2. \A f \in Gone(v, at) : \E r \in Released(v) : r.flow = f
    BY <2>1, ReleasedNumbers
  <2> QED BY <2>2 DEF RecordNumbers, Numbers
<1>6. RecordNumbers(pending') = RecordNumbers(pending) \cup Ledger!Ended
  BY <1>2, <1>4, <1>5 DEF RecordNumbers
<1> QED BY <1>2, <1>4, <1>6 DEF Ledger!Raise

LEMMA FlushCloses ==
  ASSUME IInv, Flush
  PROVE  Ledger!Close
<1>1. /\ ~flushed /\ flushed' = TRUE /\ flows' = {} /\ pending' = {}
      /\ delivered' = delivered \cup pending \cup Record(flows, "end_of_input")
  BY DEF Flush
<1>2. RecordNumbers(Record(flows, "end_of_input")) = Numbers(flows)
  BY RecordOfEach
<1>3. RecordNumbers(delivered') =
        RecordNumbers(delivered) \cup RecordNumbers(pending) \cup Numbers(flows)
  BY <1>1, <1>2, RecordNumbersUnion
<1>4. Numbers(flows') = {} /\ RecordNumbers(pending') = {}
  BY <1>1 DEF Numbers, RecordNumbers
<1> QED BY <1>1, <1>3, <1>4 DEF Ledger!Close

\* The tracker is a ledger of flows: every call returns, raises or closes as FlowLedger says.
THEOREM ImplementsLedger == Spec => KeepsLedger
<1>1. Init => Ledger!Init
  BY DEF Init, Ledger!Init, Numbers, RecordNumbers
<1>2. IInv /\ [Next]_vars => [Ledger!Next]_(Ledger!vars)
  <2>1. CASE UNCHANGED vars
    BY <2>1 DEF vars, Ledger!vars, Numbers, RecordNumbers
  <2>2. ASSUME IInv, Next PROVE Ledger!Next
    BY <2>2, KnownReturns, NewReturns, FailureRaises, FlushCloses DEF Next, Update, Ledger!Next
  <2> QED BY <2>1, <2>2
<1> QED BY <1>1, <1>2, Invariance, PTL DEF Spec, Ledger!Spec, KeepsLedger

-------------------------------------------------------------------------------
(***************************************************************************)
(* The packets.  What a step adds to the tables, takes out of them and     *)
(* hands over are sums over sets, which FoldProofs splits.                 *)
(***************************************************************************)
FlowPackets == [f \in Flow |-> Packets(f)]
RecordPackets == [r \in [flow : Flow, reason : Reasons] |-> Packets(r.flow)]

LEMMA PacketsType ==
  ASSUME NEW f \in Flow
  PROVE  FlowPackets[f] = Packets(f) /\ Packets(f) \in Nat
BY DEF FlowPackets, Packets, Flow

LEMMA SumOfFlows ==
  ASSUME NEW fs \in SUBSET Flow, IsFiniteSet(fs)
  PROVE  MapThenSumSet(Packets, fs) = Total(FlowPackets, fs)
<1> DEFINE Folds(h) == h = [s \in SUBSET fs |->
                              IF s = {} THEN 0 ELSE Packets(Pick(s)) + h[s \ {Pick(s)}]]
<1>1. MapThenSumSet(Packets, fs) = (CHOOSE h : Folds(h))[fs]
  BY Zenon DEF MapThenSumSet, MapThenFoldSet, Pick
<1>2. \A s \in SUBSET fs : s # {} => FlowPackets[Pick(s)] = Packets(Pick(s))
  <2>1. \A s \in SUBSET fs : s # {} => Pick(s) \in Flow
    BY DEF Pick
  <2> QED BY <2>1, PacketsType
<1>3. \A h : Folds(h) <=> IsFold(FlowPackets, h, fs)
  <2> SUFFICES ASSUME NEW h PROVE Folds(h) <=> IsFold(FlowPackets, h, fs)
    OBVIOUS
  <2>1. \A s \in SUBSET fs : (IF s = {} THEN 0 ELSE Packets(Pick(s)) + h[s \ {Pick(s)}])
                                = OneTurn(FlowPackets, h, s)
    BY <1>2 DEF OneTurn
  <2>2. [s \in SUBSET fs |-> IF s = {} THEN 0 ELSE Packets(Pick(s)) + h[s \ {Pick(s)}]]
          = [s \in SUBSET fs |-> OneTurn(FlowPackets, h, s)]
    BY <2>1
  <2> QED BY <2>2 DEF IsFold
<1>4. \E h : Folds(h)
  <2> HIDE DEF Folds
  <2> QED BY <1>3, FoldExists
<1> HIDE DEF Folds
<1>5. Folds(CHOOSE h : Folds(h))
  BY <1>4
<1> QED BY <1>1, <1>3, <1>5, FoldIsTotal

LEMMA SumOfRecords ==
  ASSUME NEW rs \in SUBSET [flow : Flow, reason : Reasons], IsFiniteSet(rs)
  PROVE  MapThenSumSet(LAMBDA r : Packets(r.flow), rs) = Total(RecordPackets, rs)
<1> DEFINE Folds(h) == h = [s \in SUBSET rs |->
                              IF s = {} THEN 0 ELSE Packets(Pick(s).flow) + h[s \ {Pick(s)}]]
<1>1. MapThenSumSet(LAMBDA r : Packets(r.flow), rs) = (CHOOSE h : Folds(h))[rs]
  BY Zenon DEF MapThenSumSet, MapThenFoldSet, Pick
<1>2. \A s \in SUBSET rs : s # {} => RecordPackets[Pick(s)] = Packets(Pick(s).flow)
  <2>1. \A s \in SUBSET rs : s # {} => Pick(s) \in [flow : Flow, reason : Reasons]
    BY DEF Pick
  <2> QED BY <2>1 DEF RecordPackets
<1>3. \A h : Folds(h) <=> IsFold(RecordPackets, h, rs)
  <2> SUFFICES ASSUME NEW h PROVE Folds(h) <=> IsFold(RecordPackets, h, rs)
    OBVIOUS
  <2>1. \A s \in SUBSET rs : (IF s = {} THEN 0 ELSE Packets(Pick(s).flow) + h[s \ {Pick(s)}])
                                = OneTurn(RecordPackets, h, s)
    BY <1>2 DEF OneTurn
  <2>2. [s \in SUBSET rs |-> IF s = {} THEN 0 ELSE Packets(Pick(s).flow) + h[s \ {Pick(s)}]]
          = [s \in SUBSET rs |-> OneTurn(RecordPackets, h, s)]
    BY <2>1
  <2> QED BY <2>2 DEF IsFold
<1>4. \E h : Folds(h)
  <2> HIDE DEF Folds
  <2> QED BY <1>3, FoldExists
<1> HIDE DEF Folds
<1>5. Folds(CHOOSE h : Folds(h))
  BY <1>4
<1> QED BY <1>1, <1>3, <1>5, FoldIsTotal

\* One record for each flow that leaves: the records have the packets of the flows.
LEMMA RecordsHavePackets ==
  ASSUME NEW gone \in SUBSET Flow, IsFiniteSet(gone), NEW new \in SUBSET [flow : Flow, reason : Reasons],
         \A r \in new : r.flow \in gone, \A f \in gone : \E r \in new : r.flow = f,
         \A r, s \in new : r.flow = s.flow => r = s
  PROVE  IsFiniteSet(new) /\ Total(RecordPackets, new) = Total(FlowPackets, gone)
<1> DEFINE recordOf == [f \in gone |-> CHOOSE r \in new : r.flow = f]
<1>1. \A f \in gone : recordOf[f] \in new /\ recordOf[f].flow = f
  OBVIOUS
<1>2. new = {recordOf[f] : f \in gone}
  BY <1>1
<1>3. \A f \in gone : FlowPackets[f] \in Nat /\ RecordPackets[recordOf[f]] = FlowPackets[f]
  BY <1>1, PacketsType DEF RecordPackets
<1>4. \A f, g \in gone : recordOf[f] = recordOf[g] => f = g
  BY <1>1
<1> HIDE DEF recordOf
<1> QED BY <1>2, <1>3, <1>4, TotalImage

\* Every packet that was counted is in a flow of the tables or in a record.
Accounted ==
  /\ IsFiniteSet(Records)
  /\ counted = Total(FlowPackets, flows) + Total(RecordPackets, Records)

LEMMA FlowTotal ==
  ASSUME NEW fs \in SUBSET Flow, IsFiniteSet(fs)
  PROVE  Total(FlowPackets, fs) \in Nat
BY PacketsType, TotalIsNat

\* Flows leave and their records are kept: no packet is lost.
LEMMA LeavingAccounted ==
  ASSUME IInv, Accounted, NEW gone \in SUBSET flows, NEW new,
         \A r \in new : r \in [flow : Flow, reason : Reasons] /\ r.flow \in gone,
         \A f \in gone : \E r \in new : r.flow = f,
         \A r, s \in new : r.flow = s.flow => r = s
  PROVE  /\ IsFiniteSet(Records \cup new)
         /\ Total(RecordPackets, Records \cup new) \in Nat
         /\ counted = Total(FlowPackets, flows \ gone) + Total(RecordPackets, Records \cup new)
<1>1. /\ flows \in SUBSET Flow /\ IsFiniteSet(flows)
      /\ Records \in SUBSET [flow : Flow, reason : Reasons] /\ IsFiniteSet(Records)
      /\ counted = Total(FlowPackets, flows) + Total(RecordPackets, Records)
  BY DEF IInv, Tabled, Exported, Accounted
<1>2. IsFiniteSet(gone) /\ IsFiniteSet(flows \ gone)
  BY <1>1, FS_Subset
<1>3. IsFiniteSet(new) /\ Total(RecordPackets, new) = Total(FlowPackets, gone)
  BY <1>1, <1>2, RecordsHavePackets
<1>4. Records \cap new = {}
  BY DEF IInv, Exported
<1>5. Total(FlowPackets, flows) = Total(FlowPackets, flows \ gone) + Total(FlowPackets, gone)
  <2>1. flows = (flows \ gone) \cup gone /\ (flows \ gone) \cap gone = {}
    OBVIOUS
  <2>2. \A f \in (flows \ gone) \cup gone : FlowPackets[f] \in Nat
    BY <1>1, PacketsType
  <2> QED BY <1>2, <2>1, <2>2, TotalUnion
<1>6. \A r \in Records \cup new : RecordPackets[r] \in Nat
  BY <1>1, PacketsType DEF RecordPackets
<1>7. /\ IsFiniteSet(Records \cup new)
      /\ Total(RecordPackets, Records \cup new) = Total(RecordPackets, Records) + Total(RecordPackets, new)
  BY <1>1, <1>3, <1>4, <1>6, TotalUnion, FS_Union
<1>8. /\ Total(FlowPackets, flows \ gone) \in Nat /\ Total(FlowPackets, gone) \in Nat
      /\ Total(RecordPackets, Records) \in Nat
  BY <1>1, <1>2, <1>6, FlowTotal, TotalIsNat
<1> QED BY <1>1, <1>3, <1>5, <1>7, <1>8

\* A packet is added to a flow that stays.
LEMMA PacketAdded ==
  ASSUME IInv, NEW rest \in SUBSET flows, NEW k \in rest, NEW g \in Flow,
         g.number = k.number, Packets(g) = Packets(k) + 1
  PROVE  Total(FlowPackets, (rest \ {k}) \cup {g}) = Total(FlowPackets, rest) + 1
<1> DEFINE others == rest \ {k}
<1>1. rest \in SUBSET Flow /\ IsFiniteSet(rest) /\ IsFiniteSet(others)
  BY FS_Subset DEF IInv, Tabled
<1>2. \A f \in rest \cup {g} : FlowPackets[f] \in Nat /\ FlowPackets[f] = Packets(f)
  BY <1>1, PacketsType
<1>3. g \notin others
  BY DEF IInv, Tabled
<1>4. Total(FlowPackets, rest) = FlowPackets[k] + Total(FlowPackets, others)
  BY <1>1, <1>2, TotalTake
<1>5. Total(FlowPackets, others \cup {g}) = Total(FlowPackets, others) + FlowPackets[g]
  <2>1. \A f \in others \cup {g} : FlowPackets[f] \in Nat
    BY <1>2
  <2> HIDE DEF others
  <2> QED BY <1>1, <1>3, <2>1, TotalAdd
<1>6. Total(FlowPackets, others) \in Nat
  BY <1>1, FlowTotal
<1>7. FlowPackets[k] \in Nat /\ FlowPackets[g] = FlowPackets[k] + 1
  BY <1>2
<1> QED BY <1>4, <1>5, <1>6, <1>7

\* What one call releases, if it gets far enough to release these flows.
LEMMA ReleasedOfGone ==
  ASSUME IInv, NEW v \in Views,
         NEW gone \in SUBSET (Overdue(v) \cup Reused(v) \cup Evicted(v))
  PROVE  LET new == {r \in Released(v) : r.flow \in gone}
         IN  /\ \A r \in new : r \in [flow : Flow, reason : Reasons] /\ r.flow \in gone
             /\ \A f \in gone : \E r \in new : r.flow = f
             /\ \A r, s \in new : r.flow = s.flow => r = s
<1> DEFINE all == Released(v)
           new == {r \in all : r.flow \in gone}
           leaving == Overdue(v) \cup Reused(v) \cup Evicted(v)
<1>1. \A r \in all : r \in [flow : Flow, reason : Reasons]
  BY ReleasedType
<1>2. \A f \in leaving : \E r \in all : r.flow = f
  BY ReleasedNumbers
<1>3. \A r, s \in all : r.flow = s.flow => r = s
  BY ReleasedOnce
<1>4. gone \subseteq leaving
  OBVIOUS
<1> HIDE DEF all, leaving
<1>5. /\ \A r \in new : r \in [flow : Flow, reason : Reasons] /\ r.flow \in gone
      /\ \A f \in gone : \E r \in new : r.flow = f
      /\ \A r, s \in new : r.flow = s.flow => r = s
  BY <1>1, <1>2, <1>3, <1>4
<1> QED BY <1>5 DEF all

LEMMA AllReleased ==
  ASSUME IInv, Accounted, NEW v \in Views
  PROVE  /\ IsFiniteSet(Records \cup Released(v))
         /\ Total(RecordPackets, Records \cup Released(v)) \in Nat
         /\ counted = Total(FlowPackets, Stay(v)) + Total(RecordPackets, Records \cup Released(v))
<1> DEFINE gone == Overdue(v) \cup Reused(v) \cup Evicted(v)
           new == Released(v)
<1>1. gone \in SUBSET flows /\ Stay(v) = flows \ gone
  BY Departures
<1>2. \A r \in new : r \in [flow : Flow, reason : Reasons] /\ r.flow \in gone
  BY ReleasedType, RecordOfEach DEF Released
<1>3. \A f \in gone : \E r \in new : r.flow = f
  BY ReleasedNumbers
<1>4. \A r, s \in new : r.flow = s.flow => r = s
  BY ReleasedOnce
<1> HIDE DEF gone, new
<1>5. /\ IsFiniteSet(Records \cup new) /\ Total(RecordPackets, Records \cup new) \in Nat
      /\ counted = Total(FlowPackets, flows \ gone) + Total(RecordPackets, Records \cup new)
  BY <1>1, <1>2, <1>3, <1>4, LeavingAccounted
<1> QED BY <1>1, <1>5 DEF new

LEMMA KnownAccounted ==
  ASSUME IInv, Accounted, NEW v \in Views, UpdateKnown(v)
  PROVE  Accounted'
<1> DEFINE gone == Overdue(v) \cup Reused(v) \cup Evicted(v)
<1>1. PICK k \in flows : Known(v) = {k}
  BY OneKnown DEF UpdateKnown
<1>2. /\ flows' = (Stay(v) \ {k}) \cup {Continued(k, v)} /\ counted' = counted + 1
      /\ Records' = Records \cup Released(v)
  BY <1>1 DEF UpdateKnown, Records
<1>3. gone \in SUBSET flows /\ Stay(v) = flows \ gone /\ k \in Stay(v)
  BY <1>1, Departures
<1>4. /\ IsFiniteSet(Records \cup Released(v))
      /\ Total(RecordPackets, Records \cup Released(v)) \in Nat
      /\ counted = Total(FlowPackets, Stay(v)) + Total(RecordPackets, Records \cup Released(v))
  BY AllReleased
<1>5. /\ Clock(v) \in Nat /\ now \in Int /\ now <= Clock(v) /\ v.ts <= Clock(v) /\ received \in Nat
  BY ClockAdvances DEF IInv, Scalars
<1>6. k \in Flow /\ FlowSound(k, Clock(v))
  BY <1>5, SoundLater DEF IInv, Tabled
<1>7. /\ Continued(k, v) \in Flow /\ Continued(k, v).number = k.number
      /\ Packets(Continued(k, v)) = Packets(k) + 1
  BY <1>5, <1>6, ContinuedSound DEF Packets
<1>8. Total(FlowPackets, flows') = Total(FlowPackets, Stay(v)) + 1
  BY <1>2, <1>3, <1>7, PacketAdded
<1>9. Total(FlowPackets, Stay(v)) \in Nat
  BY <1>3, FlowTotal, FS_Subset DEF IInv, Tabled
<1> QED BY <1>2, <1>4, <1>8, <1>9 DEF Accounted

LEMMA NewAccounted ==
  ASSUME IInv, Accounted, NEW v \in Views, UpdateNew(v)
  PROVE  Accounted'
<1> DEFINE gone == Overdue(v) \cup Reused(v) \cup Evicted(v)
           g == Started(v)
<1>1. /\ flows' = Stay(v) \cup {g} /\ counted' = counted + 1 /\ Records' = Records \cup Released(v)
  BY DEF UpdateNew, Records
<1>2. gone \in SUBSET flows /\ Stay(v) = flows \ gone
  BY Departures
<1>3. /\ IsFiniteSet(Records \cup Released(v))
      /\ Total(RecordPackets, Records \cup Released(v)) \in Nat
      /\ counted = Total(FlowPackets, Stay(v)) + Total(RecordPackets, Records \cup Released(v))
  BY AllReleased
<1>4. /\ Clock(v) \in Nat /\ v.ts <= Clock(v) /\ received \in Nat /\ created \in Nat
      /\ flows \subseteq Flow
  BY ClockAdvances DEF IInv, Scalars, Tabled
<1>5. g \in Flow /\ Packets(g) = 1
  BY <1>4, StartedSound DEF Packets
<1>6. g \notin Stay(v)
  BY <1>2, NumbersKept DEF Numbers
<1>7. Stay(v) \in SUBSET Flow /\ IsFiniteSet(Stay(v))
  BY <1>2, <1>4, FS_Subset DEF IInv, Tabled
<1> HIDE DEF g
<1>8. Total(FlowPackets, flows') = Total(FlowPackets, Stay(v)) + 1
  <2>1. \A f \in Stay(v) \cup {g} : FlowPackets[f] \in Nat
    BY <1>5, <1>7, PacketsType
  <2>2. FlowPackets[g] = 1
    BY <1>5, PacketsType
  <2> QED BY <1>1, <1>6, <1>7, <2>1, <2>2, TotalAdd
<1>9. Total(FlowPackets, Stay(v)) \in Nat
  BY <1>7, FlowTotal
<1> QED BY <1>1, <1>3, <1>8, <1>9 DEF Accounted

LEMMA FailureAccounted ==
  ASSUME IInv, Accounted, NEW v \in Views, NEW at \in Points, UpdateFails(v, at)
  PROVE  Accounted'
<1> DEFINE gone == Gone(v, at)
           hit == IF at = "count" THEN Known(v) ELSE {}
           new == {r \in Released(v) : r.flow \in gone}
<1>1. /\ flows' = (flows \ (gone \cup hit)) \cup {Count(f, v) : f \in hit}
      /\ counted' = counted + Cardinality(hit) /\ Records' = Records \cup new
  BY DEF UpdateFails, Records
<1>2. /\ gone \in SUBSET (Overdue(v) \cup Reused(v) \cup Evicted(v))
      /\ gone \in SUBSET flows /\ hit \in SUBSET (flows \ gone)
  BY Departures DEF Gone
<1>3. hit = {} \/ \E k \in flows : hit = {k}
  BY OneKnown
<1>4. /\ IsFiniteSet(Records \cup new) /\ Total(RecordPackets, Records \cup new) \in Nat
      /\ counted = Total(FlowPackets, flows \ gone) + Total(RecordPackets, Records \cup new)
  BY <1>2, ReleasedOfGone, LeavingAccounted
<1>5. Total(FlowPackets, flows \ gone) \in Nat
  BY FlowTotal, FS_Subset DEF IInv, Tabled
<1> HIDE DEF gone, hit, new
<1>6. Total(FlowPackets, flows') = Total(FlowPackets, flows \ gone) + Cardinality(hit)
      /\ Cardinality(hit) \in Nat
  <2>1. CASE hit = {}
    <3>1. flows' = flows \ gone /\ Cardinality(hit) = 0
      BY <1>1, <2>1, FS_EmptySet
    <3> QED BY <1>5, <3>1
  <2>2. CASE \E k \in flows : hit = {k}
    <3>1. PICK k \in flows : hit = {k}
      BY <2>2
    <3>2. flows' = ((flows \ gone) \ {k}) \cup {Count(k, v)} /\ k \in flows \ gone
      BY <1>1, <1>2, <3>1
    <3>3. k \in Flow
      BY DEF IInv, Tabled
    <3>4. /\ Count(k, v) \in Flow /\ Count(k, v).number = k.number
          /\ Packets(Count(k, v)) = Packets(k) + 1
      BY <3>3, CountType DEF Packets
    <3>5. Total(FlowPackets, flows') = Total(FlowPackets, flows \ gone) + 1
      BY <3>2, <3>4, PacketAdded
    <3> QED BY <3>1, <3>5, FS_Singleton
  <2> QED BY <1>3, <2>1, <2>2
<1> QED BY <1>1, <1>4, <1>5, <1>6 DEF Accounted

LEMMA FlushAccounted ==
  ASSUME IInv, Accounted, Flush
  PROVE  Accounted'
<1> DEFINE new == Record(flows, "end_of_input")
<1>1. flows' = {} /\ counted' = counted /\ Records' = Records \cup new
  BY DEF Flush, Records
<1>2. \A r \in new : r \in [flow : Flow, reason : Reasons] /\ r.flow \in flows
  BY DEF Record, Reasons, IInv, Tabled
<1>3. \A r, s \in new : r.flow = s.flow => r = s
  BY DEF Record
<1>4. \A f \in flows : \E r \in new : r.flow = f
  BY RecordOfEach
<1> HIDE DEF new
<1>5. /\ IsFiniteSet(Records \cup new)
      /\ counted = Total(FlowPackets, flows \ flows) + Total(RecordPackets, Records \cup new)
  BY <1>2, <1>3, <1>4, LeavingAccounted
<1> QED BY <1>1, <1>5 DEF Accounted

LEMMA StepKeepsAccounted == IInv /\ Accounted /\ [Next]_vars => Accounted'
<1> SUFFICES ASSUME IInv, Accounted, [Next]_vars PROVE Accounted'
  OBVIOUS
<1>1. ASSUME NEW v \in Views, UpdateKnown(v) PROVE Accounted'
  BY <1>1, KnownAccounted
<1>2. ASSUME NEW v \in Views, UpdateNew(v) PROVE Accounted'
  BY <1>2, NewAccounted
<1>3. ASSUME NEW v \in Views, NEW at \in Points, UpdateFails(v, at) PROVE Accounted'
  BY <1>3, FailureAccounted
<1>4. CASE Flush
  BY <1>4, FlushAccounted
<1>5. CASE UNCHANGED vars
  BY <1>5 DEF vars, Accounted, Records
<1> QED BY <1>1, <1>2, <1>3, <1>4, <1>5 DEF Next, Update

LEMMA InitAccounted == Init => Accounted
<1> SUFFICES ASSUME Init PROVE Accounted
  OBVIOUS
<1>1. flows = {} /\ Records = {} /\ counted = 0
  BY DEF Init, Records
<1>2. Total(FlowPackets, {}) = 0 /\ Total(RecordPackets, {}) = 0 /\ IsFiniteSet({})
  BY TotalTurn, FS_EmptySet
<1> QED BY <1>1, <1>2 DEF Accounted

\* "They must not be lost": every packet that was counted is in a tabled flow or in one record.
THEOREM NoPacketIsLost == Spec => []PacketsAccounted
<1>1. IInv /\ Accounted => PacketsAccounted
  <2> SUFFICES ASSUME IInv, Accounted PROVE PacketsAccounted
    OBVIOUS
  <2>1. MapThenSumSet(Packets, flows) = Total(FlowPackets, flows)
    BY SumOfFlows DEF IInv, Tabled
  <2>2. MapThenSumSet(LAMBDA r : Packets(r.flow), Records) = Total(RecordPackets, Records)
    BY SumOfRecords DEF IInv, Exported, Accounted
  <2> QED BY <2>1, <2>2 DEF Accounted, PacketsAccounted
<1>2. Spec => []Accounted
  BY InitAccounted, StepKeepsAccounted, Invariance, PTL DEF Spec
<1> QED BY <1>1, <1>2, Invariance, PTL

-------------------------------------------------------------------------------
\* The packets of the tabled flow with this number: one flow, or none.
LEMMA PacketsOfNumber ==
  ASSUME IInv
  PROVE  /\ \A f \in flows : MapThenSumSet(Packets, {g \in flows : g.number = f.number}) = Packets(f)
         /\ \A n \in Nat : n \notin Numbers(flows) =>
              MapThenSumSet(Packets, {g \in flows : g.number = n}) = 0
<1>1. flows \in SUBSET Flow /\ \A f, g \in flows : f.number = g.number => f = g
  BY DEF IInv, Tabled
<1>2. ASSUME NEW f \in flows
      PROVE  MapThenSumSet(Packets, {g \in flows : g.number = f.number}) = Packets(f)
  <2>1. {g \in flows : g.number = f.number} = {f}
    BY <1>1
  <2>2. MapThenSumSet(Packets, {f}) = Total(FlowPackets, {f})
    BY <1>1, SumOfFlows, FS_Singleton
  <2>3. FlowPackets[f] = Packets(f) /\ Packets(f) \in Nat
    BY <1>1, PacketsType
  <2> QED BY <2>1, <2>2, <2>3, TotalSingleton
<1>3. ASSUME NEW n \in Nat, n \notin Numbers(flows)
      PROVE  MapThenSumSet(Packets, {g \in flows : g.number = n}) = 0
  <2>1. {g \in flows : g.number = n} = {}
    BY <1>3 DEF Numbers
  <2>2. MapThenSumSet(Packets, {}) = Total(FlowPackets, {})
    BY SumOfFlows, FS_EmptySet
  <2> QED BY <2>1, <2>2, TotalTurn, FS_EmptySet
<1> QED BY <1>2, <1>3

\* A rule sees the flow of its packet, with the packet counted, whatever else the call did to the tables.
THEOREM RulesSeeTheirFlow == Spec => ContextIsOwn
<1> DEFINE Own(f) == /\ Packets(f) = 1 + MapThenSumSet(Packets, {g \in flows : g.number = f.number})
                     /\ Context(f)' = {f}
           Step == counted' > counted => \E f \in flows' : Own(f)
<1>1. ASSUME IInv, Next PROVE Step
  <2>1. IInv'
    BY <1>1, StepKeepsIInv
  <2>2. \A f \in flows' : Context(f)' = {f}
    BY <2>1 DEF IInv, Tabled, Context, Table
  <2>3. ASSUME NEW v \in Views
        PROVE  /\ Clock(v) \in Nat /\ now \in Int /\ now <= Clock(v) /\ v.ts <= Clock(v)
               /\ received \in Nat /\ created \in Nat /\ flows \subseteq Flow
    BY <1>1, ClockAdvances DEF IInv, Scalars, Tabled
  <2>4. ASSUME NEW k \in flows, NEW g \in flows', g.number = k.number, Packets(g) = Packets(k) + 1
        PROVE  Own(g)
    <3>1. Packets(k) \in Nat
      BY <1>1, PacketsType DEF IInv, Tabled
    <3>2. MapThenSumSet(Packets, {h \in flows : h.number = g.number}) = Packets(k)
      BY <1>1, <2>4, PacketsOfNumber
    <3> QED BY <2>2, <2>4, <3>1, <3>2
  <2>5. ASSUME NEW v \in Views, UpdateKnown(v) PROVE \E f \in flows' : Own(f)
    <3>1. PICK k \in flows : Known(v) = {k}
      BY <1>1, <2>5, OneKnown DEF UpdateKnown
    <3>2. k \in Flow /\ FlowSound(k, Clock(v))
      BY <1>1, <2>3, SoundLater DEF IInv, Tabled
    <3>3. Continued(k, v).number = k.number /\ Packets(Continued(k, v)) = Packets(k) + 1
      BY <2>3, <3>2, ContinuedSound DEF Packets
    <3>4. Continued(k, v) \in flows'
      BY <2>5, <3>1 DEF UpdateKnown
    <3> HIDE DEF Own
    <3> QED BY <2>4, <3>3, <3>4
  <2>6. ASSUME NEW v \in Views, UpdateNew(v) PROVE \E f \in flows' : Own(f)
    <3>1. PICK g \in flows' : g = Started(v)
      BY <2>6 DEF UpdateNew
    <3>2. Packets(g) = 1
      BY <2>3, <3>1, StartedSound DEF Packets
    <3>3. g.number \in Nat /\ g.number \notin Numbers(flows)
      BY <1>1, <2>3, <3>1, NumbersKept
    <3>4. MapThenSumSet(Packets, {h \in flows : h.number = g.number}) = 0
      BY <1>1, <3>3, PacketsOfNumber
    <3>5. Own(g)
      BY <2>2, <3>2, <3>4
    <3> HIDE DEF Own
    <3> QED BY <3>5
  <2>7. ASSUME NEW v \in Views, NEW at \in Points, UpdateFails(v, at), counted' > counted
        PROVE  \E f \in flows' : Own(f)
    <3> DEFINE hit == IF at = "count" THEN Known(v) ELSE {}
    <3>1. counted' = counted + Cardinality(hit) /\ {Count(f, v) : f \in hit} \subseteq flows'
      BY <2>7 DEF UpdateFails
    <3>2. hit # {}
      BY <1>1, <2>7, <3>1, FS_EmptySet DEF IInv, Scalars
    <3>3. PICK k \in flows : hit = {k}
      BY <1>1, <3>2, OneKnown
    <3>4. Count(k, v) \in flows' /\ k \in Flow
      BY <1>1, <3>1, <3>3 DEF IInv, Tabled
    <3>5. Count(k, v).number = k.number /\ Packets(Count(k, v)) = Packets(k) + 1
      BY <3>4, CountType DEF Packets
    <3> HIDE DEF Own
    <3> QED BY <2>4, <3>4, <3>5
  <2>8. CASE Flush
    <3>1. counted' = counted /\ counted \in Nat
      BY <1>1, <2>8 DEF Flush, IInv, Scalars
    <3> QED BY <3>1
  <2> HIDE DEF Own
  <2> QED BY <1>1, <2>5, <2>6, <2>7, <2>8 DEF Next, Update
<1>2. IInv /\ [Next]_vars => [Step]_vars
  BY <1>1
<1> QED BY <1>2, Invariance, PTL DEF Spec, ContextIsOwn

-------------------------------------------------------------------------------
(***************************************************************************)
(* What the tracker gains when no packet is late and no call raises in the *)
(* middle of a step: reading only the front of each table is enough.  Then *)
(* three facts about one call that hold in every case.                     *)
(***************************************************************************)
InOrder == LatePackets = FALSE /\ FailPoints \cap {"clock", "count"} = {}

-------------------------------------------------------------------------------
(***************************************************************************)
(* The order of a table is its `turn's, so they must be distinct and past, *)
(* and the order must agree with the times of the last packets.  The clock *)
(* bounds those times (IInv), so a packet that is not late always goes to  *)
(* the end.                                                                *)
(***************************************************************************)
TurnsTaken ==
  /\ \A f \in flows : f.turn <= received
  /\ \A f, g \in flows : f.protocol = g.protocol /\ f.turn = g.turn => f = g

OInv == IInv /\ TurnsTaken /\ TableOrdered /\ ExpiryComplete

\* Expiry misses nothing: what stays is not idle.
LEMMA LiveIsNotIdle ==
  ASSUME OInv, NEW v \in Views, NEW f \in Live(v)
  PROVE  f \in flows /\ Clock(v) - f.last <= Timeout[f.protocol]
<1>1. f \in flows /\ f \notin Overdue(v)
  BY DEF Live
<1>2. PICK g \in Table(flows, f.protocol) : g.turn <= f.turn /\ ~Idle(g, Clock(v))
  BY <1>1 DEF Overdue
<1>3. g \in flows /\ g.protocol = f.protocol
  BY <1>2 DEF Table
<1>4. /\ f.turn \in Nat /\ g.turn \in Nat /\ f.last \in Nat /\ g.last \in Nat /\ Clock(v) \in Nat
      /\ f.protocol \in Protocols
  BY <1>1, <1>3, ClockAdvances DEF OInv, IInv, Tabled, Flow
<1>5. g.last <= f.last
  <2>1. CASE g.turn = f.turn
    BY <1>1, <1>3, <1>4, <2>1 DEF OInv, TurnsTaken
  <2>2. CASE g.turn < f.turn
    BY <1>1, <1>3, <2>2 DEF OInv, TableOrdered
  <2> QED BY <1>2, <1>4, <2>1, <2>2
<1>6. Timeout[f.protocol] \in Nat
  BY <1>4, TimeoutsAreNumbers
<1> QED BY <1>1, <1>2, <1>3, <1>4, <1>5, <1>6 DEF Idle

\* Some flows that are not idle stay where they are.
LEMMA OrderOfRest ==
  ASSUME OInv, NEW v \in Views, NEW rest \in SUBSET Live(v), flows' = rest,
         now' = Clock(v), received' = received + 1
  PROVE  (TurnsTaken /\ TableOrdered /\ ExpiryComplete)'
<1>1. rest \subseteq flows
  BY DEF Live
<1>2. received \in Nat /\ \A f \in flows : f.turn \in Nat
  BY DEF OInv, IInv, Scalars, Tabled, Flow
<1>3. TurnsTaken'
  BY <1>1, <1>2 DEF OInv, TurnsTaken
<1>4. TableOrdered'
  BY <1>1 DEF OInv, TableOrdered
<1>5. ExpiryComplete'
  BY LiveIsNotIdle DEF ExpiryComplete
<1> QED BY <1>3, <1>4, <1>5

\* And the flow of the packet goes to the end of its table.
LEMMA OrderWithLast ==
  ASSUME OInv, NEW v \in Views, v.ts >= now, NEW rest \in SUBSET Live(v), NEW g \in Flow,
         g.turn = received + 1, g.last = v.ts,
         flows' = rest \cup {g}, now' = Clock(v), received' = received + 1
  PROVE  (TurnsTaken /\ TableOrdered /\ ExpiryComplete)'
<1>1. \A f \in rest : /\ f \in flows /\ f.turn \in Nat /\ f.turn <= received
                      /\ f.last \in Nat /\ f.last <= v.ts
  <2>1. now \in Int /\ v.ts \in Nat
    BY ClockAdvances, ViewType DEF OInv, IInv
  <2>2. ASSUME NEW f \in rest
        PROVE  /\ f \in flows /\ f.turn \in Nat /\ f.turn <= received
               /\ f.last \in Nat /\ f.last <= v.ts
    <3>1. f \in flows
      BY DEF Live
    <3>2. f.turn \in Nat /\ f.last \in Nat /\ f.turn <= received /\ f.last <= now
      BY <3>1 DEF OInv, IInv, Tabled, FlowSound, TurnsTaken, Flow
    <3> QED BY <2>1, <3>1, <3>2
  <2> QED BY <2>2
<1>2. received \in Nat /\ v.ts \in Nat /\ now \in Int /\ Clock(v) = v.ts
  <2>1. received \in Nat /\ v.ts \in Nat /\ now \in Int
    BY ViewType, ClockAdvances DEF OInv, IInv, Scalars
  <2> QED BY <2>1 DEF Clock
<1>3. TurnsTaken'
  BY <1>1, <1>2 DEF OInv, TurnsTaken
<1>4. TableOrdered'
  BY <1>1, <1>2 DEF OInv, TableOrdered
<1>5. ExpiryComplete'
  <2>1. \A f \in rest : now' - f.last <= Timeout[f.protocol]
    BY LiveIsNotIdle
  <2>2. now' - g.last <= Timeout[g.protocol]
    <3>1. Timeout[g.protocol] \in Nat
      BY TimeoutsAreNumbers DEF Flow
    <3> QED BY <1>2, <3>1
  <2> QED BY <2>1, <2>2 DEF ExpiryComplete
<1> QED BY <1>3, <1>4, <1>5

LEMMA StaysLive ==
  ASSUME NEW v \in Views
  PROVE  /\ Stay(v) \subseteq Live(v) /\ Known(v) \subseteq Live(v)
         /\ \A at \in Points \ {"clock"} : flows \ Gone(v, at) \subseteq Live(v)
BY DEF Stay, Kept, Known, Same, Table, Live, Gone, Points

\* Each step keeps the order.
LEMMA StepKeepsOrder ==
  ASSUME InOrder, OInv, [Next]_vars
  PROVE  OInv'
<1>1. IInv'
  BY StepKeepsIInv DEF OInv
<1>2. ASSUME NEW v \in Views, Receive(v)
      PROVE  v.ts >= now /\ now' = Clock(v) /\ received' = received + 1
  BY <1>2 DEF Receive, InOrder
<1>3. ASSUME NEW v \in Views, UpdateKnown(v)
      PROVE  (TurnsTaken /\ TableOrdered /\ ExpiryComplete)'
  <2>1. PICK k \in flows : Known(v) = {k}
    BY <1>3, OneKnown DEF OInv, UpdateKnown
  <2>2. v.ts >= now /\ now' = Clock(v) /\ received' = received + 1
    BY <1>2, <1>3 DEF UpdateKnown
  <2>3. flows' = (Stay(v) \ {k}) \cup {Continued(k, v)} /\ Stay(v) \ {k} \in SUBSET Live(v)
    BY <1>3, <2>1, StaysLive DEF UpdateKnown
  <2>4. k \in Flow /\ k.last \in Nat /\ k.last <= now /\ FlowSound(k, Clock(v))
    <3>1. now \in Int /\ Clock(v) \in Int /\ now <= Clock(v)
      BY ClockAdvances DEF OInv, IInv
    <3>2. k \in Flow /\ FlowSound(k, now)
      BY DEF OInv, IInv, Tabled
    <3> QED BY <3>1, <3>2, SoundLater DEF FlowSound, Flow
  <2>5. /\ Continued(k, v) \in Flow
        /\ Continued(k, v).last = IF v.ts > k.last THEN v.ts ELSE k.last
        /\ Continued(k, v).turn = received + 1
    <3>1. Clock(v) \in Nat /\ received \in Nat /\ v.ts <= Clock(v)
      BY ClockAdvances DEF OInv, IInv, Scalars
    <3> QED BY <2>2, <2>4, <3>1, ContinuedSound
  <2>6. Continued(k, v).last = v.ts
    <3>1. v.ts \in Nat /\ now \in Int
      BY ViewType, ClockAdvances DEF OInv, IInv
    <3> QED BY <2>2, <2>4, <2>5, <3>1
  <2> QED BY <2>2, <2>3, <2>5, <2>6, OrderWithLast
<1>4. ASSUME NEW v \in Views, UpdateNew(v)
      PROVE  (TurnsTaken /\ TableOrdered /\ ExpiryComplete)'
  <2>1. v.ts >= now /\ now' = Clock(v) /\ received' = received + 1
    BY <1>2, <1>4 DEF UpdateNew
  <2>2. flows' = Stay(v) \cup {Started(v)} /\ Stay(v) \in SUBSET Live(v)
    BY <1>4, StaysLive DEF UpdateNew
  <2>3. Started(v) \in Flow /\ Started(v).last = v.ts /\ Started(v).turn = received + 1
    <3>1. /\ Clock(v) \in Nat /\ received \in Nat /\ created \in Nat /\ v.ts <= Clock(v)
          /\ flows \subseteq Flow
      BY ClockAdvances DEF OInv, IInv, Scalars, Tabled
    <3> QED BY <3>1, StartedSound
  <2> QED BY <2>1, <2>2, <2>3, OrderWithLast
<1>5. ASSUME NEW v \in Views, NEW at \in Points, UpdateFails(v, at)
      PROVE  (TurnsTaken /\ TableOrdered /\ ExpiryComplete)'
  <2>1. at \in Points \ {"clock"} /\ at # "count"
    BY <1>5 DEF InOrder, UpdateFails
  <2>2. flows' = flows \ Gone(v, at)
    BY <1>5, <2>1 DEF UpdateFails
  <2>3. flows' \in SUBSET Live(v)
    BY <2>1, <2>2, StaysLive
  <2>4. now' = Clock(v) /\ received' = received + 1
    BY <1>2, <1>5 DEF UpdateFails
  <2> QED BY <2>3, <2>4, OrderOfRest
<1>6. ASSUME Flush
      PROVE  (TurnsTaken /\ TableOrdered /\ ExpiryComplete)'
  BY <1>6 DEF Flush, TurnsTaken, TableOrdered, ExpiryComplete
<1>7. ASSUME UNCHANGED vars
      PROVE  (TurnsTaken /\ TableOrdered /\ ExpiryComplete)'
  BY <1>7 DEF vars, OInv, TurnsTaken, TableOrdered, ExpiryComplete
<1> QED BY <1>1, <1>3, <1>4, <1>5, <1>6, <1>7 DEF Next, Update, OInv

THEOREM OrderInvariance == Spec /\ InOrder => []OInv
<1>1. Init => OInv
  BY InitIInv DEF Init, OInv, TurnsTaken, TableOrdered, ExpiryComplete
<1>2. InOrder /\ OInv /\ [Next]_vars => OInv'
  BY StepKeepsOrder
<1>3. InOrder => []InOrder
  <2>1. InOrder => InOrder'
    BY DEF InOrder
  <2> QED BY <2>1, PTL
<1> QED BY <1>1, <1>2, <1>3, PTL DEF Spec

\* flow.py, __init__: "Each table holds its flows in the order of their last packet", if none is late.
THEOREM TablesStayOrdered == Spec /\ InOrder => []TableOrdered
<1>1. OInv => TableOrdered
  BY DEF OInv
<1> QED BY <1>1, OrderInvariance, PTL

\* "Expiry reads only the front" (same comment) and leaves no flow that is past its timeout.
THEOREM ExpiryMissesNone == Spec /\ InOrder => []ExpiryComplete
<1>1. OInv => ExpiryComplete
  BY DEF OInv
<1> QED BY <1>1, OrderInvariance, PTL

\* The front of a table is not newer than the flows behind it, and the victim not newer than the fronts.
LEMMA VictimIsOldest ==
  ASSUME OInv, NEW fs \in SUBSET flows, NEW e \in Oldest(fs), NEW f \in fs
  PROVE  e.last <= f.last
<1> DEFINE T == Table(fs, f.protocol)
           turns == {g.turn : g \in T}
<1>1. f \in T /\ T \subseteq flows /\ flows \subseteq Flow
  BY DEF Table, OInv, IInv, Tabled
<1>2. PICK m \in turns : \A n \in turns : m <= n
  <2>1. turns \in SUBSET Nat /\ turns # {}
    BY <1>1 DEF Flow
  <2> HIDE DEF turns
  <2> QED BY <2>1, LeastNat
<1>3. PICK h \in T : h.turn = m
  OBVIOUS
<1>4. h \in fs /\ h.protocol = f.protocol /\ h.turn <= f.turn /\ h \in Front(fs)
  BY <1>1, <1>2, <1>3 DEF Front, Table
<1>5. /\ h.turn \in Nat /\ f.turn \in Nat /\ h.last \in Nat /\ f.last \in Nat /\ e.last \in Nat
      /\ h \in flows /\ f \in flows
  BY <1>1, <1>3 DEF Oldest, Front, Flow
<1>6. h.last <= f.last
  <2>1. CASE h.turn = f.turn
    BY <1>4, <1>5, <2>1 DEF OInv, TurnsTaken
  <2>2. CASE h.turn < f.turn
    BY <1>4, <1>5, <2>2 DEF OInv, TableOrdered
  <2> QED BY <1>4, <1>5, <2>1, <2>2
<1>7. Older(e, h)
  BY <1>4 DEF Oldest
<1> QED BY <1>5, <1>6, <1>7 DEF Older

\* README, --max-flows: "When the table is full, the oldest flow leaves", if no packet is late.
THEOREM OldestIsEvicted == Spec /\ InOrder => EvictedIsOldest
<1> DEFINE Step == \A r \in NewRecords : r.reason = "evicted" => \A f \in flows' : r.flow.last <= f.last
<1>1. ASSUME InOrder, OInv, Next PROVE Step
  <2>1. SUFFICES ASSUME NEW r \in NewRecords, r.reason = "evicted", NEW f \in flows'
                 PROVE  r.flow.last <= f.last
    OBVIOUS
  <2>2. ASSUME NEW v \in Views, r.flow \in Evicted(v), f \in Stay(v)
        PROVE  r.flow.last <= f.last
    <3>1. r.flow \in Oldest(Kept(v)) /\ f \in Kept(v) /\ Kept(v) \in SUBSET flows
      BY <2>2 DEF Evicted, Stay, Kept, Live
    <3> QED BY <1>1, <3>1, VictimIsOldest
  <2>3. ASSUME NEW v \in Views, NewRecords \subseteq Released(v)
        PROVE  /\ r.flow \in Evicted(v) /\ r.flow \in flows /\ r.flow.last <= now
               /\ r.flow.last \in Nat /\ Known(v) = {}
    <3>1. r.flow \in Evicted(v) /\ r.flow \in flows
      BY <2>1, <2>3, ReleasedShape
    <3> QED BY <1>1, <3>1 DEF Evicted, NeedsRoom, OInv, IInv, Tabled, FlowSound, Flow
  <2>4. ASSUME NEW v \in Views, UpdateKnown(v)
        PROVE  FALSE
    <3>1. NewRecords \subseteq Released(v)
      BY <2>4 DEF UpdateKnown, NewRecords, Records
    <3> QED BY <2>3, <2>4, <3>1 DEF UpdateKnown
  <2>5. ASSUME NEW v \in Views, UpdateNew(v)
        PROVE  r.flow.last <= f.last
    <3>1. NewRecords \subseteq Released(v)
      BY <2>5 DEF UpdateNew, NewRecords, Records
    <3>2. CASE f \in Stay(v)
      BY <2>2, <2>3, <3>1, <3>2
    <3>3. CASE f = Started(v)
      <4>1. /\ Clock(v) \in Nat /\ received \in Nat /\ created \in Nat /\ v.ts <= Clock(v)
            /\ flows \subseteq Flow /\ now \in Int /\ v.ts \in Nat
        BY <1>1, ClockAdvances, ViewType DEF OInv, IInv, Scalars, Tabled
      <4>2. f.last = v.ts
        BY <3>3, <4>1, StartedSound
      <4>3. v.ts >= now
        BY <1>1, <2>5 DEF UpdateNew, Receive, InOrder
      <4> QED BY <2>3, <3>1, <4>1, <4>2, <4>3
    <3> QED BY <2>5, <3>2, <3>3 DEF UpdateNew
  <2>6. ASSUME NEW v \in Views, NEW at \in Points, UpdateFails(v, at)
        PROVE  r.flow.last <= f.last
    <3>1. at # "count" /\ flows' = flows \ Gone(v, at)
      BY <1>1, <2>6 DEF InOrder, UpdateFails
    <3>2. NewRecords \subseteq Released(v) /\ r.flow \in Gone(v, at)
      BY <2>1, <2>6 DEF UpdateFails, NewRecords, Records
    <3>3. r.flow \in Evicted(v)
      BY <2>3, <3>2
    <3>4. at = "room"
      BY <3>1, <3>2, <3>3, Departures DEF Gone, Points
    <3>5. f \in Stay(v)
      BY <3>1, <3>4, Departures DEF Gone
    <3> QED BY <2>2, <3>3, <3>5
  <2>7. CASE Flush
    BY <2>1, <2>7 DEF Flush
  <2> QED BY <1>1, <2>4, <2>5, <2>6, <2>7 DEF Next, Update
<1>2. InOrder /\ OInv /\ [Next]_vars => [Step]_vars
  BY <1>1
<1>3. InOrder => []InOrder
  <2>1. InOrder => InOrder'
    BY DEF InOrder
  <2> QED BY <2>1, PTL
<1> QED BY <1>2, <1>3, OrderInvariance, PTL DEF Spec, EvictedIsOldest

-------------------------------------------------------------------------------
\* What a call ends is not recorded yet.
LEMMA ReleasedIsNew ==
  ASSUME IInv, NEW v \in Views
  PROVE  Released(v) \cap Records = {}
<1>1. \A r \in Released(v) : r.flow \in flows
  BY ReleasedShape
<1> QED BY <1>1 DEF IInv, Exported

\* A full table gives up one flow.
LEMMA OneIsEvicted ==
  ASSUME IInv, NEW v \in Views, Evicted(v) # {}
  PROVE  /\ \A e, f \in Evicted(v) : e = f
         /\ Cardinality(Stay(v)) = MaxFlows - 1
<1>1. Evicted(v) = Oldest(Kept(v)) /\ Kept(v) \in SUBSET flows /\ Cardinality(Kept(v)) >= MaxFlows
  BY DEF Evicted, NeedsRoom, Kept, Live
<1>2. \A f \in flows : f.last \in Nat /\ f.number \in Nat
  BY DEF IInv, Tabled, Flow
<1>3. ASSUME NEW e \in Evicted(v), NEW f \in Evicted(v)
      PROVE  e = f
  <2>1. Older(e, f) /\ Older(f, e) /\ e \in flows /\ f \in flows
    BY <1>1 DEF Oldest, Front
  <2>2. e.number = f.number
    BY <1>2, <2>1 DEF Older
  <2> QED BY <2>1, <2>2 DEF IInv, Tabled
<1>4. PICK e \in Evicted(v) : Evicted(v) = {e}
  BY <1>3
<1>5. IsFiniteSet(flows) /\ Cardinality(flows) <= MaxFlows
  BY DEF IInv, Tabled
<1>6. IsFiniteSet(Kept(v)) /\ Cardinality(Kept(v)) <= Cardinality(flows)
  BY <1>1, <1>5, FS_Subset
<1>7. Cardinality(Kept(v)) \in Nat /\ Cardinality(flows) \in Nat
  BY <1>5, <1>6, FS_CardinalityType
<1>8. Cardinality(Kept(v) \ {e}) = Cardinality(Kept(v)) - 1
  <2>1. e \in Kept(v)
    BY <1>1 DEF Oldest, Front
  <2> QED BY <1>6, <2>1, FS_RemoveElement
<1>9. Stay(v) = Kept(v) \ {e}
  BY <1>4 DEF Stay
<1> QED BY <1>1, <1>3, <1>5, <1>6, <1>7, <1>8, <1>9, LimitIsPositive

\* A call evicts one flow at most, and only from tables that are still full after expiry and reuse.
THEOREM EvictionOnlyWhenFull == Spec => EvictionIsNeeded
<1> DEFINE Left == {f \in flows : \A s \in NewRecords : s.flow # f}
           Step == \A r \in NewRecords : r.reason = "evicted" =>
                     /\ \A s \in NewRecords : s.reason = "evicted" => s = r
                     /\ Cardinality(Left) = MaxFlows - 1
<1>1. ASSUME IInv, Next PROVE Step
  <2>1. SUFFICES ASSUME NEW r \in NewRecords, r.reason = "evicted"
                 PROVE  /\ \A s \in NewRecords : s.reason = "evicted" => s = r
                        /\ Cardinality(Left) = MaxFlows - 1
    OBVIOUS
  <2>2. ASSUME NEW v \in Views, NewRecords = Released(v)
        PROVE  /\ \A s \in NewRecords : s.reason = "evicted" => s = r
               /\ Cardinality(Left) = MaxFlows - 1
    <3>1. r.flow \in Evicted(v)
      BY <2>1, <2>2, ReleasedShape
    <3>2. ASSUME NEW s \in NewRecords, s.reason = "evicted" PROVE s = r
      <4>1. s.flow \in Evicted(v)
        BY <2>2, <3>2, ReleasedShape
      <4>2. s.flow = r.flow
        BY <1>1, <3>1, <4>1, OneIsEvicted
      <4> QED BY <2>2, <4>2, ReleasedOnce
    <3>3. Left = Stay(v)
      <4>1. \A s \in Released(v) : s.flow \in Overdue(v) \cup Reused(v) \cup Evicted(v)
        BY DEF Released, Record
      <4>2. \A f \in Overdue(v) \cup Reused(v) \cup Evicted(v) : \E s \in Released(v) : s.flow = f
        <5>1. \A fs, reason : \A f \in fs :
                [flow |-> f, reason |-> reason] \in Record(fs, reason)
                /\ [flow |-> f, reason |-> reason].flow = f
          BY DEF Record
        <5> QED BY <5>1 DEF Released
      <4> QED BY <2>2, <4>1, <4>2, Departures
    <3> QED BY <1>1, <3>1, <3>2, <3>3, OneIsEvicted
  <2>3. ASSUME NEW v \in Views, UpdateKnown(v) \/ UpdateNew(v)
        PROVE  NewRecords = Released(v)
    <3>1. Records' = Records \cup Released(v)
      BY <2>3 DEF UpdateKnown, UpdateNew, Records
    <3> QED BY <1>1, <3>1, ReleasedIsNew DEF NewRecords
  <2>4. ASSUME NEW v \in Views, NEW at \in Points, UpdateFails(v, at)
        PROVE  NewRecords = Released(v)
    <3>1. Records' = Records \cup {s \in Released(v) : s.flow \in Gone(v, at)}
      BY <2>4 DEF UpdateFails, Records
    <3>2. r \in Released(v) /\ r.flow \in Gone(v, at)
      BY <2>1, <3>1 DEF NewRecords
    <3>3. r.flow \in Evicted(v)
      BY <2>1, <3>2, ReleasedShape
    <3>4. at \in {"room", "count"}
      BY <3>2, <3>3, Departures DEF Gone
    <3>5. \A s \in Released(v) : s.flow \in Gone(v, at)
      BY <3>4 DEF Gone, Released, Record
    <3> QED BY <1>1, <3>1, <3>5, ReleasedIsNew DEF NewRecords
  <2>5. CASE Flush
    <3>1. NewRecords \subseteq Record(flows, "end_of_input")
      BY <2>5 DEF Flush, NewRecords, Records
    <3> QED BY <2>1, <3>1 DEF Record
  <2> QED BY <1>1, <2>2, <2>3, <2>4, <2>5 DEF Next, Update
<1>2. IInv /\ [Next]_vars => [Step]_vars
  BY <1>1
<1> QED BY <1>2, Invariance, PTL DEF Spec, EvictionIsNeeded

\* flow.py, _rank: "A later packet never lowers it", at whatever point a call ends.
THEOREM LabelsOnlyImprove == Spec => LabelOnlyImproves
<1> DEFINE Step == \A f \in flows, g \in flows' :
             f.number = g.number => g.rank > f.rank \/ <<g.rank, g.app>> = <<f.rank, f.app>>
<1>1. ASSUME IInv, Next PROVE Step
  <2>1. SUFFICES ASSUME NEW f \in flows, NEW g \in flows', f.number = g.number
                 PROVE  Better(g, f)
    BY DEF Better
  <2>2. \A h, k \in flows : h.number = k.number => h = k
    BY <1>1 DEF IInv, Tabled
  <2>3. CASE g \in flows
    BY <2>1, <2>2, <2>3 DEF Better
  <2>4. ASSUME NEW v \in Views, NEW k \in flows, g = Continued(k, v) \/ g = Count(k, v)
        PROVE  Better(g, f)
    <3>1. /\ Clock(v) \in Nat /\ now \in Int /\ now <= Clock(v) /\ v.ts <= Clock(v)
          /\ received \in Nat
      BY <1>1, ClockAdvances DEF IInv, Scalars
    <3>2. k \in Flow /\ FlowSound(k, Clock(v))
      BY <1>1, <3>1, SoundLater DEF IInv, Tabled
    <3>3. g.number = k.number /\ Better(g, k)
      BY <2>4, <3>1, <3>2, ContinuedSound, CountType
    <3> QED BY <2>1, <2>2, <3>3
  <2>5. ASSUME NEW v \in Views, g = Started(v)
        PROVE  FALSE
    <3>1. /\ Clock(v) \in Nat /\ v.ts <= Clock(v) /\ received \in Nat /\ created \in Nat
          /\ flows \subseteq Flow
      BY <1>1, ClockAdvances DEF IInv, Scalars, Tabled
    <3>2. g.number = created + 1
      BY <2>5, <3>1, StartedSound
    <3>3. f.number \in Nat /\ f.number <= created
      BY <1>1 DEF IInv, Tabled, Flow
    <3> QED BY <2>1, <3>1, <3>2, <3>3
  <2>6. ASSUME NEW v \in Views, UpdateKnown(v)
        PROVE  g \in flows \/ \E k \in flows : g = Continued(k, v)
    BY <2>6, Departures DEF UpdateKnown
  <2>7. ASSUME NEW v \in Views, UpdateNew(v)
        PROVE  g \in flows \/ g = Started(v)
    BY <2>7, Departures DEF UpdateNew
  <2>8. ASSUME NEW v \in Views, NEW at \in Points, UpdateFails(v, at)
        PROVE  g \in flows \/ \E k \in flows : g = Count(k, v)
    BY <2>8, Departures DEF UpdateFails
  <2>9. CASE Flush
    BY <2>9 DEF Flush
  <2> QED BY <1>1, <2>3, <2>4, <2>5, <2>6, <2>7, <2>8, <2>9 DEF Next, Update
<1>2. IInv /\ [Next]_vars => [Step]_vars
  BY <1>1
<1> QED BY <1>2, Invariance, PTL DEF Spec, LabelOnlyImproves
===============================================================================
