--------------------------- MODULE LiveSourceProofs ---------------------------
(***************************************************************************)
(* Safety of LiveSource for every --count and any number of packets: the   *)
(* two threads, in every interleaving, with failures and Ctrl-C.           *)
(***************************************************************************)
EXTENDS LiveSource, SequenceTheorems, TLAPS

FailureNames == {Raised(f) : f \in Failures}

Types ==
  /\ packets \in Seq(Nat) /\ yielded \in Seq(Nat) /\ failures \in Seq(FailureNames)
  /\ count \in Counts /\ stop \in BOOLEAN /\ socket \in {"good", "failed"}
  /\ captured \in 0..MaxPackets /\ late \in {0, 1}
  /\ worker \in {"sniffing", "collected", "leaving", "done"}
  /\ consumer \in {"waiting", "reading", "closing", "joining", "ended"}
  /\ cause \in {"none", "sentinel", "closed", "error", "interrupt"}
  /\ outcome \in {"none", "finished", "error", "interrupted"} \cup FailureNames

\* InOrderOfCapture, place by place: the consumer has the first packets, the queue the others and then the
\* sentinel of a thread that is done.
Queue ==
  /\ Len(yielded) <= captured
  /\ Len(yielded) + Len(packets) = captured + (IF SentinelWaits THEN 1 ELSE 0)
  /\ \A i \in 1..Len(yielded) : yielded[i] = i
  /\ \A i \in 1..Len(packets) : packets[i] = IF Len(yielded) + i <= captured THEN Len(yielded) + i ELSE None

\* The thread goes on only below the count and unless it has seen the stop; a reason is left behind.
ThreadStops ==
  /\ ~stop \/ worker = "sniffing" => late = 0
  /\ count # Unlimited => captured <= count /\ (worker = "sniffing" => captured < count)
  /\ worker \in {"sniffing", "collected"} => failures = <<>>
  /\ worker \in {"leaving", "done"} => stop \/ failures # <<>> \/ socket = "failed" \/ CountReached(captured)

\* Why the consumer left its loop, and what was true then and stays true.
ConsumerStops ==
  /\ consumer \in {"waiting", "reading"} <=> cause = "none"
  /\ consumer \in {"waiting", "reading", "closing"} => ~stop
  /\ cause = "sentinel" => worker = "done" /\ Len(yielded) = captured
                             /\ (failures # <<>> \/ socket = "failed" \/ CountReached(captured))
  /\ cause = "closed" => CountReached(Len(yielded))

\* What the loop of run() sees.
Outcome ==
  /\ consumer # "ended" => outcome = "none"
  /\ outcome = "error" => cause = "error"
  /\ outcome = "finished" => cause = "closed" \/ (cause = "sentinel" /\ failures = <<>>)
  /\ outcome \in FailureNames => cause = "sentinel"
  /\ consumer = "ended" /\ cause = "sentinel" /\ outcome # "interrupted" /\ failures # <<>>
       => outcome = failures[1]

IInv == Types /\ Queue /\ ThreadStops /\ ConsumerStops /\ Outcome

-------------------------------------------------------------------------------
LEMMA Names ==
  /\ FailureNames = {"PermissionError", "OSError", "other"}
  /\ None = 0
BY DEF FailureNames, Failures, Raised, None

LEMMA InitInv == Init => IInv
<1> SUFFICES ASSUME Init PROVE IInv
  OBVIOUS
<1>1. Types
  <2>1. <<>> \in Seq(Nat) /\ <<>> \in Seq(FailureNames)
    BY EmptySeq
  <2>2. packets \in Seq(Nat) /\ yielded \in Seq(Nat) /\ failures \in Seq(FailureNames)
    BY <2>1 DEF Init
  <2>3. count \in Counts /\ captured \in 0..MaxPackets /\ late \in {0, 1} /\ socket \in {"good", "failed"}
    BY BoundIsNumber DEF Init
  <2>4. stop \in BOOLEAN
    BY Zenon DEF Init
  <2> QED BY <2>2, <2>3, <2>4 DEF Init, Types
<1>2. Queue
  BY DEF Init, Queue, SentinelWaits
<1>3. ThreadStops /\ ConsumerStops /\ Outcome
  BY CountsArePositive, BoundIsNumber, Names DEF Init, ThreadStops, ConsumerStops, Outcome, CountReached
<1> QED BY <1>1, <1>2, <1>3 DEF IInv

\* The thread puts something behind the queue.
LEMMA Put ==
  ASSUME NEW x \in Nat, Types, packets' = Append(packets, x), yielded' = yielded
  PROVE  /\ packets' \in Seq(Nat) /\ Len(packets') = Len(packets) + 1
         /\ \A i \in 1..Len(packets) : packets'[i] = packets[i]
         /\ packets'[Len(packets) + 1] = x
BY AppendProperties DEF Types

LEMMA CollectKeeps == IInv /\ Collect => IInv'
<1> SUFFICES ASSUME IInv, Collect PROVE IInv'
  OBVIOUS
<1> USE DEF IInv, Collect
<1>1. captured + 1 \in Nat /\ captured \in Nat /\ ~SentinelWaits /\ ~SentinelWaits'
  BY BoundIsNumber DEF Types, SentinelWaits
<1>2. Types'
  BY <1>1, Put, BoundIsNumber DEF Types, ThreadStops
<1>3. Queue'
  <2>1. Len(packets') = Len(packets) + 1 /\ packets'[Len(packets) + 1] = captured + 1
        /\ \A i \in 1..Len(packets) : packets'[i] = packets[i]
    BY <1>1, Put
  <2>2. Len(yielded) \in Nat /\ Len(packets) \in Nat
    BY DEF Types
  <2>3. Len(yielded) + Len(packets) = captured
    BY <1>1 DEF Queue
  <2> QED BY <1>1, <2>1, <2>2, <2>3, SMTT(30) DEF Queue
<1>4. ThreadStops'
  BY <1>1, CountsArePositive DEF Types, ThreadStops
<1>5. ConsumerStops' /\ Outcome'
  <2>1. cause # "sentinel"
    BY DEF ConsumerStops
  <2> QED BY <2>1 DEF ConsumerStops, Outcome, CountReached
<1> QED BY <1>2, <1>3, <1>4, <1>5

LEMMA ThreadKeeps ==
  IInv /\ (CheckStop \/ (\E f \in Failures : SniffFails(f)) \/ SocketFails) => IInv'
<1> SUFFICES ASSUME IInv, CheckStop \/ (\E f \in Failures : SniffFails(f)) \/ SocketFails PROVE IInv'
  OBVIOUS
<1>1. UNCHANGED <<packets, yielded, captured, cause, count, stop, late, consumer, outcome>>
      /\ worker \in {"sniffing", "collected"} /\ worker' \in {"sniffing", "leaving"}
  BY DEF CheckStop, SniffFails, SocketFails
<1>2. failures = <<>> /\ failures' \in Seq(FailureNames)
      /\ socket' \in {"good", "failed"}
      /\ (worker' = "leaving" => stop \/ failures' # <<>> \/ socket' = "failed" \/ CountReached(captured))
      /\ (worker' = "sniffing" => failures' = <<>> /\ ~stop /\ ~CountReached(captured))
  BY DEF IInv, Types, ThreadStops, CheckStop, SniffFails, SocketFails, FailureNames
<1>3. Types' /\ Queue'
  BY <1>1, <1>2 DEF IInv, Types, Queue, SentinelWaits
<1>4. ThreadStops'
  BY <1>1, <1>2, CountsArePositive, BoundIsNumber DEF IInv, Types, ThreadStops, CountReached
<1>5. ConsumerStops' /\ Outcome'
  BY <1>1, <1>2 DEF IInv, Types, ConsumerStops, Outcome, CountReached
<1> QED BY <1>3, <1>4, <1>5 DEF IInv

LEMMA SentinelKeeps == IInv /\ PutSentinel => IInv'
<1> SUFFICES ASSUME IInv, PutSentinel PROVE IInv'
  OBVIOUS
<1> USE DEF IInv, PutSentinel
<1>1. ~SentinelWaits /\ SentinelWaits'
  BY DEF SentinelWaits, ConsumerStops
<1>2. Types'
  BY Put, Names DEF Types
<1>3. Queue'
  <2>1. Len(packets') = Len(packets) + 1 /\ packets'[Len(packets) + 1] = None
        /\ \A i \in 1..Len(packets) : packets'[i] = packets[i]
    BY Names, Put
  <2>2. Len(yielded) \in Nat /\ Len(packets) \in Nat /\ captured \in Nat
    BY BoundIsNumber DEF Types
  <2>3. Len(yielded) + Len(packets) = captured
    BY <1>1, <2>2 DEF Queue
  <2> QED BY <1>1, <2>1, <2>2, <2>3 DEF Queue
<1>4. ThreadStops' /\ ConsumerStops' /\ Outcome'
  BY DEF ThreadStops, ConsumerStops, Outcome, CountReached
<1> QED BY <1>2, <1>3, <1>4

LEMMA GetKeeps == IInv /\ Get => IInv'
<1> SUFFICES ASSUME IInv, Get PROVE IInv'
  OBVIOUS
<1> USE DEF IInv, Get
<1>1. /\ Len(packets) \in Nat \ {0} /\ Len(yielded) \in Nat /\ captured \in Nat
      /\ packets' \in Seq(Nat) /\ Len(packets') = Len(packets) - 1
      /\ \A i \in 1..Len(packets') : packets'[i] = packets[i + 1]
      /\ Head(packets) = packets[1] /\ Head(packets) \in Nat
  BY HeadTailProperties, EmptySeq, BoundIsNumber DEF Types
<1>2. cause = "none" /\ ~stop
  BY DEF ConsumerStops
<1>3. packets[1] = IF Len(yielded) + 1 <= captured THEN Len(yielded) + 1 ELSE None
  BY <1>1 DEF Queue
<1>4. CASE Head(packets) = None
  <2>1. Len(yielded) = captured /\ SentinelWaits /\ Len(packets) = 1
    BY <1>1, <1>3, <1>4, Names DEF Queue
  <2>2. worker = "done" /\ ~SentinelWaits'
        /\ (failures # <<>> \/ socket = "failed" \/ CountReached(captured))
    BY <1>2, <1>4, <2>1 DEF SentinelWaits, ThreadStops
  <2>3. yielded' = yielded /\ Len(packets') = 0 /\ cause' = "sentinel" /\ consumer' = "closing"
    BY <1>1, <1>4, <2>1
  <2>4. Types'
    BY <1>1, <2>3 DEF Types
  <2>5. Queue'
    BY <1>1, <2>1, <2>2, <2>3 DEF Queue
  <2>6. ThreadStops' /\ ConsumerStops' /\ Outcome'
    BY <1>2, <2>1, <2>2, <2>3, Names DEF Types, ThreadStops, ConsumerStops, Outcome, CountReached
  <2> QED BY <2>4, <2>5, <2>6
<1>5. CASE Head(packets) # None
  <2>1. Len(yielded) + 1 <= captured /\ Head(packets) = Len(yielded) + 1
    BY <1>1, <1>3, <1>5
  <2>2. /\ yielded' \in Seq(Nat) /\ Len(yielded') = Len(yielded) + 1
        /\ \A i \in 1..Len(yielded) : yielded'[i] = yielded[i]
        /\ yielded'[Len(yielded) + 1] = Len(yielded) + 1
    <3>1. yielded' = Append(yielded, Head(packets)) /\ yielded \in Seq(Nat)
      BY <1>5 DEF Types
    <3> QED BY <1>1, <2>1, <3>1, AppendProperties
  <2>3. SentinelWaits' = SentinelWaits
    BY <1>5 DEF SentinelWaits
  <2>4. Types'
    BY <1>1, <1>5, <2>2 DEF Types
  <2>5. Queue'
    <3>1. Len(yielded') <= captured' /\ \A i \in 1..Len(yielded') : yielded'[i] = i
      <4>1. captured' = captured /\ \A i \in 1..Len(yielded) : yielded[i] = i
        BY DEF Queue
      <4>2. \A i \in 1..(Len(yielded) + 1) : i \in 1..Len(yielded) \/ i = Len(yielded) + 1
        BY <1>1
      <4> QED BY <2>1, <2>2, <4>1, <4>2, SMTT(30)
    <3>2. Len(yielded') + Len(packets') = captured' + (IF SentinelWaits' THEN 1 ELSE 0)
      <4>1. Len(yielded) + Len(packets) = captured + (IF SentinelWaits THEN 1 ELSE 0)
        BY DEF Queue
      <4>2. Len(packets') = Len(packets) - 1 /\ captured' = captured /\ Len(packets) \in Nat /\ Len(yielded) \in Nat
        BY <1>1
      <4>3. Len(yielded') + Len(packets') = Len(yielded) + Len(packets)
        BY <2>2, <4>2
      <4> QED BY <2>3, <4>1, <4>2, <4>3
    <3>3. \A i \in 1..Len(packets') :
            packets'[i] = IF Len(yielded') + i <= captured' THEN Len(yielded') + i ELSE None
      BY <1>1, <2>2 DEF Queue
    <3> QED BY <3>1, <3>2, <3>3 DEF Queue
  <2>6. ThreadStops' /\ ConsumerStops' /\ Outcome'
    BY <1>2, <1>5, Names DEF Types, ThreadStops, ConsumerStops, Outcome, CountReached
  <2> QED BY <2>4, <2>5, <2>6
<1> QED BY <1>4, <1>5

\* The consumer leaves its loop, or goes on with it.
LEMMA LoopKeeps == IInv /\ (ReadNext \/ BodyFails \/ Interrupt) => IInv'
<1> SUFFICES ASSUME IInv, ReadNext \/ BodyFails \/ Interrupt PROVE IInv'
  OBVIOUS
<1>1. /\ UNCHANGED <<count, packets, failures, stop, socket, worker, outcome, captured, yielded, late>>
      /\ consumer \in {"waiting", "reading"}
      /\ \/ consumer' = "waiting" /\ cause' = cause
         \/ consumer' = "closing" /\ cause' \in {"error", "interrupt"}
         \/ consumer' = "closing" /\ cause' = "closed" /\ CountReached(Len(yielded))
  BY DEF ReadNext, BodyFails, Interrupt
<1>2. cause = "none" /\ ~stop /\ outcome = "none"
  BY <1>1 DEF IInv, ConsumerStops, Outcome
<1>3. Types' /\ Queue'
  BY <1>1, <1>2 DEF IInv, Types, Queue, SentinelWaits
<1>4. ThreadStops' /\ ConsumerStops' /\ Outcome'
  BY <1>1, <1>2, Names DEF IInv, Types, ThreadStops, ConsumerStops, Outcome, CountReached
<1> QED BY <1>3, <1>4 DEF IInv

\* The finally clause of the generator.
LEMMA FinallyKeeps == IInv /\ (InterruptAgain \/ SetStop \/ Joined \/ JoinTimesOut) => IInv'
<1> SUFFICES ASSUME IInv, InterruptAgain \/ SetStop \/ Joined \/ JoinTimesOut PROVE IInv'
  OBVIOUS
<1>1. /\ UNCHANGED <<count, packets, failures, socket, worker, cause, captured, yielded, late>>
      /\ consumer \in {"closing", "joining"} /\ consumer' \in {"joining", "ended"}
  BY DEF InterruptAgain, SetStop, Joined, JoinTimesOut, Leave
<1>2. Queue'
  BY <1>1 DEF IInv, Queue, SentinelWaits
<1>3. CASE SetStop
  BY <1>1, <1>2, <1>3, Names DEF SetStop, IInv, Types, ThreadStops, ConsumerStops, Outcome, CountReached
<1>4. CASE InterruptAgain
  BY <1>1, <1>2, <1>4, Names DEF InterruptAgain, IInv, Types, ThreadStops, ConsumerStops, Outcome, CountReached
<1>5. CASE Leave /\ consumer = "joining"
  <2>1. cause # "none" /\ outcome = "none"
    BY <1>5 DEF IInv, ConsumerStops, Outcome
  <2>2. failures # <<>> => Head(failures) \in FailureNames /\ Head(failures) = failures[1]
    BY HeadTailProperties DEF IInv, Types
  <2>3. ThreadStops' /\ ConsumerStops'
    BY <1>1, <1>5 DEF Leave, IInv, ThreadStops, ConsumerStops, CountReached
  <2>4. /\ consumer' = "ended" /\ UNCHANGED stop
        /\ \/ cause = "interrupt" /\ outcome' = "interrupted"
           \/ cause = "error" /\ outcome' = "error"
           \/ cause = "closed" /\ outcome' = "finished"
           \/ cause = "sentinel" /\ failures = <<>> /\ outcome' = "finished"
           \/ cause = "sentinel" /\ failures # <<>> /\ outcome' = failures[1] /\ outcome' \in FailureNames
    BY <1>5, <2>1, <2>2 DEF Leave, IInv, Types
  <2>5. Types' /\ Outcome'
    BY <1>1, <2>4, Names DEF IInv, Types, Outcome
  <2> QED BY <1>2, <2>3, <2>5 DEF IInv
<1> QED BY <1>3, <1>4, <1>5 DEF Joined, JoinTimesOut

LEMMA StepKeepsInv == IInv /\ [Next]_vars => IInv'
<1> SUFFICES ASSUME IInv, [Next]_vars PROVE IInv'
  OBVIOUS
<1>1. CASE UNCHANGED vars
  BY <1>1 DEF vars, IInv, Types, Queue, ThreadStops, ConsumerStops, Outcome, SentinelWaits, CountReached
<1>2. CASE Next
  BY <1>2, CollectKeeps, ThreadKeeps, SentinelKeeps, GetKeeps, LoopKeeps, FinallyKeeps
     DEF Next, Worker, Consumer, Surprises
<1> QED BY <1>1, <1>2

LEMMA Invariance == Spec => []IInv
BY InitInv, StepKeepsInv, PTL DEF Spec

-------------------------------------------------------------------------------
\* The consumer gets the packets in order of capture, none lost or repeated, and the sentinel behind them.
THEOREM OrderIsKept == Spec => []InOrderOfCapture
<1>1. IInv => InOrderOfCapture
  <2> SUFFICES ASSUME IInv PROVE InOrderOfCapture
    OBVIOUS
  <2> DEFINE numbers == [i \in 1..captured |-> i]
             end == IF SentinelWaits THEN <<None>> ELSE <<>>
  <2>1. captured \in Nat /\ packets \in Seq(Nat) /\ yielded \in Seq(Nat)
    BY BoundIsNumber DEF IInv, Types
  <2>2. numbers \in Seq(Nat) /\ Len(numbers) = captured /\ \A i \in 1..captured : numbers[i] = i
    BY <2>1
  <2>3. end \in Seq(Nat) /\ Len(end) = (IF SentinelWaits THEN 1 ELSE 0)
        /\ (SentinelWaits => end[1] = None)
    BY Names
  <2> HIDE DEF numbers, end
  <2>4. /\ yielded \o packets \in Seq(Nat) /\ numbers \o end \in Seq(Nat)
        /\ Len(yielded \o packets) = Len(yielded) + Len(packets)
        /\ Len(numbers \o end) = captured + Len(end)
        /\ \A i \in 1..(Len(yielded) + Len(packets)) :
             (yielded \o packets)[i] = IF i <= Len(yielded) THEN yielded[i] ELSE packets[i - Len(yielded)]
        /\ \A i \in 1..(captured + Len(end)) :
             (numbers \o end)[i] = IF i <= captured THEN numbers[i] ELSE end[i - captured]
    <3>1. /\ yielded \o packets \in Seq(Nat)
          /\ Len(yielded \o packets) = Len(yielded) + Len(packets)
          /\ \A i \in 1..(Len(yielded) + Len(packets)) :
               (yielded \o packets)[i] = IF i <= Len(yielded) THEN yielded[i] ELSE packets[i - Len(yielded)]
      BY <2>1, ConcatProperties
    <3>2. /\ numbers \o end \in Seq(Nat)
          /\ Len(numbers \o end) = Len(numbers) + Len(end)
          /\ \A i \in 1..(Len(numbers) + Len(end)) :
               (numbers \o end)[i] = IF i <= Len(numbers) THEN numbers[i] ELSE end[i - Len(numbers)]
      BY <2>2, <2>3, ConcatProperties
    <3> QED BY <2>2, <3>1, <3>2
  <2>5. Len(yielded \o packets) = Len(numbers \o end)
    BY <2>3, <2>4 DEF IInv, Queue
  <2>6. ASSUME NEW i \in 1..Len(yielded \o packets)
        PROVE  (yielded \o packets)[i] = (numbers \o end)[i]
    <3>1. Len(yielded) \in Nat /\ Len(packets) \in Nat
      BY <2>1
    <3>2. CASE i <= Len(yielded)
      BY <2>1, <2>2, <2>3, <2>4, <2>5, <3>1, <3>2, SMTT(30) DEF IInv, Queue
    <3>3. CASE i > Len(yielded)
      <4>1. i - Len(yielded) \in 1..Len(packets)
        BY <2>4, <3>1, <3>3
      <4>2. packets[i - Len(yielded)] = IF i <= captured THEN i ELSE None
        <5>1. packets[i - Len(yielded)] =
                IF Len(yielded) + (i - Len(yielded)) <= captured THEN Len(yielded) + (i - Len(yielded)) ELSE None
          BY <4>1 DEF IInv, Queue
        <5>2. i \in Int /\ Len(yielded) + (i - Len(yielded)) = i
          BY <2>4, <3>1
        <5> QED BY <5>1, <5>2
      <4>3. i > captured => SentinelWaits /\ i - captured = 1
        BY <2>1, <2>3, <2>4, <2>5, <3>1
      <4> QED BY <2>1, <2>2, <2>3, <2>4, <2>5, <3>1, <3>3, <4>2, <4>3
    <3>4. i <= Len(yielded) \/ i > Len(yielded)
      BY <2>4, <3>1
    <3> QED BY <3>2, <3>3, <3>4
  <2>7. yielded \o packets = numbers \o end
    BY <2>4, <2>5, <2>6, SeqEqual
  <2> QED BY <2>7 DEF InOrderOfCapture, numbers, end
<1> QED BY Invariance, <1>1, PTL

\* A failure of the thread reaches the loop, after all packets.
THEOREM FailureArrives == Spec => []FailureReachesConsumer
<1>1. IInv => FailureReachesConsumer
  BY DEF IInv, Outcome, ConsumerStops, FailureReachesConsumer, FailureNames
<1> QED BY Invariance, <1>1, PTL

\* After the stop the thread collects one packet at most.
THEOREM ThreadObeys == Spec => []StopsAfterOnePacket
<1>1. IInv => StopsAfterOnePacket
  BY DEF IInv, Types, StopsAfterOnePacket
<1> QED BY Invariance, <1>1, PTL

\* No more than --count packets are captured, and a run that ends by itself and without a failure has read
\* --count of them, or, when the socket failed inside sniff(), all that were captured.
THEOREM FinishedIsComplete == Spec => []FinishedRunIsComplete
<1>1. IInv => FinishedRunIsComplete
  <2> SUFFICES ASSUME IInv PROVE FinishedRunIsComplete
    OBVIOUS
  <2>1. captured \in Nat /\ Len(yielded) \in Nat /\ Len(yielded) <= captured
    BY BoundIsNumber DEF IInv, Types, Queue
  <2>2. count # Unlimited => count \in Nat /\ captured <= count
    BY CountsArePositive DEF IInv, Types, ThreadStops
  <2>3. ASSUME CountReached(Len(yielded)) PROVE count # Unlimited /\ Len(yielded) = count
    BY <2>1, <2>2, <2>3 DEF CountReached
  <2>4. ASSUME outcome = "finished"
        PROVE  CountReached(Len(yielded)) \/ (socket = "failed" /\ Len(yielded) = captured)
    BY <2>4 DEF IInv, ConsumerStops, Outcome
  <2> QED BY <2>2, <2>3, <2>4 DEF FinishedRunIsComplete
<1> QED BY Invariance, <1>1, PTL

\* The types of the state hold, and the sentinel stands at the end of the queue.
THEOREM TypesHold == Spec => []TypeOK
<1>1. IInv => TypeOK
  <2> SUFFICES ASSUME IInv PROVE TypeOK
    OBVIOUS
  <2>1. packets \in [1..Len(packets) -> Nat] /\ DOMAIN packets = 1..Len(packets) /\ Len(packets) \in Nat
    BY LenProperties DEF IInv, Types
  <2>2. Len(yielded) \in Nat /\ captured \in 0..MaxPackets
    BY LenProperties DEF IInv, Types
  <2>3. \A i \in 1..Len(packets) :
          /\ packets[i] \in 0..MaxPackets
          /\ packets[i] = None => i = Len(packets) /\ SentinelWaits
    <3> SUFFICES ASSUME NEW i \in 1..Len(packets)
                 PROVE  /\ packets[i] \in 0..MaxPackets
                        /\ packets[i] = 0 => i = Len(packets) /\ SentinelWaits
      BY DEF None
    <3>1. /\ Len(yielded) + Len(packets) = captured + (IF SentinelWaits THEN 1 ELSE 0)
          /\ packets[i] = IF Len(yielded) + i <= captured THEN Len(yielded) + i ELSE 0
      BY DEF IInv, Queue, None
    <3>2. packets[i] \in 0..MaxPackets
      BY <2>2, <3>1, BoundIsNumber
    <3>3. CASE SentinelWaits
      <4>1. Len(yielded) + Len(packets) = captured + 1
        BY <3>1, <3>3
      <4>2. packets[i] = 0 => Len(yielded) + i > captured
        BY <2>1, <2>2, <3>1
      <4>3. Len(yielded) + i > captured => i = Len(packets)
        <5> DEFINE here == Len(packets)  there == Len(yielded)
        <5>1. here \in Nat /\ there \in Nat /\ captured \in Nat /\ i \in 1..here
          BY <2>1, <2>2, BoundIsNumber
        <5>2. there + here = captured + 1
          BY <4>1
        <5> HIDE DEF here, there
        <5>3. there + i > captured => i = here
          BY <5>1, <5>2
        <5> QED BY <5>3 DEF here, there
      <4> QED BY <3>2, <3>3, <4>2, <4>3
    <3>4. CASE ~SentinelWaits
      <4>1. Len(yielded) + i <= captured /\ Len(yielded) + i > 0
        BY <2>1, <2>2, <3>1, <3>4
      <4> QED BY <2>2, <3>1, <3>2, <4>1
    <3> QED BY <3>3, <3>4
  <2>4. packets \in Seq(0..MaxPackets)
    <3>1. packets \in [1..Len(packets) -> 0..MaxPackets]
      BY <2>1, <2>3
    <3> QED BY <2>1, <3>1, SeqDef
  <2>5. stop \in BOOLEAN
    BY Zenon DEF IInv, Types
  <2>6. late \in Nat /\ socket \in {"good", "failed"}
    BY DEF IInv, Types
  <2>7. failures \in Seq({Raised(f) : f \in Failures})
    BY Zenon DEF IInv, Types, FailureNames
  <2>8. outcome \in {"none", "finished", "error", "interrupted"} \cup {Raised(f) : f \in Failures}
    BY Zenon DEF IInv, Types, FailureNames
  <2> QED BY <2>1, <2>2, <2>3, <2>4, <2>5, <2>6, <2>7, <2>8 DEF IInv, Types, SentinelWaits, TypeOK
<1> QED BY Invariance, <1>1, PTL
===============================================================================
