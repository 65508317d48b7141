------------------------------- MODULE LiveSource -------------------------------
(***************************************************************************)
(* LiveSource of src/ids/capture/live.py with the loop of src/ids/cli.py   *)
(* that reads it: a daemon thread runs Scapy's sniff() and puts packets in *)
(* an unbounded queue, and the main thread takes them out.  The thread     *)
(* always ends the queue with a sentinel and leaves its failure in a list; *)
(* the consumer stops the thread when it stops reading, for whatever       *)
(* reason, and waits for it at most one second.  A failure that Scapy      *)
(* handles by itself, closing the socket, is no failure of the thread: the *)
(* queue then just ends.                                                   *)
(***************************************************************************)
EXTENDS Integers, Sequences

CONSTANTS
  Counts,     \* the values that --count may have
  Unlimited,  \* no --count
  MaxPackets  \* bound of the model: the packets that the interface delivers

None == 0     \* the sentinel; packets are numbered from 1 in order of capture

\* What sniff() can raise, and what the consumer raises for it.
Failures == {"scapy_permission", "scapy_other", "other"}
Raised(failure) ==
  CASE failure = "scapy_permission" -> "PermissionError"
    [] failure = "scapy_other" -> "OSError"
    [] failure = "other" -> "other"

ASSUME CountsArePositive == Counts \subseteq {Unlimited} \cup (Nat \ {0})
ASSUME UnlimitedIsNoNumber == Unlimited \notin Nat
ASSUME BoundIsNumber == MaxPackets \in Nat

VARIABLES
  count,      \* --count, fixed for the run
  packets,    \* the queue
  failures,   \* the failures of the thread, at most one
  stop,       \* the event that asks the thread to end
  socket,     \* good, or failed: reading it raised, and sniff() closed it
  worker,     \* sniffing: in sniff(), collected: before its stop check,
              \* leaving: in the finally clause, done
  consumer,   \* waiting: in packets.get(), reading: in the body of the loop of run(), closing and
              \* joining: in the finally clause of the generator, ended
  cause,      \* why the consumer leaves its loop: sentinel, closed (enough packets), error, interrupt
  outcome,    \* what the loop of run() sees at the end
  captured,   \* history: the number of packets collected
  yielded,    \* history: the packets the consumer got
  late        \* history: the packets collected after the stop

vars == <<count, packets, failures, stop, socket, worker, consumer, cause, outcome, captured, yielded, late>>

Init ==
  /\ count \in Counts
  /\ packets = <<>> /\ failures = <<>> /\ stop = FALSE /\ socket = "good"
  /\ worker = "sniffing" /\ consumer = "waiting"
  /\ cause = "none" /\ outcome = "none"
  /\ captured = 0 /\ yielded = <<>> /\ late = 0

\* Slip: one packet more than the count.
CountPassed(n) == count # Unlimited /\ n > count

CountReached(n) == count # Unlimited /\ n >= count

-------------------------------------------------------------------------------
\* The thread.

Collect ==
  /\ worker = "sniffing"
  /\ captured < MaxPackets
  /\ packets' = Append(packets, captured + 1)
  /\ captured' = captured + 1
  /\ late' = IF stop THEN late + 1 ELSE late
  /\ worker' = "collected"
  /\ UNCHANGED <<count, failures, stop, socket, consumer, cause, outcome, yielded>>

\* Slip: sniff() is started without its stop filter.
CheckCount ==
  /\ worker = "collected"
  /\ worker' = IF CountReached(captured) THEN "leaving" ELSE "sniffing"
  /\ UNCHANGED <<count, packets, failures, stop, socket, consumer, cause, outcome, captured, yielded, late>>

\* sniff() looks at stop_filter and at its count after each packet, and only then.
CheckStop ==
  /\ worker = "collected"
  /\ worker' = IF stop \/ CountReached(captured) THEN "leaving" ELSE "sniffing"
  /\ UNCHANGED <<count, packets, failures, stop, socket, consumer, cause, outcome, captured, yielded, late>>

\* Slip: the sentinel is put only when sniff() returns.
SniffFailsWithoutSentinel(failure) ==
  /\ worker = "sniffing"
  /\ failures' = Append(failures, Raised(failure))
  /\ worker' = "done"
  /\ UNCHANGED <<count, packets, stop, socket, consumer, cause, outcome, captured, yielded, late>>

SniffFails(failure) ==
  /\ worker = "sniffing"
  /\ failures' = Append(failures, Raised(failure))
  /\ worker' = "leaving"
  /\ UNCHANGED <<count, packets, stop, socket, consumer, cause, outcome, captured, yielded, late>>

\* An exception of the socket does not leave sniff(): Scapy prints a warning, closes the socket and, with no
\* socket left to read, returns as at the end of a capture (README.md:976, "the `TypeError` closed the socket").
SocketFails ==
  /\ worker = "sniffing"
  /\ socket' = "failed"
  /\ worker' = "leaving"
  /\ UNCHANGED <<count, packets, failures, stop, consumer, cause, outcome, captured, yielded, late>>

PutSentinel ==
  /\ worker = "leaving"
  /\ packets' = Append(packets, None)
  /\ worker' = "done"
  /\ UNCHANGED <<count, failures, stop, socket, consumer, cause, outcome, captured, yielded, late>>

-------------------------------------------------------------------------------
\* The main thread.

\* Slip: the queue is read from its end, except for the sentinel.
GetNewest ==
  /\ consumer = "waiting" /\ packets # <<>> /\ packets[Len(packets)] # None
  /\ consumer' = "reading"
  /\ packets' = SubSeq(packets, 1, Len(packets) - 1)
  /\ yielded' = Append(yielded, packets[Len(packets)])
  /\ UNCHANGED <<count, failures, stop, socket, worker, cause, outcome, captured, late>>

Get ==
  /\ consumer = "waiting" /\ packets # <<>>
  /\ packets' = Tail(packets)
  /\ IF Head(packets) = None
       THEN /\ consumer' = "closing" /\ cause' = "sentinel"
            /\ UNCHANGED yielded
       ELSE /\ consumer' = "reading" /\ yielded' = Append(yielded, Head(packets))
            /\ UNCHANGED cause
  /\ UNCHANGED <<count, failures, stop, socket, worker, outcome, captured, late>>

\* The body of the loop of run() is done with a packet.
ReadNext ==
  /\ consumer = "reading"
  /\ IF CountReached(Len(yielded))
       THEN consumer' = "closing" /\ cause' = "closed"
       ELSE consumer' = "waiting" /\ UNCHANGED cause
  /\ UNCHANGED <<count, packets, failures, stop, socket, worker, outcome, captured, yielded, late>>

\* The body raises, for instance because a file cannot be written: the generator is closed.
BodyFails ==
  /\ consumer = "reading"
  /\ consumer' = "closing" /\ cause' = "error"
  /\ UNCHANGED <<count, packets, failures, stop, socket, worker, outcome, captured, yielded, late>>

\* Ctrl-C reaches the main thread.
Interrupt ==
  /\ consumer \in {"waiting", "reading"}
  /\ consumer' = "closing" /\ cause' = "interrupt"
  /\ UNCHANGED <<count, packets, failures, stop, socket, worker, outcome, captured, yielded, late>>

\* A second Ctrl-C, in the finally clause of the generator.
InterruptAgain ==
  /\ consumer \in {"closing", "joining"}
  /\ consumer' = "ended" /\ outcome' = "interrupted"
  /\ UNCHANGED <<count, packets, failures, stop, socket, worker, cause, captured, yielded, late>>

SetStop ==
  /\ consumer = "closing"
  /\ stop' = TRUE
  /\ consumer' = "joining"
  /\ UNCHANGED <<count, packets, failures, socket, worker, cause, outcome, captured, yielded, late>>

\* Slip: the failures are not looked at.
LeaveQuietly ==
  /\ consumer' = "ended"
  /\ outcome' = IF cause \in {"interrupt", "error"} THEN "interrupted" ELSE "finished"
  /\ UNCHANGED <<count, packets, failures, stop, socket, worker, cause, captured, yielded, late>>

\* What follows the join: only a consumer that met the sentinel looks at the failures.
Leave ==
  /\ consumer' = "ended"
  /\ outcome' = CASE cause = "interrupt" -> "interrupted"
                  [] cause = "error" -> "error"
                  [] cause = "closed" -> "finished"
                  [] cause = "sentinel" -> IF failures = <<>> THEN "finished" ELSE Head(failures)
  /\ UNCHANGED <<count, packets, failures, stop, socket, worker, cause, captured, yielded, late>>

Joined == consumer = "joining" /\ worker = "done" /\ Leave

\* Slip: join() without a timeout.
JoinWaits == FALSE

\* join(timeout=1.0) gives up on a thread that waits for a packet.
JoinTimesOut == consumer = "joining" /\ worker # "done" /\ Leave

-------------------------------------------------------------------------------
Worker == Collect \/ CheckStop \/ (\E f \in Failures : SniffFails(f)) \/ SocketFails \/ PutSentinel
Consumer == Get \/ ReadNext \/ SetStop \/ Joined \/ JoinTimesOut
Surprises == BodyFails \/ Interrupt \/ InterruptAgain

Next == Worker \/ Consumer \/ Surprises

(***************************************************************************)
(* The operating system runs both threads, so a step that a thread can     *)
(* take by itself is taken in the end.  Nothing makes the interface        *)
(* deliver a packet, or the socket or sniff() fail.                        *)
(***************************************************************************)
Fairness == WF_vars(CheckStop) /\ WF_vars(PutSentinel) /\ WF_vars(Consumer)

Spec == Init /\ [][Next]_vars /\ Fairness
-------------------------------------------------------------------------------
SentinelWaits == worker = "done" /\ cause # "sentinel"

\* Types of the state; the sentinel is in the queue once at most, behind every packet.
TypeOK ==
  /\ packets \in Seq(0..MaxPackets) /\ failures \in Seq({Raised(f) : f \in Failures})
  /\ \A i \in DOMAIN packets : packets[i] = None => i = Len(packets) /\ worker = "done"
  /\ count \in Counts /\ stop \in BOOLEAN /\ socket \in {"good", "failed"} /\ captured \in 0..MaxPackets /\ late \in Nat
  /\ worker \in {"sniffing", "collected", "leaving", "done"}
  /\ consumer \in {"waiting", "reading", "closing", "joining", "ended"}
  /\ cause \in {"none", "sentinel", "closed", "error", "interrupt"}
  /\ outcome \in {"none", "finished", "error", "interrupted"} \cup {Raised(f) : f \in Failures}

\* The queue keeps the order of capture and loses and repeats nothing: what the consumer got, followed by
\* what waits in the queue, is what was captured and then the sentinel of a thread that is done.
InOrderOfCapture ==
  yielded \o packets =
    [i \in 1..captured |-> i] \o (IF SentinelWaits THEN <<None>> ELSE <<>>)

\* live.py: "A thread cannot raise into its caller, so pass the failure to the consumer": a failure that
\* leaves sniff() and that the loop sees comes after every packet captured before it, and a loop that reads
\* to the sentinel and is not interrupted sees the failure there was.
FailureReachesConsumer ==
  /\ outcome \in {Raised(f) : f \in Failures} => Len(yielded) = captured
  /\ consumer = "ended" /\ cause = "sentinel" /\ outcome # "interrupted" /\ failures # <<>>
       => outcome = failures[1]

\* After the stop the thread collects one packet at most, the one that lets it see the stop.
StopsAfterOnePacket == late <= 1

\* --count N: the thread never collects more than N, so none is thrown away, and a run that ends by itself
\* and without a failure has read N packets.  The one other end is a socket that failed inside sniff(): the
\* run is then shorter than N, or without an N ends at all, but what was captured before has all been read.
FinishedRunIsComplete ==
  /\ count # Unlimited => captured <= count
  /\ outcome = "finished" =>
       (count # Unlimited /\ Len(yielded) = count) \/ (socket = "failed" /\ Len(yielded) = captured)

\* live.py: "The consumer blocks on the queue, so it must always get the sentinel": when sniff() is over,
\* however it ended, the consumer's loop ends too.
ConsumerNeverHangs == worker \in {"leaving", "done"} ~> consumer = "ended"

\* A consumer that stops reading ends although the thread may never see another packet.
CloseTerminates == consumer = "closing" ~> consumer = "ended"
===============================================================================
