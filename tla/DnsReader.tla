------------------------------- MODULE DnsReader -------------------------------
(***************************************************************************)
(* The loop of read_name, one turn a step, on one message.                 *)
(***************************************************************************)
EXTENDS DnsName

CONSTANT Messages   \* the messages and offsets that are read

ASSUME MessagesAreBytes == Messages \subseteq Seq(Byte) \X Nat

VARIABLES
  message,   \* the message and the offset that read_name was called with
  reader,    \* the call
  turns      \* history: the turns of its loop

readerVars == <<message, reader, turns>>

ReaderInit == message \in Messages /\ reader = Start(message[1], message[2]) /\ turns = 0

Read ==
  /\ reader.outcome = "reading"
  /\ reader' = Turn(message[1], reader)
  /\ turns' = turns + 1
  /\ UNCHANGED message

ReaderSpec == ReaderInit /\ [][Read]_readerVars
-------------------------------------------------------------------------------
\* read_name never leaves the message and ends, whatever the pointers do: each turn is a jump or a label,
\* the jumps and the length have their limits, and the caller goes on behind the place it started from
\* and inside the message ("a crafted packet cannot send the reader out of bounds or into a pointer loop").
NameInBounds ==
  /\ reader.position <= Len(message[1]) \/ reader.position = message[2]
  /\ reader.jumps <= MaxJumps
  /\ reader.outcome \in {"reading", "name"} => reader.length < MaxName
  /\ turns <= reader.jumps + reader.length + (IF reader.outcome = "reading" THEN 0 ELSE 1)
  /\ reader.outcome = "name" => reader.after # {}
  /\ \A p \in reader.after : message[2] < p /\ p <= Len(message[1])

\* The labels from position p, of which k bytes are left, up to the next zero, pointer or fault; segment[j]
\* is the same for fewer bytes.
Stand(kind, p) == [labels |-> <<>>, kind |-> kind, at |-> p]
SegmentFrom(data, segment, p, k) ==
  LET size == At(data, p)
  IN  CASE k = 0 -> Stand("cut", p)
        [] k > 0 /\ size = 0 -> Stand("end", p)
        [] k > 1 /\ size >= PointerMask -> Stand("pointer", p)
        [] k > size /\ size \in 1..MaxLabel ->
             [segment[k - 1 - size] EXCEPT !.labels = <<SubSeq(data, p + 2, p + 1 + size)>> \o @]
        [] OTHER -> Stand("fault", p)

\* The segments of a message, read from its end.
Segments(data) ==
  LET segment[k \in 0..Len(data)] == SegmentFrom(data, segment, Len(data) - k, k)
  IN  [p \in 0..Len(data) |-> segment[Len(data) - p]]

\* What a reader returns is the labels of the segments that the pointers join, and the place behind the
\* first segment, however far the pointers lead.
NameIsReference ==
  reader.outcome = "name" =>
    LET seg == Segments(message[1])
        target(p) == (At(message[1], p) - PointerMask) * 256 + At(message[1], p + 1)
        joined == FoldLeft(LAMBDA s, i : IF s.kind # "pointer" THEN s
                                         ELSE LET t == seg[target(s.at)]
                                              IN  [t EXCEPT !.labels = s.labels \o @],
                           seg[message[2]], [i \in 1..MaxJumps |-> i])
        first == seg[message[2]]
    IN  /\ joined.kind = "end" /\ reader.labels = joined.labels
        /\ reader.after = {first.at + IF first.kind = "pointer" THEN 2 ELSE 1}
===============================================================================
