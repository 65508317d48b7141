------------------------------ MODULE ReaderProofs ------------------------------
(***************************************************************************)
(* The two readers.  read_name never leaves its message, ends after a      *)
(* bounded number of turns, and reads the name that the message holds, for *)
(* every message, offset and limit.  EventFileSource gives every line its  *)
(* item, for every file, limit and chunk.                                  *)
(***************************************************************************)
EXTENDS DnsReader, EventReader, FoldProofs, SequenceTheorems, TLAPS

Fields == {"position", "labels", "length", "jumps", "after", "outcome"}

\* What a reader r of a message may be: the fields that NameInBounds speaks of.
IsReader(r) ==
  /\ DOMAIN r = Fields
  /\ r.position \in Nat /\ r.length \in Nat /\ r.jumps \in 0..MaxJumps /\ r.after \subseteq Nat
  /\ r.outcome \in {"reading", "name", "truncated", "malformed"}

\* Until the first jump the reader moves forwards, and a name ends the limits it is under.
IsWithin(r, data, offset) ==
  /\ r.position <= Len(data) \/ r.position = offset
  /\ r.after = {} => offset <= r.position
  /\ r.outcome \in {"reading", "name"} => r.length < MaxName
  /\ r.outcome = "name" => r.after # {}
  /\ \A p \in r.after : offset < p /\ p <= Len(data)

\* The turns that r may have taken.
Turns(r) == r.jumps + r.length + (IF r.outcome = "reading" THEN 0 ELSE 1)

RInv ==
  /\ message \in Seq(Byte) \X Nat
  /\ IsReader(reader) /\ IsWithin(reader, message[1], message[2])
  /\ turns \in Nat /\ turns <= Turns(reader)

-------------------------------------------------------------------------------
\* A byte of the message.
LEMMA ByteAt ==
  ASSUME NEW data \in Seq(Byte), NEW p \in Nat, p < Len(data)
  PROVE  At(data, p) \in 0..255
<1>1. p + 1 \in 1..Len(data)
  OBVIOUS
<1>2. data[p + 1] \in Byte
  BY <1>1
<1> QED BY <1>2 DEF At, Byte

\* What a call of the loop's steps leaves of a reader r at a position inside the message.
LEMMA StopKeeps ==
  ASSUME NEW data \in Seq(Byte), NEW offset \in Nat, NEW r, IsReader(r), IsWithin(r, data, offset),
         r.outcome = "reading", NEW outcome \in {"truncated", "malformed"}
  PROVE  LET s == Stop(r, outcome)
         IN  IsReader(s) /\ IsWithin(s, data, offset) /\ Turns(s) = Turns(r) + 1
<1> DEFINE s == Stop(r, outcome)
<1>1. /\ DOMAIN s = Fields /\ s.position = r.position /\ s.length = r.length /\ s.jumps = r.jumps
      /\ s.after = r.after /\ s.outcome = outcome
  BY DEF Stop, IsReader, Fields
<1> HIDE DEF s
<1>2. IsReader(s) /\ IsWithin(s, data, offset)
  BY <1>1 DEF IsReader, IsWithin
<1>3. Turns(s) = Turns(r) + 1
  BY <1>1, NameLimits DEF Turns, IsReader
<1> QED BY <1>2, <1>3 DEF s

\* The place behind the name is behind the offset and inside the message.
LEMMA AfterKeeps ==
  ASSUME NEW data \in Seq(Byte), NEW offset \in Nat, NEW r, IsReader(r), IsWithin(r, data, offset),
         NEW p \in Nat, r.position < p, p <= Len(data)
  PROVE  /\ AfterFirst(r, p) # {} /\ AfterFirst(r, p) \subseteq Nat
         /\ \A q \in AfterFirst(r, p) : offset < q /\ q <= Len(data)
<1>1. CASE r.after = {}
  <2>1. offset <= r.position /\ r.position \in Nat
    BY <1>1 DEF IsWithin, IsReader
  <2> QED BY <1>1, <2>1 DEF AfterFirst
<1>2. CASE r.after # {}
  BY <1>2 DEF AfterFirst, IsWithin, IsReader
<1> QED BY <1>1, <1>2

LEMMA FollowKeeps ==
  ASSUME NEW data \in Seq(Byte), NEW offset \in Nat, NEW r, IsReader(r), IsWithin(r, data, offset),
         r.outcome = "reading", r.position + 1 < Len(data), At(data, r.position) >= PointerMask
  PROVE  LET s == Follow(data, r)
         IN  IsReader(s) /\ IsWithin(s, data, offset) /\ Turns(s) = Turns(r) + 1
<1> DEFINE high == At(data, r.position)
           low == At(data, r.position + 1)
           target == (high - PointerMask) * 256 + low
           s == [r EXCEPT !.position = target, !.jumps = @ + 1, !.after = AfterFirst(r, r.position + 2)]
<1>1. r.position \in Nat /\ r.jumps \in 0..MaxJumps /\ r.length \in Nat /\ r.after \subseteq Nat
  BY DEF IsReader
<1>2. target \in Nat
  <2>1. high \in 0..255
    <3>1. r.position < Len(data)
      BY <1>1
    <3> QED BY <1>1, <3>1, ByteAt
  <2>2. r.position + 1 \in Nat
    BY <1>1
  <2>3. low \in 0..255
    BY <2>2, ByteAt
  <2>4. high >= PointerMask
    OBVIOUS
  <2> HIDE DEF high, low
  <2> QED BY <2>1, <2>3, <2>4 DEF PointerMask
<1>3. CASE target >= r.position \/ r.jumps = MaxJumps
  BY <1>3, StopKeeps DEF Follow
<1>4. CASE ~(target >= r.position \/ r.jumps = MaxJumps)
  <2>1. Follow(data, r) = s
    BY <1>4 DEF Follow
  <2>2. /\ DOMAIN s = Fields /\ s.position = target /\ s.length = r.length /\ s.jumps = r.jumps + 1
        /\ s.after = AfterFirst(r, r.position + 2) /\ s.outcome = r.outcome
    BY DEF IsReader, Fields
  <2> HIDE DEF s, target
  <2>3. target < r.position /\ target <= Len(data) /\ r.jumps + 1 \in 0..MaxJumps
    BY <1>1, <1>2, <1>4, NameLimits
  <2>4. /\ s.after # {} /\ s.after \subseteq Nat
        /\ \A p \in s.after : offset < p /\ p <= Len(data)
    <3>1. r.position + 2 \in Nat /\ r.position < r.position + 2 /\ r.position + 2 <= Len(data)
      BY <1>1
    <3> QED BY <2>2, <3>1, AfterKeeps
  <2>5. IsReader(s) /\ IsWithin(s, data, offset)
    BY <1>1, <1>2, <2>2, <2>3, <2>4 DEF IsReader, IsWithin
  <2>6. Turns(s) = Turns(r) + 1
    BY <1>1, <2>2, NameLimits DEF Turns
  <2> QED BY <2>1, <2>5, <2>6
<1> QED BY <1>3, <1>4

LEMMA FinishKeeps ==
  ASSUME NEW data \in Seq(Byte), NEW offset \in Nat, NEW r, IsReader(r), IsWithin(r, data, offset),
         r.outcome = "reading", r.position < Len(data)
  PROVE  LET s == Finish(r)
         IN  IsReader(s) /\ IsWithin(s, data, offset) /\ Turns(s) = Turns(r) + 1
<1> DEFINE s == Finish(r)
<1>1. r.position \in Nat /\ r.jumps \in 0..MaxJumps /\ r.length \in Nat /\ r.after \subseteq Nat
  BY DEF IsReader
<1>2. /\ DOMAIN s = Fields /\ s.position = r.position + 1 /\ s.length = r.length /\ s.jumps = r.jumps
      /\ s.after = AfterFirst(r, r.position + 1) /\ s.outcome = "name"
  BY DEF Finish, IsReader, Fields
<1> HIDE DEF s
<1>3. s.after # {} /\ s.after \subseteq Nat /\ \A p \in s.after : offset < p /\ p <= Len(data)
  BY <1>1, <1>2, AfterKeeps, SMTT(30)
<1>4. IsReader(s) /\ IsWithin(s, data, offset)
  BY <1>1, <1>2, <1>3 DEF IsReader, IsWithin
<1>5. Turns(s) = Turns(r) + 1
  BY <1>1, <1>2, NameLimits DEF Turns
<1> QED BY <1>4, <1>5 DEF s

LEMMA TakeLabelKeeps ==
  ASSUME NEW data \in Seq(Byte), NEW offset \in Nat, NEW r, IsReader(r), IsWithin(r, data, offset),
         r.outcome = "reading", NEW size \in 1..MaxLabel, r.position + 1 + size <= Len(data)
  PROVE  LET s == TakeLabel(data, r, size)
         IN  IsReader(s) /\ IsWithin(s, data, offset) /\ Turns(s) >= Turns(r) + 1
<1> DEFINE s == TakeLabel(data, r, size)
           longer == [r EXCEPT !.position = @ + 1 + size, !.length = @ + size + 1,
                               !.labels = Append(@, SubSeq(data, r.position + 2, r.position + 1 + size))]
<1>1. r.position \in Nat /\ r.jumps \in 0..MaxJumps /\ r.length \in Nat /\ r.after \subseteq Nat
  BY DEF IsReader
<1>2. /\ DOMAIN longer = Fields /\ longer.position = r.position + 1 + size
      /\ longer.length = r.length + size + 1 /\ longer.jumps = r.jumps
      /\ longer.after = r.after /\ longer.outcome = r.outcome
  BY DEF IsReader, Fields
<1>3. s = IF longer.length >= MaxName THEN [longer EXCEPT !.outcome = "malformed"] ELSE longer
  BY DEF TakeLabel, Stop
<1> HIDE DEF longer, s
<1>4. /\ DOMAIN s = Fields /\ s.position = r.position + 1 + size /\ s.length = r.length + size + 1
      /\ s.jumps = r.jumps /\ s.after = r.after
      /\ s.outcome = IF r.length + size + 1 >= MaxName THEN "malformed" ELSE "reading"
  BY <1>2, <1>3 DEF Fields
<1>5. size \in Nat /\ size >= 1
  BY DEF MaxLabel
<1>6. IsReader(s)
  BY <1>1, <1>4, <1>5, SMTT(30) DEF IsReader
<1>7. IsWithin(s, data, offset)
  BY <1>1, <1>4, <1>5, NameLimits, SMTT(30) DEF IsWithin
<1>8. Turns(s) >= Turns(r) + 1
  BY <1>1, <1>4, <1>5, NameLimits, SMTT(30) DEF Turns
<1> QED BY <1>6, <1>7, <1>8 DEF s

\* A turn is one of the steps of the loop, under the conditions that lead to it.
LEMMA TurnIsStep ==
  ASSUME NEW data \in Seq(Byte), NEW r, r.position \in Nat
  PROVE  LET size == At(data, r.position)
         IN  \/ Turn(data, r) \in {Stop(r, "truncated"), Stop(r, "malformed")}
             \/ r.position + 1 < Len(data) /\ size >= PointerMask /\ Turn(data, r) = Follow(data, r)
             \/ r.position < Len(data) /\ size = 0 /\ Turn(data, r) = Finish(r)
             \/ /\ size \in 1..MaxLabel /\ r.position + 1 + size <= Len(data)
                /\ Turn(data, r) = TakeLabel(data, r, size)
<1> DEFINE size == At(data, r.position)
           IsStep ==
             \/ Turn(data, r) \in {Stop(r, "truncated"), Stop(r, "malformed")}
             \/ r.position + 1 < Len(data) /\ size >= PointerMask /\ Turn(data, r) = Follow(data, r)
             \/ r.position < Len(data) /\ size = 0 /\ Turn(data, r) = Finish(r)
             \/ /\ size \in 1..MaxLabel /\ r.position + 1 + size <= Len(data)
                /\ Turn(data, r) = TakeLabel(data, r, size)
<1> SUFFICES IsStep
  OBVIOUS
<1>1. CASE r.position >= Len(data)
  BY <1>1 DEF Turn
<1>2. CASE ~(r.position >= Len(data))
  <2>1. r.position < Len(data)
    BY <1>2
  <2>2. size \in 0..255
    BY <2>1, ByteAt
  <2>3. Turn(data, r) =
          CASE size >= PointerMask -> IF r.position + 1 >= Len(data) THEN Stop(r, "truncated")
                                      ELSE Follow(data, r)
            [] size > MaxLabel /\ size < PointerMask -> Stop(r, "malformed")
            [] size = 0 -> Finish(r)
            [] size \in 1..MaxLabel -> IF r.position + 1 + size > Len(data) THEN Stop(r, "truncated")
                                       ELSE TakeLabel(data, r, size)
    BY <1>2, Zenon DEF Turn
  <2> HIDE DEF size
  <2>4. /\ ~(r.position + 1 >= Len(data)) => r.position + 1 < Len(data)
        /\ ~(r.position + 1 + size > Len(data)) => r.position + 1 + size <= Len(data)
    BY <2>2
  <2>5. CASE size >= PointerMask
    <3>1. ~(size > MaxLabel /\ size < PointerMask) /\ size # 0 /\ size \notin 1..MaxLabel
      BY <2>2, <2>5 DEF PointerMask, MaxLabel
    <3>2. Turn(data, r) = IF r.position + 1 >= Len(data) THEN Stop(r, "truncated") ELSE Follow(data, r)
      BY <2>3, <2>5, <3>1, Zenon
    <3> QED BY <2>4, <2>5, <3>2, Zenon
  <2>6. CASE size > MaxLabel /\ size < PointerMask
    <3>1. ~(size >= PointerMask) /\ size # 0 /\ size \notin 1..MaxLabel
      BY <2>2, <2>6 DEF PointerMask, MaxLabel
    <3>2. Turn(data, r) = Stop(r, "malformed")
      BY <2>3, <2>6, <3>1, Zenon
    <3> QED BY <3>2
  <2>7. CASE size = 0
    <3>1. ~(size >= PointerMask) /\ ~(size > MaxLabel /\ size < PointerMask) /\ size \notin 1..MaxLabel
      BY <2>7 DEF PointerMask, MaxLabel
    <3>2. Turn(data, r) = Finish(r)
      BY <2>3, <2>7, <3>1, Zenon
    <3> QED BY <2>1, <2>7, <3>2
  <2>8. CASE size \in 1..MaxLabel
    <3>1. ~(size >= PointerMask) /\ ~(size > MaxLabel /\ size < PointerMask) /\ size # 0
      BY <2>8 DEF PointerMask, MaxLabel
    <3>2. Turn(data, r) = IF r.position + 1 + size > Len(data) THEN Stop(r, "truncated")
                          ELSE TakeLabel(data, r, size)
      BY <2>3, <2>8, <3>1, Zenon
    <3> QED BY <2>4, <2>8, <3>2, Zenon
  <2>9. \/ size >= PointerMask \/ (size > MaxLabel /\ size < PointerMask)
        \/ size = 0 \/ size \in 1..MaxLabel
    BY <2>2 DEF PointerMask, MaxLabel
  <2> QED BY <2>5, <2>6, <2>7, <2>8, <2>9
<1> QED BY <1>1, <1>2

\* A turn keeps to the message and costs a jump, a part of the length or the end.
LEMMA TurnKeeps ==
  ASSUME NEW data \in Seq(Byte), NEW offset \in Nat, NEW r, IsReader(r), IsWithin(r, data, offset),
         r.outcome = "reading"
  PROVE  LET s == Turn(data, r)
         IN  IsReader(s) /\ IsWithin(s, data, offset) /\ Turns(s) >= Turns(r) + 1
<1> DEFINE size == At(data, r.position)
           IsKept(s) == IsReader(s) /\ IsWithin(s, data, offset) /\ Turns(s) >= Turns(r) + 1
<1> SUFFICES IsKept(Turn(data, r))
  OBVIOUS
<1>1. r.position \in Nat /\ Turns(r) \in Nat
  BY NameLimits DEF IsReader, Turns
<1>2. IsKept(Stop(r, "truncated")) /\ IsKept(Stop(r, "malformed"))
  BY <1>1, StopKeeps
<1>3. r.position + 1 < Len(data) /\ size >= PointerMask => IsKept(Follow(data, r))
  BY <1>1, FollowKeeps
<1>4. r.position < Len(data) => IsKept(Finish(r))
  BY <1>1, FinishKeeps
<1>5. size \in 1..MaxLabel /\ r.position + 1 + size <= Len(data) => IsKept(TakeLabel(data, r, size))
  BY TakeLabelKeeps
<1> HIDE DEF IsKept
<1> QED BY <1>1, <1>2, <1>3, <1>4, <1>5, TurnIsStep

-------------------------------------------------------------------------------
LEMMA ReaderStepKeeps == RInv /\ [Read]_readerVars => RInv'
<1> SUFFICES ASSUME RInv, [Read]_readerVars
             PROVE  RInv'
  OBVIOUS
<1>1. CASE Read
  <2>1. /\ message' = message /\ reader' = Turn(message[1], reader) /\ turns' = turns + 1
        /\ reader.outcome = "reading" /\ message[1] \in Seq(Byte) /\ message[2] \in Nat
    BY <1>1 DEF Read, RInv
  <2>2. /\ IsReader(reader') /\ IsWithin(reader', message[1], message[2])
        /\ Turns(reader') >= Turns(reader) + 1
    BY <2>1, TurnKeeps DEF RInv
  <2>3. \A x : IsReader(x) => Turns(x) \in Nat
    BY NameLimits DEF IsReader, Turns
  <2>4. Turns(reader) \in Nat /\ Turns(reader') \in Nat
    BY <2>2, <2>3 DEF RInv
  <2>5. turns' \in Nat /\ turns' <= Turns(reader')
    BY <2>1, <2>2, <2>4 DEF RInv
  <2>6. IsWithin(reader, message[1], message[2])' /\ (turns <= Turns(reader))'
    BY <2>1, <2>2, <2>5 DEF IsWithin, Turns
  <2> QED BY <2>1, <2>2, <2>5, <2>6 DEF RInv, IsReader
<1>2. CASE UNCHANGED readerVars
  BY <1>2 DEF RInv, readerVars
<1> QED BY <1>1, <1>2

LEMMA ReaderStartsWithin == ReaderInit => RInv
<1> SUFFICES ASSUME ReaderInit PROVE RInv
  OBVIOUS
<1>1. message \in Seq(Byte) \X Nat /\ reader = Start(message[1], message[2]) /\ turns = 0
  BY MessagesAreBytes DEF ReaderInit
<1>2. /\ DOMAIN reader = Fields /\ reader.position = message[2] /\ reader.length = 0 /\ reader.jumps = 0
      /\ reader.after = {} /\ reader.outcome \in {"reading", "truncated"}
  BY <1>1 DEF Start, Fields
<1>3. IsReader(reader) /\ Turns(reader) >= 0
  BY <1>1, <1>2, NameLimits DEF IsReader, Turns
<1>4. IsWithin(reader, message[1], message[2])
  BY <1>1, <1>2, NameLimits DEF IsWithin
<1> QED BY <1>1, <1>3, <1>4 DEF RInv

\* read_name (src/ids/parsers/dns.py) stays inside the message and within its limits, and it ends: its turns
\* are bounded by the jumps and the length, whatever bytes the message holds.
THEOREM NamesStayInBounds == ReaderSpec => []NameInBounds
<1>1. RInv => NameInBounds
  BY DEF RInv, NameInBounds, IsReader, IsWithin, Turns
<1> QED BY ReaderStartsWithin, ReaderStepKeeps, <1>1, PTL DEF ReaderSpec

-------------------------------------------------------------------------------
\* The segments of a message, without the recursion.

\* One turn of the recursion of Segments, with k bytes left.
SegmentTurn(data, segment, k) == SegmentFrom(data, segment, Len(data) - k, k)

IsSegments(data, segment) == segment = [k \in 0..Len(data) |-> SegmentTurn(data, segment, k)]

LEMMA SegmentsAreRecursive ==
  ASSUME NEW data
  PROVE  Segments(data) = [p \in 0..Len(data) |-> (CHOOSE g : IsSegments(data, g))[Len(data) - p]]
BY Zenon DEF Segments, IsSegments, SegmentTurn

\* The bytes of a segment's label, and the segment with a label in front of it.
LabelAt(data, p, size) == SubSeq(data, p + 2, p + 1 + size)
Prefixed(label, segment) == [segment EXCEPT !.labels = <<label>> \o @]

LEMMA SegmentTurns ==
  ASSUME NEW data \in Seq(Byte), NEW g, NEW k \in 0..Len(data),
         NEW p, p = Len(data) - k, NEW size, size = At(data, p)
  PROVE  /\ p \in Nat /\ k \in Nat
         /\ k = 0 => SegmentTurn(data, g, k) = Stand("cut", p)
         /\ k > 0 => size \in 0..255 /\ p < Len(data)
         /\ k > 0 /\ size = 0 => SegmentTurn(data, g, k) = Stand("end", p)
         /\ k > 1 /\ size >= PointerMask => SegmentTurn(data, g, k) = Stand("pointer", p)
         /\ k > size /\ size \in 1..MaxLabel =>
              SegmentTurn(data, g, k) = Prefixed(LabelAt(data, p, size), g[k - 1 - size])
         /\ (/\ ~(k = 0) /\ ~(k > 0 /\ size = 0) /\ ~(k > 1 /\ size >= PointerMask)
             /\ ~(k > size /\ size \in 1..MaxLabel)) => SegmentTurn(data, g, k) = Stand("fault", p)
<1>1. p \in Nat /\ k \in Nat /\ (k > 0 => p < Len(data))
  OBVIOUS
<1>2. k > 0 => size \in 0..255
  BY <1>1, ByteAt
<1>3. SegmentTurn(data, g, k) =
        CASE k = 0 -> Stand("cut", p)
          [] k > 0 /\ size = 0 -> Stand("end", p)
          [] k > 1 /\ size >= PointerMask -> Stand("pointer", p)
          [] k > size /\ size \in 1..MaxLabel -> Prefixed(LabelAt(data, p, size), g[k - 1 - size])
          [] OTHER -> Stand("fault", p)
  BY Zenon DEF SegmentTurn, SegmentFrom, Prefixed, LabelAt
<1>4. ASSUME k = 0 PROVE SegmentTurn(data, g, k) = Stand("cut", p)
  <2>1. ~(k > 0 /\ size = 0) /\ ~(k > 1 /\ size >= PointerMask) /\ ~(k > size /\ size \in 1..MaxLabel)
    BY <1>4
  <2> QED BY <1>3, <1>4, <2>1, Zenon
<1>5. ASSUME k > 0, size = 0 PROVE SegmentTurn(data, g, k) = Stand("end", p)
  <2>1. k # 0 /\ ~(k > 1 /\ size >= PointerMask) /\ ~(k > size /\ size \in 1..MaxLabel)
    BY <1>1, <1>5 DEF PointerMask
  <2> QED BY <1>3, <1>5, <2>1, Zenon
<1>6. ASSUME k > 1, size >= PointerMask PROVE SegmentTurn(data, g, k) = Stand("pointer", p)
  <2>1. size \in 0..255
    BY <1>1, <1>2, <1>6
  <2>2. k # 0 /\ size # 0 /\ ~(size \in 1..MaxLabel)
    <3>1. size \in Nat /\ size >= 192
      BY <1>6, <2>1 DEF PointerMask
    <3>2. \A n \in Nat : n >= 192 => n # 0 /\ ~(n \in 1..63)
      OBVIOUS
    <3>3. size # 0 /\ ~(size \in 1..63)
      BY <3>1, <3>2
    <3>4. k # 0
      BY <1>1, <1>6
    <3> QED BY <3>3, <3>4 DEF MaxLabel
  <2> QED BY <1>3, <1>6, <2>2, Zenon
<1>7. ASSUME k > size, size \in 1..MaxLabel
      PROVE  SegmentTurn(data, g, k) = Prefixed(LabelAt(data, p, size), g[k - 1 - size])
  <2>1. k # 0 /\ size # 0 /\ ~(size >= PointerMask)
    <3>1. \A n \in 1..63 : \A m \in Nat : n # 0 /\ ~(n >= 192) /\ (m > n => m # 0)
      OBVIOUS
    <3>2. size \in 1..63 /\ k \in Nat /\ k > size
      BY <1>1, <1>7 DEF MaxLabel
    <3>3. size # 0 /\ ~(size >= 192) /\ k # 0
      BY <3>1, <3>2
    <3> QED BY <3>3 DEF PointerMask
  <2> QED BY <1>3, <1>7, <2>1, Zenon
<1>8. ASSUME ~(k = 0), ~(k > 0 /\ size = 0), ~(k > 1 /\ size >= PointerMask), ~(k > size /\ size \in 1..MaxLabel)
      PROVE  SegmentTurn(data, g, k) = Stand("fault", p)
  BY <1>3, <1>8, Zenon
<1> QED BY <1>1, <1>2, <1>4, <1>5, <1>6, <1>7, <1>8

\* The recursion is well founded: each turn asks for fewer bytes.
LEMMA SegmentTurnsAgree ==
  ASSUME NEW data \in Seq(Byte), NEW f, NEW g, NEW k \in 0..Len(data), \A j \in 0..(k - 1) : f[j] = g[j]
  PROVE  SegmentTurn(data, f, k) = SegmentTurn(data, g, k)
<1> DEFINE p == Len(data) - k
           size == At(data, p)
<1> HIDE DEF p, size
<1>1. p = Len(data) - k /\ size = At(data, p)
  BY DEF p, size
<1>2. ASSUME k > size, size \in 1..MaxLabel PROVE f[k - 1 - size] = g[k - 1 - size]
  <2>1. k - 1 - size \in 0..(k - 1)
    BY <1>2 DEF MaxLabel
  <2> QED BY <2>1
<1> QED BY <1>1, <1>2, SegmentTurns

\* So the recursion defines a function: by induction on the bytes that are left.
LEMMA SegmentsExist ==
  ASSUME NEW data \in Seq(Byte)
  PROVE  \E g : IsSegments(data, g)
<1> DEFINE Approximates(g, n) == g = [k \in 0..n |-> SegmentTurn(data, g, k)]
           Q == {n \in Nat : n <= Len(data) => \E g : Approximates(g, n)}
<1>1. 0 \in Q
  <2> DEFINE g == [k \in 0..0 |-> SegmentTurn(data, <<>>, k)]
  <2>1. \A k \in 0..0 : SegmentTurn(data, <<>>, k) = SegmentTurn(data, g, k)
    <3> HIDE DEF g
    <3>1. 0 \in 0..Len(data) /\ \A j \in 0..(0 - 1) : <<>>[j] = g[j]
      OBVIOUS
    <3> QED BY <3>1, SegmentTurnsAgree
  <2>2. Approximates(g, 0)
    BY <2>1
  <2> HIDE DEF Approximates, g
  <2> QED BY <2>2
<1>2. ASSUME NEW n \in Nat, n \in Q PROVE n + 1 \in Q
  <2> SUFFICES ASSUME n + 1 <= Len(data) PROVE \E g : Approximates(g, n + 1)
    OBVIOUS
  <2>1. PICK f : Approximates(f, n)
    BY <1>2
  <2> DEFINE g == [k \in 0..(n + 1) |-> SegmentTurn(data, f, k)]
  <2>2. \A k \in 0..n : g[k] = f[k]
    <3>1. \A k \in 0..n : f[k] = SegmentTurn(data, f, k)
      BY <2>1
    <3> QED BY <3>1
  <2> HIDE DEF g
  <2>3. \A k \in 0..(n + 1) : SegmentTurn(data, f, k) = SegmentTurn(data, g, k)
    <3> SUFFICES ASSUME NEW k \in 0..(n + 1) PROVE SegmentTurn(data, f, k) = SegmentTurn(data, g, k)
      OBVIOUS
    <3>1. k \in 0..Len(data) /\ \A j \in 0..(k - 1) : f[j] = g[j]
      BY <2>2
    <3> QED BY <3>1, SegmentTurnsAgree
  <2>4. g = [k \in 0..(n + 1) |-> SegmentTurn(data, g, k)]
    BY <2>3 DEF g
  <2>5. Approximates(g, n + 1)
    BY <2>4
  <2> HIDE DEF Approximates
  <2> QED BY <2>5
<1>3. Nat \subseteq Q
  <2> HIDE DEF Q
  <2> QED BY <1>1, <1>2, AllNats
<1>4. \E g : Approximates(g, Len(data))
  BY <1>3
<1> QED BY <1>4 DEF IsSegments

\* What Segments gives: a segment is its own first turn.
LEMMA SegmentsFollow ==
  ASSUME NEW data \in Seq(Byte)
  PROVE  \E g : /\ IsSegments(data, g)
                /\ \A p \in 0..Len(data) : Segments(data)[p] = g[Len(data) - p]
<1> DEFINE g == CHOOSE f : IsSegments(data, f)
<1>1. IsSegments(data, g)
  BY SegmentsExist, Zenon
<1>2. \A p \in 0..Len(data) : Segments(data)[p] = g[Len(data) - p]
  BY SegmentsAreRecursive
<1> QED BY <1>1, <1>2

\* A segment at a place of the message.
IsSegment(s, data) ==
  /\ s = [labels |-> s.labels, kind |-> s.kind, at |-> s.at] /\ s.labels \in Seq(Seq(Byte))
  /\ s.kind \in {"cut", "end", "pointer", "fault"} /\ s.at \in 0..Len(data)

LEMMA StandIsSegment ==
  ASSUME NEW data \in Seq(Byte), NEW kind \in {"cut", "end", "pointer", "fault"}, NEW p \in 0..Len(data)
  PROVE  IsSegment(Stand(kind, p), data)
BY DEF IsSegment, Stand

LEMMA LabelIsBytes ==
  ASSUME NEW data \in Seq(Byte), NEW p \in Nat, NEW size \in 1..MaxLabel, p + 1 + size <= Len(data)
  PROVE  LabelAt(data, p, size) \in Seq(Byte)
<1>1. p + 2 \in 1..Len(data) + 1 /\ p + 1 + size \in 0..Len(data) /\ size \in Nat
  BY DEF MaxLabel
<1> QED BY <1>1, SubSeqProperties DEF LabelAt

LEMMA PrefixedIsSegment ==
  ASSUME NEW data \in Seq(Byte), NEW label \in Seq(Byte), NEW s, IsSegment(s, data)
  PROVE  /\ IsSegment(Prefixed(label, s), data)
         /\ Prefixed(label, s).labels = <<label>> \o s.labels
         /\ Prefixed(label, s).kind = s.kind /\ Prefixed(label, s).at = s.at
<1> DEFINE a == s.labels
           b == s.kind
           c == s.at
<1>1. s = [labels |-> a, kind |-> b, at |-> c] /\ a \in Seq(Seq(Byte))
  BY DEF IsSegment
<1> HIDE DEF a, b, c
<1>2. \A w : [s EXCEPT !.labels = w] = [labels |-> w, kind |-> b, at |-> c]
  BY <1>1
<1>3. Prefixed(label, s) = [labels |-> <<label>> \o a, kind |-> b, at |-> c]
  <2>1. Prefixed(label, s) = [s EXCEPT !.labels = <<label>> \o a]
    BY DEF Prefixed, a
  <2> QED BY <1>2, <2>1
<1>4. <<label>> \o a \in Seq(Seq(Byte))
  BY <1>1
<1>5. s.labels = a /\ s.kind = b /\ s.at = c
  BY DEF a, b, c
<1> QED BY <1>3, <1>4, <1>5 DEF IsSegment

\* With k bytes left at position p of l bytes, a label of `size` bytes leads further and fits when k is enough.
LEMMA LabelFits ==
  ASSUME NEW l \in Nat, NEW k \in 0..l, NEW p, p = l - k, NEW size \in 1..MaxLabel
  PROVE  /\ k > size => k - 1 - size \in 0..l /\ k - 1 - size < k /\ p + 1 + size <= l
         /\ p + 1 + size <= l => k > size /\ p + 1 + size \in 0..l /\ l - (p + 1 + size) = k - 1 - size
BY DEF MaxLabel

\* All of them are segments.
LEMMA AllAreSegments ==
  ASSUME NEW data \in Seq(Byte), NEW g, IsSegments(data, g)
  PROVE  \A k \in 0..Len(data) : IsSegment(g[k], data)
<1> DEFINE Q == {n \in Nat : \A k \in 0..Len(data) : k <= n => IsSegment(g[k], data)}
<1>1. \A k \in 0..Len(data) : g[k] = SegmentTurn(data, g, k)
  BY DEF IsSegments
<1>2. ASSUME NEW k \in 0..Len(data), \A j \in 0..Len(data) : j < k => IsSegment(g[j], data)
      PROVE  IsSegment(g[k], data)
  <2> DEFINE p == Len(data) - k
             size == At(data, p)
  <2> HIDE DEF p, size
  <2>1. p = Len(data) - k /\ size = At(data, p) /\ p \in 0..Len(data)
    BY DEF p, size
  <2>2. CASE \E kind \in {"cut", "end", "pointer", "fault"} : SegmentTurn(data, g, k) = Stand(kind, p)
    BY <1>1, <2>1, <2>2, StandIsSegment
  <2>3. CASE k > size /\ size \in 1..MaxLabel
    <3>1. k - 1 - size \in 0..Len(data) /\ k - 1 - size < k /\ p + 1 + size <= Len(data)
      BY <2>1, <2>3, LabelFits
    <3>2. IsSegment(g[k - 1 - size], data)
      BY <1>2, <3>1
    <3>3. LabelAt(data, p, size) \in Seq(Byte)
      BY <2>1, <2>3, <3>1, LabelIsBytes
    <3>4. g[k] = Prefixed(LabelAt(data, p, size), g[k - 1 - size])
      BY <1>1, <2>1, <2>3, SegmentTurns
    <3> DEFINE label == LabelAt(data, p, size)
               behind == g[k - 1 - size]
    <3> HIDE DEF label, behind
    <3>5. label \in Seq(Byte) /\ IsSegment(behind, data) /\ g[k] = Prefixed(label, behind)
      BY <3>2, <3>3, <3>4 DEF label, behind
    <3> QED BY <3>5, PrefixedIsSegment, ZenonT(40)
  <2> QED BY <2>1, <2>2, <2>3, SegmentTurns
<1>3. 0 \in Q
  BY <1>2
<1>4. ASSUME NEW n \in Nat, n \in Q PROVE n + 1 \in Q
  <2> SUFFICES ASSUME NEW k \in 0..Len(data), k <= n + 1 PROVE IsSegment(g[k], data)
    OBVIOUS
  <2>1. \A j \in 0..Len(data) : j < k => IsSegment(g[j], data)
    BY <1>4
  <2> QED BY <1>2, <2>1
<1>5. Nat \subseteq Q
  <2> HIDE DEF Q
  <2> QED BY <1>3, <1>4, AllNats
<1> QED BY <1>5

\* The reference at a place of the message: the turns of the reader, from that place on.
LEMMA SegmentAt ==
  ASSUME NEW data \in Seq(Byte), NEW p \in 0..Len(data), NEW size, size = At(data, p)
  PROVE  /\ IsSegment(Segments(data)[p], data)
         /\ p < Len(data) => size \in 0..255
         /\ p < Len(data) /\ size = 0 => Segments(data)[p] = Stand("end", p)
         /\ p + 1 < Len(data) /\ size >= PointerMask => Segments(data)[p] = Stand("pointer", p)
         /\ size \in 1..MaxLabel /\ p + 1 + size <= Len(data) =>
              /\ LabelAt(data, p, size) \in Seq(Byte)
              /\ Segments(data)[p] = Prefixed(LabelAt(data, p, size), Segments(data)[p + 1 + size])
<1>1. PICK g : /\ IsSegments(data, g)
               /\ \A q \in 0..Len(data) : Segments(data)[q] = g[Len(data) - q]
  BY SegmentsFollow
<1> DEFINE k == Len(data) - p
<1> HIDE DEF k
<1>2. k \in 0..Len(data) /\ p = Len(data) - k /\ k = Len(data) - p
  BY DEF k
<1>3. g[k] = SegmentTurn(data, g, k) /\ Segments(data)[p] = g[k] /\ IsSegment(g[k], data)
  BY <1>1, <1>2, AllAreSegments DEF IsSegments
<1>4. p < Len(data) => k > 0
  BY <1>2
<1>5. p + 1 < Len(data) => k > 1
  BY <1>2
<1>6. ASSUME size \in 1..MaxLabel, p + 1 + size <= Len(data)
      PROVE  /\ LabelAt(data, p, size) \in Seq(Byte)
             /\ Segments(data)[p] = Prefixed(LabelAt(data, p, size), Segments(data)[p + 1 + size])
  <2>1. k > size /\ p + 1 + size \in 0..Len(data) /\ Len(data) - (p + 1 + size) = k - 1 - size
    BY <1>2, <1>6, LabelFits
  <2>2. g[k] = Prefixed(LabelAt(data, p, size), g[k - 1 - size])
    BY <1>2, <1>3, <1>6, <2>1, SegmentTurns
  <2>3. Segments(data)[p + 1 + size] = g[k - 1 - size]
    BY <1>1, <2>1
  <2>4. LabelAt(data, p, size) \in Seq(Byte)
    BY <1>6, LabelIsBytes
  <2> QED BY <1>3, <2>2, <2>3, <2>4
<1>7. \A s \in {"end", "pointer"} : SegmentTurn(data, g, k) = Stand(s, p) => Segments(data)[p] = Stand(s, p)
  BY <1>3
<1>8. p < Len(data) => size \in 0..255
  BY <1>2, <1>4, SegmentTurns
<1>9. p < Len(data) /\ size = 0 => Segments(data)[p] = Stand("end", p)
  BY <1>2, <1>4, <1>7, SegmentTurns
<1>10. p + 1 < Len(data) /\ size >= PointerMask => Segments(data)[p] = Stand("pointer", p)
  BY <1>2, <1>5, <1>7, SegmentTurns
<1> QED BY <1>3, <1>6, <1>8, <1>9, <1>10

-------------------------------------------------------------------------------
\* The segments that the pointers join.

\* A segment behind the labels before it.
Continued(labels, s) == [s EXCEPT !.labels = labels \o @]

PointedAt(data, p) == (At(data, p) - PointerMask) * 256 + At(data, p + 1)
Jumped(data, s) == IF s.kind # "pointer" THEN s ELSE Continued(s.labels, Segments(data)[PointedAt(data, s.at)])

\* The fold of NameIsReference over the jumps, from a first segment.
JoinTurn(data, first, h, s) == IF s = {} THEN first ELSE Jumped(data, h[s \ {Max(s)}])
IsJoining(data, first, D, h) == h = [s \in SUBSET D |-> JoinTurn(data, first, h, s)]
Joining(data, first) == CHOOSE h : IsJoining(data, first, DOMAIN [i \in 1..MaxJumps |-> i], h)
Joined(data, first, n) == Joining(data, first)[1..n]

\* The fold defines a function: by induction on the size of the set of the jumps.
LEMMA JoiningExists ==
  ASSUME NEW data, NEW first, NEW m \in Nat
  PROVE  \E h : IsJoining(data, first, 1..m, h)
<1> DEFINE D == 1..m
           Small(n) == {s \in SUBSET D : Cardinality(s) <= n}
           Approximates(h, n) == h = [s \in Small(n) |-> JoinTurn(data, first, h, s)]
           Q == {n \in Nat : \E h : Approximates(h, n)}
<1>0. IsFiniteSet(D) /\ \A s \in SUBSET D : /\ IsFiniteSet(s) /\ Cardinality(s) \in Nat
                                            /\ s # {} => Max(s) \in s
  <2>1. IsFiniteSet(D)
    BY FS_Interval
  <2>2. ASSUME NEW s \in SUBSET D PROVE IsFiniteSet(s) /\ Cardinality(s) \in Nat
    BY <2>1, FS_Subset, FS_CardinalityType
  <2>3. ASSUME NEW s \in SUBSET D, s # {} PROVE Max(s) \in s
    <3>1. s \subseteq 0..m
      OBVIOUS
    <3> QED BY <2>3, <3>1, MaxIsGreatest
  <2> QED BY <2>1, <2>2, <2>3
<1>1. 0 \in Q
  <2> DEFINE h == [s \in Small(0) |-> first]
  <2>1. \A s \in Small(0) : s = {}
    BY <1>0, FS_EmptySet
  <2>2. h = [s \in Small(0) |-> JoinTurn(data, first, h, s)]
    BY <2>1 DEF JoinTurn
  <2> QED BY <2>2
<1>2. ASSUME NEW n \in Nat, n \in Q PROVE n + 1 \in Q
  <2>1. PICK h : Approximates(h, n)
    BY <1>2
  <2> DEFINE g == [s \in Small(n + 1) |-> JoinTurn(data, first, h, s)]
  <2>2. ASSUME NEW s \in Small(n + 1), s # {} PROVE h[s \ {Max(s)}] = g[s \ {Max(s)}]
    <3> DEFINE t == s \ {Max(s)}
    <3>1. Cardinality(t) <= n /\ t \in SUBSET D
      <4>1. Max(s) \in s /\ IsFiniteSet(s) /\ Cardinality(s) <= n + 1 /\ Cardinality(s) \in Nat
        BY <1>0, <2>2
      <4>2. Cardinality(t) = Cardinality(s) - 1
        BY <4>1, FS_RemoveElement, Zenon
      <4>3. Cardinality(t) <= n
        <5> HIDE DEF t
        <5> QED BY <4>1, <4>2
      <4> QED BY <4>3
    <3>2. t \in Small(n) /\ t \in Small(n + 1)
      BY <1>0, <3>1
    <3>3. h[t] = JoinTurn(data, first, h, t)
      <4> HIDE DEF t, Small
      <4> QED BY <2>1, <3>2
    <3>4. g[t] = JoinTurn(data, first, h, t)
      <4> HIDE DEF t, Small
      <4> QED BY <3>2
    <3> QED BY <3>3, <3>4
  <2>3. \A s \in Small(n + 1) : JoinTurn(data, first, h, s) = JoinTurn(data, first, g, s)
    <3> HIDE DEF g, Small
    <3> QED BY <2>2 DEF JoinTurn
  <2>4. g = [s \in Small(n + 1) |-> JoinTurn(data, first, g, s)]
    BY <2>3
  <2>5. Approximates(g, n + 1)
    BY <2>4
  <2> HIDE DEF g, Approximates
  <2> QED BY <2>5
<1>3. Nat \subseteq Q
  <2> HIDE DEF Q
  <2> QED BY <1>1, <1>2, AllNats
<1>4. Cardinality(D) \in Nat /\ Small(Cardinality(D)) = SUBSET D
  BY <1>0, FS_Subset, FS_CardinalityType
<1>5. PICK h : Approximates(h, Cardinality(D))
  BY <1>3, <1>4
<1>6. IsJoining(data, first, 1..m, h)
  BY <1>4, <1>5 DEF IsJoining
<1> QED BY <1>6

\* One jump more.
LEMMA JoinedSteps ==
  ASSUME NEW data, NEW first
  PROVE  /\ Joined(data, first, 0) = first
         /\ \A n \in 1..MaxJumps : Joined(data, first, n) = Jumped(data, Joined(data, first, n - 1))
<1> DEFINE h == Joining(data, first)
<1>1. DOMAIN [i \in 1..MaxJumps |-> i] = 1..MaxJumps
  OBVIOUS
<1>2. IsJoining(data, first, 1..MaxJumps, h)
  <2>1. \E g : IsJoining(data, first, 1..MaxJumps, g)
    BY JoiningExists, NameLimits
  <2> QED BY <1>1, <2>1, Zenon DEF Joining
<1>3. \A s \in SUBSET (1..MaxJumps) : h[s] = JoinTurn(data, first, h, s)
  BY <1>2 DEF IsJoining
<1>4. h[1..0] = first
  <2>1. 1..0 = {}
    OBVIOUS
  <2> QED BY <1>3, <2>1 DEF JoinTurn
<1>5. ASSUME NEW n \in 1..MaxJumps PROVE h[1..n] = Jumped(data, h[1..(n - 1)])
  <2>1. Max(1..n) = n
    <3>1. 1..n \in SUBSET (0..n) /\ 1..n # {} /\ n \in 1..n /\ n \in Nat
      BY NameLimits
    <3>2. Max(1..n) \in 1..n /\ Max(1..n) >= n
      BY <3>1, MaxIsGreatest
    <3> QED BY <3>1, <3>2
  <2>2. (1..n) \ {n} = 1..(n - 1)
    BY NameLimits
  <2>3. 1..n \in SUBSET (1..MaxJumps) /\ 1..n # {}
    BY NameLimits
  <2>4. h[1..n] = Jumped(data, h[(1..n) \ {Max(1..n)}])
    BY <1>3, <2>3 DEF JoinTurn
  <2> QED BY <2>1, <2>2, <2>4
<1> HIDE DEF h
<1> QED BY <1>4, <1>5 DEF Joined, h

\* What is no pointer is not followed.
LEMMA JoinedStays ==
  ASSUME NEW data, NEW first, NEW j \in 0..MaxJumps, Joined(data, first, j).kind # "pointer"
  PROVE  Joined(data, first, MaxJumps) = Joined(data, first, j)
<1> DEFINE Q == {n \in Nat : j + n <= MaxJumps => Joined(data, first, j + n) = Joined(data, first, j)}
<1>1. 0 \in Q
  OBVIOUS
<1>2. ASSUME NEW n \in Nat, n \in Q PROVE n + 1 \in Q
  <2> SUFFICES ASSUME j + (n + 1) <= MaxJumps PROVE Joined(data, first, j + (n + 1)) = Joined(data, first, j)
    OBVIOUS
  <2>1. j + (n + 1) \in 1..MaxJumps /\ (j + (n + 1)) - 1 = j + n /\ j + n <= MaxJumps
    BY NameLimits
  <2>2. Joined(data, first, j + (n + 1)) = Jumped(data, Joined(data, first, j + n))
    BY <2>1, JoinedSteps
  <2>3. Joined(data, first, j + n) = Joined(data, first, j)
    BY <1>2, <2>1
  <2> QED BY <2>2, <2>3 DEF Jumped
<1>3. Nat \subseteq Q
  <2> HIDE DEF Q
  <2> QED BY <1>1, <1>2, AllNats
<1>4. MaxJumps - j \in Nat /\ j + (MaxJumps - j) = MaxJumps
  BY NameLimits
<1>5. MaxJumps - j \in Q
  BY <1>3, <1>4
<1> QED BY <1>4, <1>5

-------------------------------------------------------------------------------
\* The reader follows the reference.

\* A reader of the message from the offset, and the reference of what is left to read.
Follows(r, data, offset) ==
  LET first == Segments(data)[offset]
  IN  /\ r.labels \in Seq(Seq(Byte))
      /\ r.outcome = "reading" =>
           /\ r.position \in 0..Len(data) /\ offset \in 0..Len(data)
           /\ Joined(data, first, r.jumps) = Continued(r.labels, Segments(data)[r.position])
           /\ r.jumps = 0 => r.after = {}
           /\ r.jumps > 0 => first.kind = "pointer" /\ r.after = {first.at + 2}
      /\ r.outcome = "name" =>
           /\ Joined(data, first, r.jumps).kind = "end" /\ Joined(data, first, r.jumps).labels = r.labels
           /\ r.after = {first.at + IF first.kind = "pointer" THEN 2 ELSE 1}

\* What Continued leaves of a segment.
LEMMA ContinuedFields ==
  ASSUME NEW data, NEW s, IsSegment(s, data), NEW labels, labels \in Seq(Seq(Byte))
  PROVE  /\ Continued(labels, s).kind = s.kind /\ Continued(labels, s).at = s.at
         /\ Continued(labels, s).labels = labels \o s.labels
         /\ Continued(<<>>, s) = s
         /\ Continued(labels, s) = [labels |-> labels \o s.labels, kind |-> s.kind, at |-> s.at]
<1>1. s.labels \in Seq(Seq(Byte)) /\ <<>> \o s.labels = s.labels
  BY DEF IsSegment
<1> DEFINE a == s.labels
           b == s.kind
           c == s.at
<1>2. s = [labels |-> a, kind |-> b, at |-> c]
  BY DEF IsSegment
<1> HIDE DEF a, b, c
<1>3. ASSUME NEW l PROVE Continued(l, s) = [labels |-> l \o a, kind |-> b, at |-> c]
  <2>1. \A w : [s EXCEPT !.labels = w] = [labels |-> w, kind |-> b, at |-> c]
    BY <1>2
  <2>2. Continued(l, s) = [s EXCEPT !.labels = l \o a]
    BY DEF Continued, a
  <2> QED BY <2>1, <2>2
<1>4. /\ Continued(labels, s) = [labels |-> labels \o a, kind |-> b, at |-> c]
      /\ Continued(<<>>, s) = [labels |-> <<>> \o a, kind |-> b, at |-> c]
  BY <1>3
<1>5. s.labels = a /\ s.kind = b /\ s.at = c
  BY DEF a, b, c
<1> QED BY <1>1, <1>2, <1>4, <1>5

\* Joined is the fold that NameIsReference states.
LEMMA JoinedIsFold ==
  ASSUME NEW data, NEW first
  PROVE  FoldLeft(LAMBDA s, i : IF s.kind # "pointer" THEN s
                                ELSE LET t == Segments(data)[(At(data, s.at) - PointerMask) * 256
                                                               + At(data, s.at + 1)]
                                     IN  [t EXCEPT !.labels = s.labels \o @],
                  first, [i \in 1..MaxJumps |-> i])
         = Joined(data, first, MaxJumps)
<1>1. DOMAIN [i \in 1..MaxJumps |-> i] = 1..MaxJumps
  OBVIOUS
<1> QED BY <1>1, Zenon
        DEF FoldLeft, MapThenFoldSet, Joined, Joining, IsJoining, JoinTurn, Jumped, Continued, PointedAt

\* Each step of the loop keeps up with the reference.
LEMMA StopFollows ==
  ASSUME NEW data, NEW offset, NEW r, IsReader(r), Follows(r, data, offset),
         NEW outcome \in {"truncated", "malformed"}
  PROVE  Follows(Stop(r, outcome), data, offset)
<1> DEFINE s == Stop(r, outcome)
<1>1. s.labels = r.labels /\ s.outcome = outcome
  BY DEF Stop, IsReader, Fields
<1> HIDE DEF s
<1> QED BY <1>1 DEF Follows, s

LEMMA FinishFollows ==
  ASSUME NEW data \in Seq(Byte), NEW offset, NEW r, IsReader(r), Follows(r, data, offset),
         r.outcome = "reading", r.position < Len(data), At(data, r.position) = 0
  PROVE  Follows(Finish(r), data, offset)
<1> DEFINE s == Finish(r)
           first == Segments(data)[offset]
           here == Segments(data)[r.position]
<1>1. s.labels = r.labels /\ s.jumps = r.jumps /\ s.after = AfterFirst(r, r.position + 1) /\ s.outcome = "name"
  BY DEF Finish, IsReader, Fields
<1>2. /\ r.position \in 0..Len(data) /\ r.labels \in Seq(Seq(Byte)) /\ offset \in 0..Len(data)
      /\ Joined(data, first, r.jumps) = Continued(r.labels, here) /\ r.jumps \in Nat
      /\ r.jumps = 0 => r.after = {}
      /\ r.jumps > 0 => first.kind = "pointer" /\ r.after = {first.at + 2}
  BY NameLimits DEF Follows, IsReader
<1>3. here = Stand("end", r.position) /\ IsSegment(here, data)
  BY <1>2, SegmentAt
<1>4. here.labels = <<>> /\ here.kind = "end" /\ here.at = r.position
  BY <1>3 DEF Stand
<1> HIDE DEF s, first, here
<1>5. /\ Joined(data, first, r.jumps).kind = "end"
      /\ Joined(data, first, r.jumps).labels = r.labels \o <<>>
      /\ Joined(data, first, r.jumps).at = r.position
  <2>1. /\ Continued(r.labels, here).kind = here.kind /\ Continued(r.labels, here).at = here.at
        /\ Continued(r.labels, here).labels = r.labels \o here.labels
    BY <1>2, <1>3, ContinuedFields, ZenonT(40)
  <2> QED BY <1>2, <1>4, <2>1
<1>6. r.labels \o <<>> = r.labels
  BY <1>2
<1>7. s.after = {first.at + IF first.kind = "pointer" THEN 2 ELSE 1}
  <2>1. CASE r.jumps = 0
    <3>1. Joined(data, first, 0) = first
      BY JoinedSteps
    <3>2. first.kind = "end" /\ first.at = r.position
      BY <1>5, <2>1, <3>1
    <3> QED BY <1>1, <1>2, <2>1, <3>2 DEF AfterFirst
  <2>2. CASE r.jumps > 0
    BY <1>1, <1>2, <2>2 DEF AfterFirst
  <2> QED BY <1>2, <2>1, <2>2
<1> QED BY <1>1, <1>2, <1>5, <1>6, <1>7 DEF Follows, s, first

LEMMA FollowFollows ==
  ASSUME NEW data \in Seq(Byte), NEW offset, NEW r, IsReader(r), Follows(r, data, offset),
         r.outcome = "reading", r.position + 1 < Len(data), At(data, r.position) >= PointerMask
  PROVE  Follows(Follow(data, r), data, offset)
<1> DEFINE high == At(data, r.position)
           low == At(data, r.position + 1)
           target == (high - PointerMask) * 256 + low
           s == [r EXCEPT !.position = target, !.jumps = @ + 1, !.after = AfterFirst(r, r.position + 2)]
           first == Segments(data)[offset]
           here == Segments(data)[r.position]
           there == Segments(data)[target]
<1>1. CASE target >= r.position \/ r.jumps = MaxJumps
  BY <1>1, StopFollows DEF Follow
<1>2. CASE ~(target >= r.position \/ r.jumps = MaxJumps)
  <2>1. Follow(data, r) = s
    BY <1>2 DEF Follow
  <2>2. /\ s.position = target /\ s.jumps = r.jumps + 1 /\ s.labels = r.labels
        /\ s.after = AfterFirst(r, r.position + 2) /\ s.outcome = "reading"
    BY DEF IsReader, Fields
  <2>3. /\ r.position \in 0..Len(data) /\ r.labels \in Seq(Seq(Byte)) /\ offset \in 0..Len(data)
        /\ Joined(data, first, r.jumps) = Continued(r.labels, here) /\ r.jumps \in 0..MaxJumps
        /\ r.jumps = 0 => r.after = {}
        /\ r.jumps > 0 => first.kind = "pointer" /\ r.after = {first.at + 2}
    BY DEF Follows, IsReader
  <2>4. target \in Nat
    <3>1. r.position < Len(data) /\ r.position \in Nat /\ r.position + 1 \in Nat
      BY <2>3
    <3>2. high \in 0..255 /\ low \in 0..255 /\ high >= PointerMask
      BY <3>1, ByteAt
    <3> HIDE DEF high, low
    <3> QED BY <3>2 DEF PointerMask
  <2>5. here = Stand("pointer", r.position) /\ IsSegment(here, data)
    BY <2>3, SegmentAt
  <2>6. here.labels = <<>> /\ here.kind = "pointer" /\ here.at = r.position
    BY <2>5 DEF Stand
  <2>7. target = PointedAt(data, r.position)
    BY DEF PointedAt
  <2> HIDE DEF s, first, here, there, target
  <2>8. target \in 0..Len(data) /\ r.jumps + 1 \in 1..MaxJumps /\ (r.jumps + 1) - 1 = r.jumps
    BY <1>2, <2>3, <2>4, NameLimits, SMTT(30)
  <2>9. /\ Joined(data, first, r.jumps).kind = "pointer"
        /\ Joined(data, first, r.jumps).labels = r.labels
        /\ Joined(data, first, r.jumps).at = r.position
    <3>1. r.labels \o <<>> = r.labels
      BY <2>3
    <3>2. /\ Continued(r.labels, here).kind = here.kind /\ Continued(r.labels, here).at = here.at
          /\ Continued(r.labels, here).labels = r.labels \o here.labels
      BY <2>3, <2>5, ContinuedFields, ZenonT(40)
    <3> QED BY <2>3, <2>6, <3>1, <3>2
  <2>10. Joined(data, first, r.jumps + 1) = Continued(r.labels, there)
    <3>1. Joined(data, first, r.jumps + 1) = Jumped(data, Joined(data, first, r.jumps))
      <4>1. Joined(data, first, r.jumps + 1) = Jumped(data, Joined(data, first, (r.jumps + 1) - 1))
        BY <2>8, JoinedSteps, ZenonT(40)
      <4> QED BY <2>8, <4>1
    <3> QED BY <2>7, <2>9, <3>1 DEF Jumped, there
  <2>11. first.kind = "pointer" /\ s.after = {first.at + 2}
    <3>1. CASE r.jumps = 0
      <4>1. Joined(data, first, 0) = first
        BY JoinedSteps
      <4>2. first.kind = "pointer" /\ first.at = r.position
        BY <2>9, <3>1, <4>1
      <4> QED BY <2>2, <2>3, <3>1, <4>2 DEF AfterFirst
    <3>2. CASE r.jumps > 0
      BY <2>2, <2>3, <3>2 DEF AfterFirst
    <3> QED BY <2>3, <3>1, <3>2, NameLimits
  <2>12. r.jumps + 1 # 0 /\ r.jumps + 1 > 0
    BY <2>3
  <2>13. Follows(s, data, offset)
    BY <2>2, <2>3, <2>8, <2>10, <2>11, <2>12 DEF Follows, first, there
  <2> QED BY <2>1, <2>13
<1> QED BY <1>1, <1>2

LEMMA OneMore ==
  ASSUME NEW S, NEW s, s \in Seq(S), NEW e, e \in S, NEW t, t \in Seq(S)
  PROVE  s \o (<<e>> \o t) = Append(s, e) \o t
<1>1. <<e>> \in Seq(S)
  OBVIOUS
<1>2. s \o (<<e>> \o t) = (s \o <<e>>) \o t
  BY <1>1, ConcatAssociative
<1>3. Append(s, e) = s \o <<e>>
  BY AppendIsConcat
<1> QED BY <1>2, <1>3

LEMMA TakeLabelFollows ==
  ASSUME NEW data \in Seq(Byte), NEW offset, NEW r, IsReader(r), Follows(r, data, offset),
         r.outcome = "reading", NEW size \in 1..MaxLabel, size = At(data, r.position),
         r.position + 1 + size <= Len(data)
  PROVE  Follows(TakeLabel(data, r, size), data, offset)
<1> DEFINE label == LabelAt(data, r.position, size)
           longer == [r EXCEPT !.position = @ + 1 + size, !.length = @ + size + 1,
                               !.labels = Append(@, label)]
           first == Segments(data)[offset]
           here == Segments(data)[r.position]
           there == Segments(data)[r.position + 1 + size]
<1>1. /\ DOMAIN longer = Fields /\ longer.position = r.position + 1 + size /\ longer.jumps = r.jumps
      /\ longer.after = r.after /\ longer.labels = Append(r.labels, label) /\ longer.outcome = "reading"
  BY DEF IsReader, Fields
<1>2. TakeLabel(data, r, size) \in {longer, Stop(longer, "malformed")}
  BY DEF TakeLabel, LabelAt
<1>3. /\ r.position \in 0..Len(data) /\ r.labels \in Seq(Seq(Byte)) /\ offset \in 0..Len(data)
      /\ Joined(data, first, r.jumps) = Continued(r.labels, here)
      /\ r.jumps = 0 => r.after = {}
      /\ r.jumps > 0 => first.kind = "pointer" /\ r.after = {first.at + 2}
  BY DEF Follows
<1>4. label \in Seq(Byte) /\ here = Prefixed(label, there)
  BY <1>3, SegmentAt
<1>5. r.position + 1 + size \in 0..Len(data)
  <2>1. size \in Nat
    <3>1. \A n \in 1..MaxLabel : n \in Nat
      BY DEF MaxLabel
    <3> QED BY <3>1, Zenon
  <2>2. r.position \in Nat
    BY DEF Follows
  <2> QED BY <2>1, <2>2
<1>6. IsSegment(there, data)
  BY <1>5, SegmentAt
<1> HIDE DEF longer, first, here, there, label
<1>7. /\ IsSegment(here, data) /\ here.labels = <<label>> \o there.labels
      /\ here.kind = there.kind /\ here.at = there.at
  BY <1>4, <1>6, PrefixedIsSegment
<1>8. Append(r.labels, label) \in Seq(Seq(Byte))
  BY <1>3, <1>4
<1>9. Continued(r.labels, here) = Continued(Append(r.labels, label), there)
  <2>1. r.labels \o (<<label>> \o there.labels) = Append(r.labels, label) \o there.labels
    <3>1. there.labels \in Seq(Seq(Byte)) /\ <<label>> \in Seq(Seq(Byte))
      BY <1>4, <1>6 DEF IsSegment
    <3> DEFINE a == r.labels
               c == there.labels
    <3>2. a \in Seq(Seq(Byte)) /\ c \in Seq(Seq(Byte))
      BY <1>3, <3>1
    <3> HIDE DEF a, c
    <3> DEFINE S == Seq(Byte)
    <3>3. a \in Seq(S) /\ c \in Seq(S) /\ label \in S
      BY <1>4, <3>2
    <3> HIDE DEF S
    <3>4. a \o (<<label>> \o c) = Append(a, label) \o c
      BY <3>3, OneMore
    <3> QED BY <3>4 DEF a, c
  <2>2. Continued(r.labels, here) = [labels |-> r.labels \o here.labels, kind |-> here.kind, at |-> here.at]
    BY <1>3, <1>7, ContinuedFields, Zenon
  <2>3. Continued(Append(r.labels, label), there)
          = [labels |-> Append(r.labels, label) \o there.labels, kind |-> there.kind, at |-> there.at]
    BY <1>6, <1>8, ContinuedFields, Zenon
  <2> QED BY <1>7, <2>1, <2>2, <2>3
<1>10. Follows(longer, data, offset)
  BY <1>1, <1>3, <1>5, <1>8, <1>9 DEF Follows, first, there
<1>11. Follows(Stop(longer, "malformed"), data, offset)
  <2>1. Stop(longer, "malformed").labels = longer.labels /\ Stop(longer, "malformed").outcome = "malformed"
    BY <1>1 DEF Stop, Fields
  <2> QED BY <1>1, <1>8, <2>1 DEF Follows
<1> QED BY <1>2, <1>10, <1>11

LEMMA TurnFollows ==
  ASSUME NEW data \in Seq(Byte), NEW offset \in Nat, NEW r, IsReader(r), Follows(r, data, offset),
         r.outcome = "reading"
  PROVE  Follows(Turn(data, r), data, offset)
<1> DEFINE size == At(data, r.position)
           IsKept(s) == Follows(s, data, offset)
<1> SUFFICES IsKept(Turn(data, r))
  OBVIOUS
<1>1. r.position \in Nat
  BY DEF IsReader
<1>2. IsKept(Stop(r, "truncated")) /\ IsKept(Stop(r, "malformed"))
  BY StopFollows
<1>3. r.position + 1 < Len(data) /\ size >= PointerMask => IsKept(Follow(data, r))
  BY FollowFollows
<1>4. r.position < Len(data) /\ size = 0 => IsKept(Finish(r))
  BY FinishFollows
<1>5. size \in 1..MaxLabel /\ r.position + 1 + size <= Len(data) => IsKept(TakeLabel(data, r, size))
  BY TakeLabelFollows
<1> HIDE DEF IsKept
<1> QED BY <1>1, <1>2, <1>3, <1>4, <1>5, TurnIsStep

LEMMA ReaderKeepsUp == RInv /\ Follows(reader, message[1], message[2]) /\ [Read]_readerVars
                         => Follows(reader, message[1], message[2])'
<1> SUFFICES ASSUME RInv, Follows(reader, message[1], message[2]), [Read]_readerVars
             PROVE  Follows(reader', message'[1], message'[2])
  BY DEF Follows, Joined, Joining, IsJoining, JoinTurn, Jumped, Continued, PointedAt
<1>1. CASE Read
  <2>1. /\ message' = message /\ reader' = Turn(message[1], reader)
        /\ reader.outcome = "reading" /\ message[1] \in Seq(Byte) /\ message[2] \in Nat /\ IsReader(reader)
    BY <1>1 DEF Read, RInv
  <2> QED BY <2>1, TurnFollows
<1>2. CASE UNCHANGED readerVars
  BY <1>2 DEF readerVars
<1> QED BY <1>1, <1>2

LEMMA ReaderStartsOnReference == ReaderInit => Follows(reader, message[1], message[2])
<1> SUFFICES ASSUME ReaderInit PROVE Follows(reader, message[1], message[2])
  OBVIOUS
<1> DEFINE data == message[1]
           offset == message[2]
<1>1. data \in Seq(Byte) /\ offset \in Nat /\ reader = Start(data, offset)
  BY MessagesAreBytes DEF ReaderInit
<1> HIDE DEF data, offset
<1>2. /\ reader.labels = <<>> /\ reader.position = offset /\ reader.jumps = 0 /\ reader.after = {}
      /\ reader.outcome = IF offset < Len(data) THEN "reading" ELSE "truncated"
  BY <1>1 DEF Start
<1>3. ASSUME offset < Len(data)
      PROVE  Joined(data, Segments(data)[offset], 0) = Continued(<<>>, Segments(data)[offset])
  <2>1. offset \in 0..Len(data)
    BY <1>1, <1>3
  <2>2. IsSegment(Segments(data)[offset], data)
    BY <1>1, <2>1, SegmentAt
  <2>3. <<>> \in Seq(Seq(Byte))
    OBVIOUS
  <2>4. Continued(<<>>, Segments(data)[offset]) = Segments(data)[offset]
    BY <2>2, <2>3, ContinuedFields, Zenon
  <2> QED BY <2>4, JoinedSteps
<1>4. reader.labels \in Seq(Seq(Byte))
  BY <1>2
<1>5. Follows(reader, data, offset)
  <2>1. CASE offset < Len(data)
    BY <1>1, <1>2, <1>3, <1>4, <2>1 DEF Follows
  <2>2. CASE ~(offset < Len(data))
    BY <1>2, <1>4, <2>2 DEF Follows
  <2> QED BY <2>1, <2>2
<1> QED BY <1>5 DEF data, offset

\* The name that read_name (src/ids/parsers/dns.py) returns is the labels of the segments that the pointers
\* join, and its caller goes on behind the first of them, for every message and every limit.
THEOREM NamesAreReference == ReaderSpec => []NameIsReference
<1>1. RInv /\ Follows(reader, message[1], message[2]) => NameIsReference
  <2> SUFFICES ASSUME RInv, Follows(reader, message[1], message[2]), reader.outcome = "name"
               PROVE  NameIsReference
    BY DEF NameIsReference
  <2> DEFINE first == Segments(message[1])[message[2]]
             joined == Joined(message[1], first, MaxJumps)
  <2>1. /\ Joined(message[1], first, reader.jumps).kind = "end"
        /\ Joined(message[1], first, reader.jumps).labels = reader.labels
        /\ reader.after = {first.at + IF first.kind = "pointer" THEN 2 ELSE 1}
    BY DEF Follows
  <2>2. joined = Joined(message[1], first, reader.jumps)
    <3>1. reader.jumps \in 0..MaxJumps
      BY DEF RInv, IsReader
    <3> HIDE DEF first
    <3> QED BY <2>1, <3>1, JoinedStays
  <2>3. joined.kind = "end" /\ reader.labels = joined.labels
    BY <2>1, <2>2
  <2> HIDE DEF first, joined
  <2> QED BY <2>1, <2>3, JoinedIsFold, Zenon DEF NameIsReference, first, joined
<1> QED BY ReaderStartsWithin, ReaderStepKeeps, ReaderStartsOnReference, ReaderKeepsUp, <1>1, PTL DEF ReaderSpec

-------------------------------------------------------------------------------
\* The lines of a file.

\* The number of lines that end up to position p.
LinesUpTo(f, p) == Cardinality({i \in LineEnds(f) : i <= p})

LEMMA EndsAreFinite ==
  ASSUME NEW S, NEW f \in Seq(S)
  PROVE  /\ LineEnds(f) \in SUBSET (1..Len(f)) /\ IsFiniteSet(LineEnds(f)) /\ Cardinality(LineEnds(f)) \in Nat
         /\ \A p \in Nat : /\ IsFiniteSet({i \in LineEnds(f) : i <= p}) /\ LinesUpTo(f, p) \in Nat
                           /\ LinesUpTo(f, p) <= Cardinality(LineEnds(f))
         /\ LinesUpTo(f, 0) = 0 /\ LinesUpTo(f, Len(f)) = Cardinality(LineEnds(f))
<1>1. Len(f) \in Nat /\ DOMAIN f = 1..Len(f) /\ LineEnds(f) \in SUBSET (1..Len(f))
  BY DEF LineEnds
<1>2. IsFiniteSet(LineEnds(f)) /\ Cardinality(LineEnds(f)) \in Nat
  <2>1. IsFiniteSet(1..Len(f))
    BY <1>1, FS_Interval
  <2> QED BY <1>1, <2>1, FS_Subset, FS_CardinalityType
<1>3. ASSUME NEW p \in Nat
      PROVE  /\ IsFiniteSet({i \in LineEnds(f) : i <= p}) /\ LinesUpTo(f, p) \in Nat
             /\ LinesUpTo(f, p) <= Cardinality(LineEnds(f))
  <2>1. {i \in LineEnds(f) : i <= p} \in SUBSET LineEnds(f)
    OBVIOUS
  <2> QED BY <1>2, <2>1, FS_Subset, FS_CardinalityType DEF LinesUpTo
<1>4. LinesUpTo(f, 0) = 0
  <2>1. {i \in LineEnds(f) : i <= 0} = {}
    BY <1>1
  <2> QED BY <2>1, FS_EmptySet DEF LinesUpTo
<1>5. {i \in LineEnds(f) : i <= Len(f)} = LineEnds(f)
  BY <1>1
<1> QED BY <1>1, <1>2, <1>3, <1>4, <1>5 DEF LinesUpTo

\* The next line end.
IsNextEnd(f, q, e) ==
  /\ q \in Nat /\ (q = 0 \/ q \in LineEnds(f))
  /\ e \in LineEnds(f) /\ q < e /\ \A i \in LineEnds(f) : ~(q < i /\ i < e)

LEMMA NextIsCounted ==
  ASSUME NEW S, NEW f \in Seq(S), NEW q, NEW e, IsNextEnd(f, q, e)
  PROVE  LinesUpTo(f, e) = LinesUpTo(f, q) + 1
<1> DEFINE A == {i \in LineEnds(f) : i <= q}
           B == {i \in LineEnds(f) : i <= e}
<1>1. q \in Nat /\ e \in Nat /\ LineEnds(f) \in SUBSET Nat /\ q < e /\ e \in LineEnds(f)
  BY EndsAreFinite DEF IsNextEnd
<1>2. B = A \cup {e} /\ e \notin A
  BY <1>1 DEF IsNextEnd
<1>3. IsFiniteSet(A)
  BY <1>1, EndsAreFinite
<1> HIDE DEF A, B
<1>4. Cardinality(B) = Cardinality(A) + 1
  BY <1>2, <1>3, FS_AddElement
<1> QED BY <1>4 DEF LinesUpTo, A, B

LEMMA EndsAreOrdered ==
  ASSUME NEW S, NEW f \in Seq(S), NEW a \in LineEnds(f), NEW b \in LineEnds(f), LinesUpTo(f, a) = LinesUpTo(f, b)
  PROVE  a = b
<1>1. a \in Nat /\ b \in Nat
  BY EndsAreFinite
<1>2. ASSUME NEW x \in LineEnds(f), NEW y \in LineEnds(f), x < y PROVE LinesUpTo(f, x) < LinesUpTo(f, y)
  <2> DEFINE A == {i \in LineEnds(f) : i <= x}
             B == {i \in LineEnds(f) : i <= y}
  <2>1. x \in Nat /\ y \in Nat /\ LineEnds(f) \in SUBSET Nat
    BY EndsAreFinite
  <2>2. A \in SUBSET B /\ y \in B /\ y \notin A
    BY <1>2, <2>1
  <2>3. IsFiniteSet(B) /\ IsFiniteSet(A)
    BY <2>1, EndsAreFinite
  <2> HIDE DEF A, B
  <2>4. Cardinality(A) <= Cardinality(B) /\ Cardinality(A) # Cardinality(B)
    BY <2>2, <2>3, FS_Subset
  <2>5. Cardinality(A) \in Nat /\ Cardinality(B) \in Nat
    BY <2>3, FS_CardinalityType
  <2>6. Cardinality(A) < Cardinality(B)
    BY <2>4, <2>5
  <2> QED BY <2>6 DEF LinesUpTo, A, B
<1>3. LinesUpTo(f, a) \in Nat
  BY <1>1, EndsAreFinite
<1> QED BY <1>1, <1>2, <1>3

\* The line that stands between an end and the next.
LEMMA LineIsBetween ==
  ASSUME NEW S, NEW f \in Seq(S), NEW q, NEW e, IsNextEnd(f, q, e)
  PROVE  LineTo(f, e) = Without(Without(SubSeq(f, q + 1, e), "LF"), "CR")
<1> DEFINE before == {i \in LineEnds(f) : i < e}
<1>1. LineEnds(f) \in SUBSET (1..Len(f)) /\ Len(f) \in Nat /\ q \in Nat
  BY EndsAreFinite DEF IsNextEnd
<1>2. \A i \in before : i <= q
  BY <1>1 DEF IsNextEnd
<1>3. CASE q = 0
  <2>1. before = {}
    BY <1>1, <1>2, <1>3
  <2> QED BY <1>3, <2>1 DEF LineTo
<1>4. CASE q # 0
  <2>1. q \in before
    BY <1>4 DEF IsNextEnd
  <2>2. before \in SUBSET (0..Len(f))
    BY <1>1
  <2> HIDE DEF before
  <2>3. Max(before) \in before /\ Max(before) >= q
    BY <1>1, <2>1, <2>2, MaxIsGreatest
  <2>4. Max(before) = q
    <3>1. \A m \in before : m >= q => m = q
      BY <1>1, <1>2, <2>2
    <3> QED BY <2>3, <3>1
  <2> QED BY <2>1, <2>4 DEF LineTo, before
<1> QED BY <1>3, <1>4

LEMMA LineIsNext ==
  ASSUME NEW S, NEW f \in Seq(S), NEW q, NEW e, IsNextEnd(f, q, e)
  PROVE  LET n == LinesUpTo(f, q) + 1
         IN  /\ n \in DOMAIN LinesOf(f) /\ LinesUpTo(f, e) = n
             /\ LinesOf(f)[n] = Without(Without(SubSeq(f, q + 1, e), "LF"), "CR")
<1> DEFINE n == LinesUpTo(f, q) + 1
<1>1. q \in Nat /\ e \in Nat /\ e \in LineEnds(f)
  BY EndsAreFinite DEF IsNextEnd
<1>2. LinesUpTo(f, e) = n
  BY NextIsCounted
<1>3. n \in 1..Cardinality(LineEnds(f))
  <2>1. LinesUpTo(f, q) \in Nat /\ LinesUpTo(f, e) \in Nat /\ LinesUpTo(f, e) <= Cardinality(LineEnds(f))
        /\ Cardinality(LineEnds(f)) \in Nat
    BY <1>1, EndsAreFinite
  <2> QED BY <1>2, <2>1
<1> HIDE DEF n
<1>4. (CHOOSE x \in LineEnds(f) : LinesUpTo(f, x) = n) = e
  BY <1>1, <1>2, EndsAreOrdered
<1>5. LinesOf(f)[n] = LineTo(f, CHOOSE x \in LineEnds(f) : LinesUpTo(f, x) = n)
  BY <1>3 DEF LinesOf, LinesUpTo
<1>7. LinesOf(f)[n] = LineTo(f, e)
  BY <1>4, <1>5, Zenon
<1>6. n \in DOMAIN LinesOf(f)
  BY <1>3 DEF LinesOf
<1>8. LineTo(f, e) = Without(Without(SubSeq(f, q + 1, e), "LF"), "CR")
  BY LineIsBetween
<1> QED BY <1>2, <1>6, <1>7, <1>8 DEF n

-------------------------------------------------------------------------------
\* Parts of a file.

\* What stands behind position p, up to position q.
Slice(f, p, q) == SubSeq(f, p + 1, q)
IsPart(f, p, q) == p \in Nat /\ q \in Nat /\ p <= q /\ q <= Len(f)

LEMMA SliceIs ==
  ASSUME NEW S, NEW f, f \in Seq(S), NEW p, NEW q, IsPart(f, p, q)
  PROVE  /\ Slice(f, p, q) \in Seq(S) /\ Len(Slice(f, p, q)) = q - p
         /\ \A i \in 1..(q - p) : Slice(f, p, q)[i] = f[p + i]
<1>0. p \in Nat /\ q \in Nat /\ p <= q /\ q <= Len(f)
  BY DEF IsPart
<1>1. p + 1 \in Int /\ q \in Int /\ \A i \in (p + 1)..q : f[i] \in S
  BY <1>0
<1>2. /\ Slice(f, p, q) \in Seq(S)
      /\ Len(Slice(f, p, q)) = IF p + 1 <= q THEN q - (p + 1) + 1 ELSE 0
      /\ \A i \in 1..(q - (p + 1) + 1) : Slice(f, p, q)[i] = f[(p + 1) + i - 1]
  BY <1>1, SubSeqProperties DEF Slice
<1>3. q - (p + 1) + 1 = q - p /\ (~(p + 1 <= q) => q - p = 0) /\ \A i \in Int : (p + 1) + i - 1 = p + i
  BY <1>0
<1>4. \A i \in 1..(q - p) : Slice(f, p, q)[i] = f[p + i]
  BY <1>0, <1>2, <1>3
<1> QED BY <1>2, <1>3, <1>4

LEMMA SliceAt ==
  ASSUME NEW S, NEW f, f \in Seq(S), NEW p, NEW q, IsPart(f, p, q), NEW s, s = Slice(f, p, q)
  PROVE  \A i \in 1..(q - p) : s[i] = f[p + i]
BY SliceIs

LEMMA SliceOfSlice ==
  ASSUME NEW S, NEW f, f \in Seq(S), NEW p, NEW q, IsPart(f, p, q), NEW a \in Nat, NEW b \in Nat, a <= b, b <= q - p
  PROVE  Slice(Slice(f, p, q), a, b) = Slice(f, p + a, p + b)
<1> DEFINE s == Slice(f, p, q)
           t == Slice(s, a, b)
           u == Slice(f, p + a, p + b)
<1>0. p \in Nat /\ q \in Nat /\ p <= q /\ q <= Len(f)
  BY DEF IsPart
<1>1. s \in Seq(S) /\ Len(s) = q - p /\ \A i \in 1..(q - p) : s[i] = f[p + i]
  BY SliceIs
<1>2. t \in Seq(S) /\ Len(t) = b - a /\ \A i \in 1..(b - a) : t[i] = s[a + i]
  <2> HIDE DEF s
  <2>1. IsPart(s, a, b)
    BY <1>1 DEF IsPart
  <2>2. t \in Seq(S)
    BY <1>1, <2>1, SliceIs
  <2>3. Len(t) = b - a
    BY <1>1, <2>1, SliceIs
  <2>4. \A i \in 1..(b - a) : t[i] = s[a + i]
    <3>1. s \in Seq(S)
      BY <1>1
    <3>2. t = Slice(s, a, b)
      OBVIOUS
    <3> HIDE DEF t
    <3> QED BY <2>1, <3>1, <3>2, SliceAt
  <2> QED BY <2>2, <2>3, <2>4
<1>3. p + a \in Nat /\ p + b \in Nat /\ p + a <= p + b /\ p + b <= Len(f) /\ (p + b) - (p + a) = b - a
  BY <1>0
<1>4. u \in Seq(S) /\ Len(u) = b - a /\ \A i \in 1..(b - a) : u[i] = f[(p + a) + i]
  <2>1. IsPart(f, p + a, p + b)
    BY <1>3 DEF IsPart
  <2>2. u \in Seq(S)
    BY <2>1, SliceIs
  <2>3. Len(u) = (p + b) - (p + a)
    BY <2>1, SliceIs
  <2>4. \A i \in 1..((p + b) - (p + a)) : u[i] = f[(p + a) + i]
    BY <2>1, SliceIs
  <2> HIDE DEF u
  <2> QED BY <1>3, <2>2, <2>3, <2>4
<1> HIDE DEF s, t, u
<1>5. \A i \in 1..(b - a) : t[i] = u[i]
  <2> SUFFICES ASSUME NEW i \in 1..(b - a) PROVE t[i] = u[i]
    OBVIOUS
  <2>1. a + i \in 1..(q - p) /\ p + (a + i) = (p + a) + i
    BY <1>0
  <2>2. t[i] = f[p + (a + i)]
    BY <1>1, <1>2, <2>1
  <2>3. u[i] = f[(p + a) + i]
    BY <1>4
  <2> QED BY <2>1, <2>2, <2>3
<1>6. t = u
  BY <1>2, <1>4, <1>5, SeqEqual
<1> QED BY <1>6 DEF s, t, u

LEMMA WholeSlice ==
  ASSUME NEW S, NEW f, f \in Seq(S)
  PROVE  Slice(f, 0, Len(f)) = f
BY SubSeqFull DEF Slice

\* What one readline gives: it stops behind a line end, at its limit or at the end of the file.
LEMMA ChunkStops ==
  ASSUME NEW S, NEW s, s \in Seq(S), NEW n \in Nat \ {0}
  PROVE  \E m \in 0..Len(s) : /\ Chunk(s, n) = Slice(s, 0, m) /\ m <= n
                              /\ \A i \in 1..m : s[i] = "LF" => i = m
                              /\ m = n \/ m = Len(s) \/ (m > 0 /\ s[m] = "LF")
                              /\ s # <<>> => m > 0
<1> DEFINE stops == {i \in DOMAIN s : s[i] = "LF" \/ i = n}
<1>1. Len(s) \in Nat /\ DOMAIN s = 1..Len(s) /\ (s # <<>> => Len(s) > 0)
  OBVIOUS
<1>2. CASE stops = {}
  <2>1. Chunk(s, n) = s /\ s = Slice(s, 0, Len(s))
    BY <1>2, WholeSlice DEF Chunk
  <2>2. Len(s) <= n /\ \A i \in 1..Len(s) : s[i] # "LF"
    BY <1>1, <1>2
  <2>3. Len(s) \in 0..Len(s)
    BY <1>1
  <2> QED BY <1>1, <2>1, <2>2, <2>3, Zenon
<1>3. CASE stops # {}
  <2>1. stops \in SUBSET Nat
    BY <1>1
  <2>2. PICK m \in stops : \A i \in stops : m <= i
    <3> HIDE DEF stops
    <3> QED BY <1>3, <2>1, LeastNat
  <2>3. Min(stops) = m
    <3>1. \A x \in stops : (\A y \in stops : x <= y) => x = m
      BY <2>1, <2>2
    <3> HIDE DEF stops
    <3> QED BY <2>2, <3>1 DEF Min
  <2>4. m \in 1..Len(s) /\ (s[m] = "LF" \/ m = n)
    BY <1>1
  <2>5. Chunk(s, n) = Slice(s, 0, m)
    <3>1. 0 + 1 = 1
      OBVIOUS
    <3> QED BY <1>3, <2>3, <3>1 DEF Chunk, Slice
  <2>6. m <= n
    <3>1. CASE n <= Len(s)
      <4>1. n \in stops
        BY <1>1, <3>1
      <4> QED BY <2>2, <4>1
    <3>2. CASE ~(n <= Len(s))
      BY <1>1, <2>4, <3>2
    <3> QED BY <3>1, <3>2
  <2>7. \A i \in 1..m : s[i] = "LF" => i = m
    <3> SUFFICES ASSUME NEW i \in 1..m, s[i] = "LF" PROVE i = m
      OBVIOUS
    <3>1. i \in stops
      BY <1>1, <2>4
    <3> QED BY <2>2, <2>4, <3>1
  <2>8. m \in 0..Len(s) /\ m > 0
    BY <1>1, <2>4
  <2> QED BY <2>4, <2>5, <2>6, <2>7, <2>8
<1> QED BY <1>2, <1>3

-------------------------------------------------------------------------------
\* The items of the lines, one line after the other.

FlatTurn(s, g, i) == IF i = 1 THEN s[i] ELSE g[i - 1] \o s[i]
IsFlattening(s, g) == g = [i \in 1..Len(s) |-> FlatTurn(s, g, i)]

LEMMA FlatteningExists ==
  ASSUME NEW s, Len(s) \in Nat
  PROVE  \E g : IsFlattening(s, g)
<1> DEFINE Approximates(g, n) == g = [i \in 1..n |-> FlatTurn(s, g, i)]
           Q == {n \in Nat : \E g : Approximates(g, n)}
<1>1. 0 \in Q
  <2> DEFINE h == [i \in 1..0 |-> FlatTurn(s, <<>>, i)]
  <2>1. h = [i \in 1..0 |-> FlatTurn(s, h, i)]
    OBVIOUS
  <2>2. Approximates(h, 0)
    BY <2>1
  <2> HIDE DEF Approximates, h
  <2> QED BY <2>2
<1>2. ASSUME NEW n \in Nat, n \in Q PROVE n + 1 \in Q
  <2>1. PICK f : Approximates(f, n)
    BY <1>2
  <2> DEFINE g == [i \in 1..(n + 1) |-> FlatTurn(s, f, i)]
  <2>2. \A i \in 1..n : g[i] = f[i]
    <3>1. \A i \in 1..n : f[i] = FlatTurn(s, f, i)
      BY <2>1
    <3> QED BY <3>1
  <2> HIDE DEF g
  <2>3. \A i \in 1..(n + 1) : FlatTurn(s, f, i) = FlatTurn(s, g, i)
    <3> SUFFICES ASSUME NEW i \in 1..(n + 1) PROVE FlatTurn(s, f, i) = FlatTurn(s, g, i)
      OBVIOUS
    <3>1. CASE i = 1
      BY <3>1 DEF FlatTurn
    <3>2. CASE i # 1
      <4>1. i - 1 \in 1..n
        BY <3>2
      <4>2. f[i - 1] = g[i - 1]
        BY <2>2, <4>1
      <4> QED BY <3>2, <4>2 DEF FlatTurn
    <3> QED BY <3>1, <3>2
  <2>4. g = [i \in 1..(n + 1) |-> FlatTurn(s, g, i)]
    BY <2>3 DEF g
  <2>5. Approximates(g, n + 1)
    BY <2>4
  <2> HIDE DEF Approximates
  <2> QED BY <2>5
<1>3. Nat \subseteq Q
  <2> HIDE DEF Q
  <2> QED BY <1>1, <1>2, AllNats
<1>4. \E g : Approximates(g, Len(s))
  BY <1>3
<1> QED BY <1>4 DEF IsFlattening

\* The first n of the sequences, flattened.
Flattened(s, n) == IF n = 0 THEN <<>> ELSE (CHOOSE g : IsFlattening(s, g))[n]

LEMMA FlatIsFunction ==
  ASSUME NEW s, Len(s) # 0
  PROVE  FlattenSeq(s) = Flattened(s, Len(s))
<1>1. FlattenSeq(s) = IF Len(s) = 0 THEN s ELSE (CHOOSE g : IsFlattening(s, g))[Len(s)]
  BY Zenon DEF FlattenSeq, IsFlattening, FlatTurn
<1> QED BY <1>1 DEF Flattened

LEMMA FlattenedIsFlat ==
  ASSUME NEW s, s = [i \in 1..Len(s) |-> s[i]], Len(s) \in Nat
  PROVE  FlattenSeq(s) = Flattened(s, Len(s))
<1>1. CASE Len(s) = 0
  <2>1. s = <<>>
    BY <1>1
  <2> QED BY <1>1, <2>1 DEF FlattenSeq, Flattened
<1>2. CASE Len(s) # 0
  BY <1>2, FlatIsFunction
<1> QED BY <1>1, <1>2

LEMMA FlattenedGrows ==
  ASSUME NEW s, Len(s) \in Nat, NEW n \in Nat, n + 1 <= Len(s), <<>> \o s[n + 1] = s[n + 1]
  PROVE  Flattened(s, n + 1) = Flattened(s, n) \o s[n + 1]
<1> DEFINE g == CHOOSE h : IsFlattening(s, h)
<1>1. IsFlattening(s, g)
  BY FlatteningExists, Zenon
<1> HIDE DEF g
<1>2. n + 1 \in 1..Len(s) /\ n + 1 # 0 /\ (n + 1) - 1 = n
  OBVIOUS
<1>3. g[n + 1] = FlatTurn(s, g, n + 1)
  BY <1>1, <1>2 DEF IsFlattening
<1>4. Flattened(s, n + 1) = g[n + 1]
  BY <1>2 DEF Flattened, g
<1>5. CASE n = 0
  <2>1. g[n + 1] = s[n + 1] /\ Flattened(s, n) = <<>>
    BY <1>3, <1>5 DEF FlatTurn, Flattened
  <2> QED BY <1>4, <2>1
<1>6. CASE n # 0
  <2>1. g[n + 1] = g[n] \o s[n + 1]
    <3>1. n + 1 # 1
      BY <1>6
    <3> QED BY <1>2, <1>3, <3>1 DEF FlatTurn
  <2>2. Flattened(s, n) = g[n]
    BY <1>6 DEF Flattened, g
  <2> QED BY <1>4, <2>1, <2>2
<1> QED BY <1>5, <1>6

\* The items of each line of a file, and those of its first n lines.
ItemLists(f) == [n \in DOMAIN LinesOf(f) |-> ItemsOf(LinesOf(f)[n], n)]
Gathered(f, n) == Flattened(ItemLists(f), n)
LineItem == [number : Nat, record : SUBSET Names]

LEMMA ItemsOfLine ==
  ASSUME NEW content, NEW n \in Nat
  PROVE  ItemsOf(content, n) = <<>> \/ \E i \in LineItem : ItemsOf(content, n) = <<i>>
<1>1. \A c : Parsed(c) \subseteq Names
  BY DEF Parsed
<1>2. BadLine(n) \in LineItem /\ \A c : [number |-> n, record |-> Parsed(c)] \in LineItem
  BY <1>1 DEF BadLine, LineItem
<1> QED BY <1>2, Zenon DEF ItemsOf

LEMMA GatheredGrows ==
  ASSUME NEW S, NEW f, f \in Seq(S), NEW n \in Nat, n + 1 \in DOMAIN LinesOf(f)
  PROVE  /\ Gathered(f, n + 1) = Gathered(f, n) \o ItemsOf(LinesOf(f)[n + 1], n + 1)
         /\ Gathered(f, n) \in Seq(LineItem) => Gathered(f, n + 1) \in Seq(LineItem)
<1> DEFINE s == ItemLists(f)
           x == ItemsOf(LinesOf(f)[n + 1], n + 1)
<1>1. Cardinality(LineEnds(f)) \in Nat /\ DOMAIN LinesOf(f) = 1..Cardinality(LineEnds(f))
  BY EndsAreFinite DEF LinesOf
<1>2. Len(s) = Cardinality(LineEnds(f)) /\ s[n + 1] = x
  BY <1>1 DEF ItemLists
<1>3. x = <<>> \/ \E i \in LineItem : x = <<i>>
  BY ItemsOfLine
<1> HIDE DEF s, x
<1>4. <<>> \o x = x /\ x \in Seq(LineItem)
  <2>1. <<>> \in Seq(LineItem) /\ \A i \in LineItem : <<i>> \in Seq(LineItem)
    OBVIOUS
  <2>2. x \in Seq(LineItem)
    BY <1>3, <2>1
  <2> QED BY <2>2
<1>5. Len(s) \in Nat /\ n + 1 <= Len(s)
  BY <1>1, <1>2
<1>6. Flattened(s, n + 1) = Flattened(s, n) \o x
  BY <1>2, <1>4, <1>5, FlattenedGrows
<1>7. \A t \in Seq(LineItem) : t \o x \in Seq(LineItem)
  BY <1>4
<1> QED BY <1>6, <1>7 DEF Gathered, s, x

LEMMA GatheredIsAll ==
  ASSUME NEW S, NEW f, f \in Seq(S)
  PROVE  FlattenSeq(ItemLists(f)) = Gathered(f, Cardinality(LineEnds(f)))
<1> DEFINE s == ItemLists(f)
<1>1. Cardinality(LineEnds(f)) \in Nat /\ DOMAIN LinesOf(f) = 1..Cardinality(LineEnds(f))
  BY EndsAreFinite DEF LinesOf
<1>2. Len(s) = Cardinality(LineEnds(f)) /\ s = [i \in 1..Len(s) |-> s[i]]
  BY <1>1 DEF ItemLists
<1> HIDE DEF s
<1>3. FlattenSeq(s) = Flattened(s, Len(s))
  BY <1>1, <1>2, FlattenedIsFlat
<1> QED BY <1>2, <1>3 DEF Gathered, s

-------------------------------------------------------------------------------
\* A readline on what is left of the file.
\* Chunk c of at most n bytes, which is m bytes from position p of the file.
Gives(f, p, s, n, c, m) ==
  /\ m <= n /\ p + m <= Len(f) /\ (s # <<>> => m > 0) /\ (p < Len(f) => m > 0)
  /\ c = Slice(f, p, p + m) /\ Len(c) = m /\ (c = <<>> <=> m = 0)
  /\ SubSeq(s, Len(c) + 1, Len(s)) = Slice(f, p + m, Len(f))
  /\ \A i \in Nat : p < i /\ i < p + m => f[i] # "LF"
  /\ m = n \/ p + m = Len(f) \/ (m > 0 /\ f[p + m] = "LF")
  /\ Ends(c, "LF") <=> m > 0 /\ f[p + m] = "LF"

LEMMA ChunkOfFile ==
  ASSUME NEW S, NEW f, f \in Seq(S), NEW p, IsPart(f, p, Len(f)), NEW s, s = Slice(f, p, Len(f)),
         NEW n \in Nat \ {0}, NEW c, c = Chunk(s, n)
  PROVE  \E m \in Nat : Gives(f, p, s, n, c, m)
<1> DEFINE l == Len(f) - p
<1>1. p \in Nat /\ Len(f) \in Nat /\ p <= Len(f) /\ l \in Nat /\ p + l = Len(f) /\ (p < Len(f) <=> l > 0)
  BY DEF IsPart
<1>2. s \in Seq(S) /\ Len(s) = l
  BY SliceIs
<1>3. \A i \in 1..l : s[i] = f[p + i]
  BY SliceAt
<1> HIDE DEF l
<1>4. PICK m \in 0..Len(s) : /\ c = Slice(s, 0, m) /\ m <= n
                             /\ \A i \in 1..m : s[i] = "LF" => i = m
                             /\ m = n \/ m = Len(s) \/ (m > 0 /\ s[m] = "LF")
                             /\ s # <<>> => m > 0
  BY <1>2, ChunkStops
<1>5. m \in Nat /\ m <= l /\ p + m <= Len(f) /\ p + 0 = p
  BY <1>1, <1>2
<1>6. c = Slice(f, p, p + m)
  <2>1. Slice(s, 0, m) = Slice(f, p + 0, p + m)
    BY <1>1, <1>5, SliceOfSlice DEF l
  <2> QED BY <1>4, <1>5, <2>1
<1>7. Len(c) = m
  <2>1. IsPart(s, 0, m)
    BY <1>2, <1>5 DEF IsPart
  <2>2. Len(Slice(s, 0, m)) = m - 0
    BY <1>2, <2>1, SliceIs
  <2> QED BY <1>4, <1>5, <2>2
<1>8. c \in Seq(S)
  <2>1. IsPart(s, 0, m)
    BY <1>2, <1>5 DEF IsPart
  <2> QED BY <1>2, <1>4, <2>1, SliceIs
<1>9. SubSeq(s, Len(c) + 1, Len(s)) = Slice(f, p + m, Len(f))
  <2>1. Slice(s, m, l) = Slice(f, p + m, p + l)
    BY <1>1, <1>5, SliceOfSlice DEF l
  <2> QED BY <1>1, <1>2, <1>7, <2>1 DEF Slice
<1>10. \A i \in Nat : p < i /\ i < p + m => f[i] # "LF"
  <2> SUFFICES ASSUME NEW i \in Nat, p < i, i < p + m, f[i] = "LF" PROVE FALSE
    OBVIOUS
  <2>1. i - p \in 1..m /\ i - p \in 1..l /\ p + (i - p) = i /\ i - p # m
    BY <1>1, <1>5
  <2>2. s[i - p] = f[p + (i - p)]
    BY <1>3, <2>1
  <2> QED BY <1>4, <2>1, <2>2
<1>11. m > 0 => s[m] = f[p + m]
  BY <1>3, <1>5
<1>12. m = n \/ p + m = Len(f) \/ (m > 0 /\ f[p + m] = "LF")
  <2>1. m = Len(s) => p + m = Len(f)
    BY <1>1, <1>2
  <2> QED BY <1>4, <1>11, <2>1
<1>13. c = <<>> <=> m = 0
  BY <1>7, <1>8
<1>14. Ends(c, "LF") <=> m > 0 /\ f[p + m] = "LF"
  <2>1. m > 0 => c[m] = s[m]
    <3> SUFFICES ASSUME m > 0 PROVE c[m] = s[m]
      OBVIOUS
    <3>1. IsPart(s, 0, m) /\ m \in 1..(m - 0) /\ 0 + m = m
      BY <1>2, <1>5 DEF IsPart
    <3>2. c[m] = s[0 + m]
      BY <1>2, <1>4, <3>1, SliceAt
    <3> QED BY <3>1, <3>2
  <2>2. Ends(c, "LF") <=> m # 0 /\ c[m] = "LF"
    BY <1>7, <1>13 DEF Ends
  <2> QED BY <1>5, <1>11, <2>1, <2>2
<1>15. p < Len(f) => m > 0
  <2>1. l > 0 => s # <<>>
    BY <1>2
  <2> QED BY <1>1, <1>4, <2>1
<1> QED BY <1>4, <1>5, <1>6, <1>7, <1>9, <1>10, <1>12, <1>13, <1>14, <1>15 DEF Gives

LEMMA WithoutIs ==
  ASSUME NEW S, NEW s, s \in Seq(S), NEW token
  PROVE  Without(s, token) \in Seq(S) /\ Len(Without(s, token)) >= Len(s) - 1
         /\ (~Ends(s, token) => Without(s, token) = s)
<1>1. CASE Ends(s, token)
  <2>1. Len(s) \in Nat /\ Len(s) > 0
    BY <1>1 DEF Ends
  <2>2. IsPart(s, 0, Len(s) - 1) /\ 0 + 1 = 1
    BY <2>1 DEF IsPart
  <2>3. Slice(s, 0, Len(s) - 1) \in Seq(S)
    BY <2>2, SliceIs
  <2>4. Len(Slice(s, 0, Len(s) - 1)) = (Len(s) - 1) - 0
    BY <2>2, SliceIs
  <2>5. Without(s, token) = Slice(s, 0, Len(s) - 1)
    BY <1>1, <2>2 DEF Without, Slice
  <2>6. (Len(s) - 1) - 0 >= Len(s) - 1
    BY <2>1
  <2> QED BY <1>1, <2>3, <2>4, <2>5, <2>6
<1>2. CASE ~Ends(s, token)
  BY <1>2 DEF Without
<1> QED BY <1>1, <1>2

\* The end of a line takes at most two bytes, and without a line feed one.
LEMMA LongStaysLong ==
  ASSUME NEW S, NEW s, s \in Seq(S), Len(s) >= MaxLine + 2, Ends(s, "LF") => Len(s) >= MaxLine + 3, NEW n \in Nat
  PROVE  ItemsOf(Without(Without(s, "LF"), "CR"), n) = <<BadLine(n)>>
<1> DEFINE a == Without(s, "LF")
           b == Without(a, "CR")
<1>1. a \in Seq(S) /\ Len(a) >= Len(s) - 1 /\ (~Ends(s, "LF") => a = s)
  BY WithoutIs
<1> HIDE DEF a
<1>2. b \in Seq(S) /\ Len(b) >= Len(a) - 1
  BY <1>1, WithoutIs
<1> HIDE DEF b
<1>3. Len(b) > MaxLine
  BY <1>1, <1>2, ReaderLimits
<1>4. ItemsOf(b, n) = <<BadLine(n)>>
  BY <1>3 DEF ItemsOf
<1> QED BY <1>4 DEF a, b

-------------------------------------------------------------------------------
\* Where the reader is in its file.

\* Between two lines, with the items of those before.
AtLine(f, p, n, given) ==
  /\ p = 0 \/ p \in LineEnds(f)
  /\ n = LinesUpTo(f, p) /\ given = Gathered(f, n)

\* In line n, of which more bytes than a line may have are read, and no end yet.
InLongLine(f, p, n, given) ==
  \E q \in Nat : /\ q = 0 \/ q \in LineEnds(f)
                 /\ p >= q + Reads /\ \A i \in Nat : q < i /\ i <= p => f[i] # "LF"
                 /\ n = LinesUpTo(f, q) + 1 /\ given = Gathered(f, n - 1)

IsAt(f, left, n, skips, given, p) ==
  /\ IsPart(f, p, Len(f)) /\ left = Slice(f, p, Len(f)) /\ n \in Nat /\ given \in Seq(LineItem)
  /\ IF skips THEN InLongLine(f, p, n, given) ELSE AtLine(f, p, n, given)

\* An end that no other comes before.
LEMMA NextEnd ==
  ASSUME NEW S, NEW f, f \in Seq(S), NEW q \in Nat, q = 0 \/ q \in LineEnds(f), NEW e \in Nat, q < e, e <= Len(f),
         f[e] = "LF" \/ e = Len(f), \A i \in Nat : q < i /\ i < e => f[i] # "LF"
  PROVE  IsNextEnd(f, q, e)
<1>1. e \in DOMAIN f /\ Len(f) \in Nat
  OBVIOUS
<1>2. e \in LineEnds(f)
  BY <1>1 DEF LineEnds
<1>3. \A i \in LineEnds(f) : ~(q < i /\ i < e)
  BY <1>1 DEF LineEnds
<1> QED BY <1>2, <1>3 DEF IsNextEnd

LEMMA ReadLineAdvances ==
  ASSUME NEW S, NEW f, f \in Seq(S), NEW s, NEW n, NEW given, NEW p, IsAt(f, s, n, FALSE, given, p), s # <<>>,
         NEW c, c = Chunk(s, Reads), NEW long, long <=> (~Ends(c, "LF") /\ Len(c) = Reads),
         NEW more, more = IF long THEN given
                          ELSE given \o ItemsOf(Without(Without(c, "LF"), "CR"), n + 1)
  PROVE  \E q : IsAt(f, SubSeq(s, Len(c) + 1, Len(s)), n + 1, long, more, q)
<1>1. /\ IsPart(f, p, Len(f)) /\ s = Slice(f, p, Len(f)) /\ n \in Nat /\ given \in Seq(LineItem)
      /\ AtLine(f, p, n, given)
  BY DEF IsAt
<1>2. Reads \in Nat \ {0} /\ Reads = MaxLine + 2
  BY ReaderLimits DEF Reads
<1>9. PICK m \in Nat : Gives(f, p, s, Reads, c, m)
  BY <1>1, <1>2, ChunkOfFile
<1>3. /\ m <= Reads /\ p + m <= Len(f) /\ m > 0
      /\ c = Slice(f, p, p + m) /\ Len(c) = m
      /\ SubSeq(s, Len(c) + 1, Len(s)) = Slice(f, p + m, Len(f))
      /\ \A i \in Nat : p < i /\ i < p + m => f[i] # "LF"
      /\ m = Reads \/ p + m = Len(f) \/ f[p + m] = "LF"
      /\ Ends(c, "LF") <=> f[p + m] = "LF"
  BY <1>9 DEF Gives
<1> DEFINE e == p + m
<1>4. /\ p \in Nat /\ e \in Nat /\ p < e /\ e <= Len(f) /\ Len(f) \in Nat /\ e = p + m
  BY <1>1, <1>3 DEF IsPart
<1> HIDE DEF e
<1>5. IsPart(f, e, Len(f)) /\ n + 1 \in Nat
  BY <1>1, <1>4 DEF IsPart
<1>6. CASE long
  <2>1. m = Reads /\ f[e] # "LF" /\ more = given
    BY <1>3, <1>4, <1>6
  <2>2. e >= p + Reads
    BY <1>2, <1>4, <2>1
  <2>3. \A i \in Nat : p < i /\ i <= e => f[i] # "LF"
    BY <1>3, <1>4, <2>1
  <2>4. n + 1 = LinesUpTo(f, p) + 1 /\ given = Gathered(f, (n + 1) - 1)
    BY <1>1 DEF AtLine
  <2>5. InLongLine(f, e, n + 1, more)
    BY <1>1, <1>4, <2>1, <2>2, <2>3, <2>4 DEF InLongLine, AtLine
  <2> QED BY <1>1, <1>3, <1>4, <1>5, <1>6, <2>1, <2>5 DEF IsAt
<1>7. CASE ~long
  <2>1. f[e] = "LF" \/ e = Len(f)
    BY <1>3, <1>4, <1>7
  <2>2. IsNextEnd(f, p, e)
    BY <1>1, <1>3, <1>4, <2>1, NextEnd DEF AtLine
  <2>3. /\ n + 1 \in DOMAIN LinesOf(f) /\ LinesUpTo(f, e) = n + 1
        /\ LinesOf(f)[n + 1] = Without(Without(SubSeq(f, p + 1, e), "LF"), "CR")
    BY <1>1, <2>2, LineIsNext DEF AtLine
  <2>4. c = SubSeq(f, p + 1, e)
    BY <1>3, <1>4 DEF Slice
  <2>5. more = given \o ItemsOf(LinesOf(f)[n + 1], n + 1)
    BY <1>7, <2>3, <2>4
  <2>6. more = Gathered(f, n + 1) /\ more \in Seq(LineItem)
    BY <1>1, <2>3, <2>5, GatheredGrows DEF AtLine
  <2>7. e \in LineEnds(f)
    BY <2>2 DEF IsNextEnd
  <2>8. AtLine(f, e, n + 1, more)
    BY <2>3, <2>6, <2>7 DEF AtLine
  <2> QED BY <1>3, <1>4, <1>5, <1>7, <2>6, <2>8 DEF IsAt
<1> QED BY <1>6, <1>7

LEMMA DiscardAdvances ==
  ASSUME NEW S, NEW f, f \in Seq(S), NEW s, NEW n, NEW given, NEW p, IsAt(f, s, n, TRUE, given, p),
         NEW c, c = Chunk(s, DiscardChunk), NEW long, long <=> (c # <<>> /\ ~Ends(c, "LF")),
         NEW more, more = IF long THEN given ELSE Append(given, BadLine(n))
  PROVE  \E q : IsAt(f, SubSeq(s, Len(c) + 1, Len(s)), n, long, more, q)
<1>1. /\ IsPart(f, p, Len(f)) /\ s = Slice(f, p, Len(f)) /\ n \in Nat /\ given \in Seq(LineItem)
      /\ InLongLine(f, p, n, given)
  BY DEF IsAt
<1>2. PICK q \in Nat : /\ q = 0 \/ q \in LineEnds(f)
                       /\ p >= q + Reads /\ \A i \in Nat : q < i /\ i <= p => f[i] # "LF"
                       /\ n = LinesUpTo(f, q) + 1 /\ given = Gathered(f, n - 1)
  BY <1>1 DEF InLongLine
<1>9. PICK m \in Nat : Gives(f, p, s, DiscardChunk, c, m)
  BY <1>1, ReaderLimits, ChunkOfFile
<1>3. /\ p + m <= Len(f) /\ (p < Len(f) => m > 0)
      /\ c = Slice(f, p, p + m) /\ Len(c) = m /\ (c = <<>> <=> m = 0)
      /\ SubSeq(s, Len(c) + 1, Len(s)) = Slice(f, p + m, Len(f))
      /\ \A i \in Nat : p < i /\ i < p + m => f[i] # "LF"
      /\ m = DiscardChunk \/ p + m = Len(f) \/ (m > 0 /\ f[p + m] = "LF")
      /\ Ends(c, "LF") <=> m > 0 /\ f[p + m] = "LF"
  BY <1>9 DEF Gives
<1> DEFINE e == p + m
<1>4. /\ p \in Nat /\ e \in Nat /\ p <= e /\ e <= Len(f) /\ Len(f) \in Nat /\ e = p + m
  BY <1>1, <1>3 DEF IsPart
<1>5. Reads = MaxLine + 2 /\ MaxLine \in Nat
  BY ReaderLimits DEF Reads
<1> HIDE DEF e
<1>6. IsPart(f, e, Len(f))
  BY <1>4 DEF IsPart
<1>7. CASE long
  <2>1. f[e] # "LF" /\ m > 0 /\ more = given
    BY <1>3, <1>4, <1>7
  <2>2. e >= q + Reads
    BY <1>2, <1>4, <1>5
  <2>3. \A i \in Nat : q < i /\ i <= e => f[i] # "LF"
    BY <1>2, <1>3, <1>4, <2>1
  <2>4. InLongLine(f, e, n, more)
    BY <1>2, <2>1, <2>2, <2>3 DEF InLongLine
  <2> QED BY <1>1, <1>3, <1>4, <1>6, <1>7, <2>1, <2>4 DEF IsAt
<1>8. CASE ~long
  <2>1. (m > 0 /\ f[e] = "LF") \/ (m = 0 /\ e = Len(f))
    BY <1>3, <1>4, <1>8
  <2>2. q < e /\ e - q >= MaxLine + 2 /\ (f[e] = "LF" => e - q >= MaxLine + 3)
    <3>1. f[e] = "LF" => m > 0
      BY <1>2, <1>4, <1>5
    <3> QED BY <1>2, <1>4, <1>5, <3>1
  <2>3. \A i \in Nat : q < i /\ i < e => f[i] # "LF"
    BY <1>2, <1>3, <1>4
  <2>4. IsNextEnd(f, q, e)
    BY <1>2, <1>4, <2>1, <2>2, <2>3, NextEnd
  <2>5. /\ n \in DOMAIN LinesOf(f) /\ LinesUpTo(f, e) = n
        /\ LinesOf(f)[n] = Without(Without(SubSeq(f, q + 1, e), "LF"), "CR")
    BY <1>2, <2>4, LineIsNext
  <2>6. ItemsOf(LinesOf(f)[n], n) = <<BadLine(n)>>
    <3> DEFINE t == Slice(f, q, e)
    <3>1. IsPart(f, q, e)
      BY <1>4, <2>2 DEF IsPart
    <3>2. t \in Seq(S)
      BY <3>1, SliceIs
    <3>3. Len(t) = e - q
      BY <3>1, SliceIs
    <3>4. e - q \in 1..(e - q) /\ q + (e - q) = e
      BY <1>4, <2>2
    <3>5. t[e - q] = f[q + (e - q)]
      BY <3>1, <3>4, SliceAt
    <3>6. LinesOf(f)[n] = Without(Without(t, "LF"), "CR")
      BY <2>5 DEF Slice
    <3> HIDE DEF t
    <3>7. Ends(t, "LF") => f[e] = "LF"
      BY <3>3, <3>4, <3>5 DEF Ends
    <3>8. Len(t) >= MaxLine + 2 /\ (Ends(t, "LF") => Len(t) >= MaxLine + 3)
      BY <2>2, <3>3, <3>7
    <3> QED BY <1>1, <3>2, <3>6, <3>8, LongStaysLong
  <2>7. (n - 1) + 1 = n /\ n - 1 \in Nat
    <3>1. LinesUpTo(f, q) \in Nat
      BY EndsAreFinite
    <3> QED BY <1>2, <3>1
  <2>8. /\ Gathered(f, n) = given \o <<BadLine(n)>>
        /\ Gathered(f, n) \in Seq(LineItem)
    BY <1>1, <1>2, <2>5, <2>6, <2>7, GatheredGrows
  <2>9. BadLine(n) \in LineItem
    BY <1>1 DEF BadLine, LineItem
  <2>10. more = Gathered(f, n)
    BY <1>1, <1>8, <2>8, <2>9, AppendIsConcat
  <2>11. e \in LineEnds(f)
    BY <2>4 DEF IsNextEnd
  <2>12. AtLine(f, e, n, more)
    BY <2>5, <2>10, <2>11 DEF AtLine
  <2> QED BY <1>1, <1>3, <1>4, <1>6, <1>8, <2>8, <2>10, <2>12 DEF IsAt
<1> QED BY <1>7, <1>8

LinesInv ==
  /\ file \in Seq(Range(file)) /\ skipping \in BOOLEAN
  /\ \E p : IsAt(file, rest, number, skipping, items, p)

LEMMA FileStarts == (\E f \in Files \cup {<<>>} : FileInit(f)) => LinesInv
<1> SUFFICES ASSUME NEW f \in Files \cup {<<>>}, FileInit(f) PROVE LinesInv
  OBVIOUS
<1>1. f \in Seq(Range(f))
  <2>1. <<>> \in Seq(Range(<<>>))
    OBVIOUS
  <2> QED BY <2>1, FilesAreTokens DEF AreTokens
<1>2. file = f /\ rest = f /\ number = 0 /\ skipping = FALSE /\ items = <<>>
  BY DEF FileInit
<1>3. IsPart(f, 0, Len(f)) /\ f = Slice(f, 0, Len(f))
  BY <1>1, WholeSlice DEF IsPart
<1>4. AtLine(f, 0, 0, <<>>)
  BY <1>1, EndsAreFinite DEF AtLine, Gathered, Flattened
<1>5. 0 \in Nat /\ <<>> \in Seq(LineItem)
  OBVIOUS
<1>6. IsAt(f, f, 0, FALSE, <<>>, 0)
  BY <1>3, <1>4, <1>5 DEF IsAt
<1> QED BY <1>1, <1>2, <1>6 DEF LinesInv

LEMMA FileStepKeeps == LinesInv /\ [ReadLine \/ Discard]_readerState => LinesInv'
<1> SUFFICES ASSUME LinesInv, [ReadLine \/ Discard]_readerState PROVE LinesInv'
  OBVIOUS
<1>1. PICK p : IsAt(file, rest, number, skipping, items, p)
  BY DEF LinesInv
<1>2. file \in Seq(Range(file)) /\ skipping \in BOOLEAN
  BY DEF LinesInv
<1>3. CASE ReadLine
  <2> DEFINE c == Chunk(rest, Reads)
             long == ~Ends(c, "LF") /\ Len(c) = Reads
  <2>1. /\ rest # <<>> /\ ~skipping /\ file' = file /\ number' = number + 1
        /\ rest' = SubSeq(rest, Len(c) + 1, Len(rest)) /\ skipping' = long
        /\ items' = IF long THEN items ELSE items \o ItemsOf(Without(Without(c, "LF"), "CR"), number + 1)
    BY <1>3 DEF ReadLine
  <2>2. IsAt(file, rest, number, FALSE, items, p)
    BY <1>1, <2>1 DEF IsAt
  <2>3. \E q : IsAt(file, rest', number', long, items', q)
    BY <1>2, <2>1, <2>2, ReadLineAdvances
  <2> QED BY <1>2, <2>1, <2>3 DEF LinesInv
<1>4. CASE Discard
  <2> DEFINE c == Chunk(rest, DiscardChunk)
             long == c # <<>> /\ ~Ends(c, "LF")
  <2>1. /\ skipping /\ file' = file /\ number' = number
        /\ rest' = SubSeq(rest, Len(c) + 1, Len(rest)) /\ skipping' = long
        /\ items' = IF long THEN items ELSE Append(items, BadLine(number))
    BY <1>4 DEF Discard
  <2>2. IsAt(file, rest, number, TRUE, items, p)
    BY <1>1, <2>1 DEF IsAt
  <2>3. \E q : IsAt(file, rest', number', long, items', q)
    BY <1>2, <2>1, <2>2, DiscardAdvances
  <2> QED BY <1>2, <2>1, <2>3 DEF LinesInv
<1>5. CASE UNCHANGED readerState
  BY <1>1, <1>2, <1>5 DEF readerState, LinesInv
<1> QED BY <1>3, <1>4, <1>5

\* Every line of an events file gives its item, with its number, and a line that is too long costs itself
\* and no other, for every file, limit and chunk (EventFileSource of src/ids/capture/events.py).
THEOREM LinesGiveItems == FileSpec => []LinesAreRecords
<1>1. LinesInv => LinesAreRecords
  <2> SUFFICES ASSUME LinesInv, rest = <<>>, ~skipping
               PROVE  items = FlattenSeq(ItemLists(file))
    BY DEF LinesAreRecords, ItemLists
  <2>1. PICK p : IsAt(file, rest, number, skipping, items, p)
    BY DEF LinesInv
  <2>2. /\ IsPart(file, p, Len(file)) /\ rest = Slice(file, p, Len(file))
        /\ number = LinesUpTo(file, p) /\ items = Gathered(file, number)
    BY <2>1 DEF IsAt, AtLine
  <2>3. file \in Seq(Range(file))
    BY DEF LinesInv
  <2>4. Len(rest) = Len(file) - p /\ Len(rest) = 0
    BY <2>2, <2>3, SliceIs
  <2>5. p = Len(file)
    BY <2>2, <2>4 DEF IsPart
  <2>6. LinesUpTo(file, Len(file)) = Cardinality(LineEnds(file))
    BY <2>3, EndsAreFinite
  <2> QED BY <2>2, <2>3, <2>5, <2>6, GatheredIsAll
<1> QED BY FileStarts, FileStepKeeps, <1>1, PTL DEF FileSpec

-------------------------------------------------------------------------------
(***************************************************************************)
(* What a call of read_name returns, wherever it is called.                *)
(***************************************************************************)

AtMostOne(S) == \A x, y \in S : x = y

\* The calls of the reader that may be under way.
Calls(data, offset) ==
  {r \in [position : Nat, labels : Seq(Seq(Byte)), length : Nat, jumps : 0..MaxJumps, after : SUBSET Nat,
          outcome : {"reading", "name", "truncated", "malformed"}] :
     IsWithin(r, data, offset) /\ AtMostOne(r.after)}

LEMMA CallIs ==
  ASSUME NEW data, NEW offset, NEW r, r = [f \in Fields |-> r[f]], IsReader(r), IsWithin(r, data, offset),
         r.labels \in Seq(Seq(Byte)), AtMostOne(r.after)
  PROVE  r \in Calls(data, offset)
BY Zenon DEF Calls, IsReader, Fields

LEMMA CallTurns ==
  ASSUME NEW data \in Seq(Byte), NEW offset \in Nat, NEW r \in Calls(data, offset), r.outcome = "reading"
  PROVE  Turn(data, r) \in Calls(data, offset)
<1> DEFINE size == At(data, r.position)
           s == Turn(data, r)
<1>1. /\ IsReader(r) /\ IsWithin(r, data, offset) /\ AtMostOne(r.after) /\ r.labels \in Seq(Seq(Byte))
      /\ r = [f \in Fields |-> r[f]]
  BY DEF Calls, IsReader, Fields
<1>2. IsReader(s) /\ IsWithin(s, data, offset)
  BY <1>1, TurnKeeps
<1>3. r.position \in Nat
  BY <1>1 DEF IsReader
<1>4. ASSUME NEW p PROVE AtMostOne(AfterFirst(r, p))
  BY <1>1 DEF AfterFirst, AtMostOne
<1>5. ASSUME NEW outcome
      PROVE  LET t == Stop(r, outcome)
             IN  t = [f \in Fields |-> t[f]] /\ t.labels = r.labels /\ t.after = r.after
  BY <1>1 DEF Stop, Fields
<1>6. CASE s \in {Stop(r, "truncated"), Stop(r, "malformed")}
  <2>1. s = [f \in Fields |-> s[f]] /\ s.labels = r.labels /\ s.after = r.after
    BY <1>5, <1>6
  <2> QED BY <1>1, <1>2, <2>1, CallIs
<1>7. CASE s = Follow(data, r)
  <2> DEFINE target == (At(data, r.position) - PointerMask) * 256 + At(data, r.position + 1)
             t == [r EXCEPT !.position = target, !.jumps = @ + 1, !.after = AfterFirst(r, r.position + 2)]
  <2>1. s = Stop(r, "malformed") \/ s = t
    BY <1>7, Zenon DEF Follow
  <2> HIDE DEF target
  <2>2. t = [f \in Fields |-> t[f]] /\ t.labels = r.labels /\ t.after = AfterFirst(r, r.position + 2)
    BY <1>1 DEF Fields
  <2> HIDE DEF t
  <2>3. CASE s = t
    BY <1>1, <1>2, <1>4, <2>2, <2>3, CallIs
  <2> QED BY <1>6, <2>1, <2>3
<1>8. CASE s = Finish(r)
  <2>1. s = [f \in Fields |-> s[f]] /\ s.labels = r.labels /\ s.after = AfterFirst(r, r.position + 1)
    BY <1>1, <1>8 DEF Finish, Fields
  <2> QED BY <1>1, <1>2, <1>4, <2>1, CallIs
<1>9. CASE size \in 1..MaxLabel /\ r.position + 1 + size <= Len(data) /\ s = TakeLabel(data, r, size)
  <2> DEFINE label == SubSeq(data, r.position + 2, r.position + 1 + size)
             longer == [r EXCEPT !.position = @ + 1 + size, !.length = @ + size + 1, !.labels = Append(@, label)]
  <2>1. s = longer \/ s = Stop(longer, "malformed")
    BY <1>9, Zenon DEF TakeLabel
  <2>2. label \in Seq(Byte)
    BY <1>3, <1>9, LabelIsBytes DEF LabelAt
  <2> HIDE DEF label, size
  <2>3. /\ longer = [f \in Fields |-> longer[f]] /\ longer.labels = Append(r.labels, label)
        /\ longer.after = r.after
    BY <1>1 DEF Fields
  <2> HIDE DEF longer
  <2>4. longer.labels \in Seq(Seq(Byte))
    <3> DEFINE L == Seq(Byte)
    <3>1. \A l \in Seq(L), x \in L : Append(l, x) \in Seq(L)
      <4> HIDE DEF L
      <4> QED BY AppendProperties
    <3> QED BY <1>1, <2>2, <2>3, <3>1
  <2>5. s = [f \in Fields |-> s[f]] /\ s.labels = longer.labels /\ s.after = r.after
    BY <2>1, <2>3 DEF Stop, Fields
  <2> QED BY <1>1, <1>2, <2>4, <2>5, CallIs
<1> HIDE DEF s
<1> QED BY <1>3, <1>6, <1>7, <1>8, <1>9, TurnIsStep DEF s

NameStep(data, r) == IF r.outcome = "reading" THEN Turn(data, r) ELSE r
NameTurn(data, offset, h, D) == IF D = {} THEN Start(data, offset) ELSE NameStep(data, h[D \ {Max(D)}])
NameTurns == DOMAIN [i \in 1..(MaxJumps + MaxName + 1) |-> i]
IsNaming(data, offset, h) == h = [D \in SUBSET NameTurns |-> NameTurn(data, offset, h, D)]
Naming(data, offset) == CHOOSE h : IsNaming(data, offset, h)

LEMMA NameIsFold ==
  ASSUME NEW data, NEW offset
  PROVE  ReadName(data, offset) = Naming(data, offset)[NameTurns]
BY Zenon DEF ReadName, FoldLeft, MapThenFoldSet, Naming, IsNaming, NameTurn, NameStep, NameTurns

\* What holds of the start and survives each turn holds of what is returned.
LEMMA ReadNameStays ==
  ASSUME NEW data, NEW offset, NEW V, Start(data, offset) \in V, \A v \in V : NameStep(data, v) \in V
  PROVE  ReadName(data, offset) \in V
<1> DEFINE n == MaxJumps + MaxName + 1
           base == Start(data, offset)
           c == [D \in SUBSET (1..n) |-> Max(D)]
           t == [p \in (1..n) \X V |-> NameStep(data, p[2])]
           h == Naming(data, offset)
<1>0. n \in Nat /\ NameTurns = 1..n
  BY NameLimits DEF NameTurns
<1>1. base \in V
  OBVIOUS
<1> HIDE DEF n, h, base
<1>2. \A D \in SUBSET (1..n) : D # {} => c[D] \in D /\ c[D] = Max(D)
  BY <1>0, PlacesHaveEnds
<1>3. \A i \in 1..n, v \in V : t[<<i, v>>] = NameStep(data, v) /\ NameStep(data, v) \in V
  OBVIOUS
<1> HIDE DEF c, t
<1>4. PICK g : IsPlaceFold(n, c, t, base, g) /\ \A D \in SUBSET (1..n) : g[D] \in V
  <2>1. KeepsTo(n, c, t, base, V)
    BY <1>1, <1>2, <1>3 DEF KeepsTo
  <2> QED BY <1>0, <2>1, PlaceFoldStays
<1>5. IsNaming(data, offset, g)
  <2>1. \A D \in SUBSET (1..n) : PlaceTurn(c, t, base, g, D) = NameTurn(data, offset, g, D)
    <3> SUFFICES ASSUME NEW D \in SUBSET (1..n), D # {}
                 PROVE  PlaceTurn(c, t, base, g, D) = NameTurn(data, offset, g, D)
      BY DEF PlaceTurn, NameTurn, base
    <3>1. Max(D) \in 1..n /\ c[D] = Max(D) /\ g[D \ {Max(D)}] \in V
      BY <1>2, <1>4
    <3>2. t[<<Max(D), g[D \ {Max(D)}]>>] = NameStep(data, g[D \ {Max(D)}])
      BY <1>3, <3>1
    <3> QED BY <3>1, <3>2 DEF PlaceTurn, NameTurn
  <2>2. g = [D \in SUBSET (1..n) |-> NameTurn(data, offset, g, D)]
    BY <1>4, <2>1 DEF IsPlaceFold
  <2> QED BY <1>0, <2>2 DEF IsNaming
<1>6. IsNaming(data, offset, h)
  BY <1>5, Zenon DEF h, Naming
<1>7. \A D \in SUBSET (1..n) : h[D] = NameTurn(data, offset, h, D)
  BY <1>0, <1>6 DEF IsNaming
<1>8. \A D \in SUBSET (1..n) : h[D] \in V
  <2>1. h[{}] \in V
    BY <1>1, <1>7 DEF NameTurn, base
  <2>2. ASSUME NEW D \in SUBSET (1..n), D # {} PROVE \E i \in D : h[D \ {i}] \in V => h[D] \in V
    <3>1. Max(D) \in D
      BY <1>2, <2>2
    <3>2. h[D] = NameStep(data, h[D \ {Max(D)}])
      BY <1>7, <2>2 DEF NameTurn
    <3>3. Max(D) \in 1..n
      BY <3>1
    <3> QED BY <1>3, <3>1, <3>2, <3>3
  <2> QED BY <1>0, <2>1, <2>2, FoldStays
<1>9. ReadName(data, offset) = h[1..n]
  BY <1>0, NameIsFold, Zenon DEF h
<1> QED BY <1>8, <1>9

LEMMA ReadNameIsCall ==
  ASSUME NEW data \in Seq(Byte), NEW offset \in Nat
  PROVE  ReadName(data, offset) \in Calls(data, offset)
<1> DEFINE base == Start(data, offset)
<1>1. base \in Calls(data, offset)
  <2>1. base = [f \in Fields |-> base[f]] /\ base.labels = <<>>
    BY DEF Start, Fields
  <2>2. /\ DOMAIN base = Fields /\ base.position = offset /\ base.length = 0
        /\ base.jumps = 0 /\ base.after = {} /\ base.outcome \in {"reading", "truncated"}
    BY DEF Start, Fields
  <2> HIDE DEF base
  <2>3. 0 < MaxName /\ 0 \in 0..MaxJumps /\ offset <= offset
    BY NameLimits
  <2>4. IsReader(base)
    BY <2>2, <2>3 DEF IsReader
  <2>5. IsWithin(base, data, offset)
    BY <2>2, <2>3 DEF IsWithin
  <2>6. base.labels \in Seq(Seq(Byte))
    <3>1. <<>> \in Seq(Seq(Byte))
      BY EmptySeq
    <3> QED BY <2>1, <3>1
  <2>7. AtMostOne(base.after)
    BY <2>2 DEF AtMostOne
  <2> QED BY <2>1, <2>4, <2>5, <2>6, <2>7, CallIs
<1>2. ASSUME NEW v \in Calls(data, offset) PROVE NameStep(data, v) \in Calls(data, offset)
  BY CallTurns DEF NameStep
<1> QED BY <1>1, <1>2, ReadNameStays

\* Behind the end of the data there is no name, whatever the data are.
LEMMA NoNameBehindEnd ==
  ASSUME NEW data, NEW offset, ~(offset < Len(data))
  PROVE  ReadName(data, offset).outcome # "name"
<1> DEFINE base == Start(data, offset)
<1>1. base.outcome = "truncated"
  BY DEF Start
<1> HIDE DEF base
<1>2. NameStep(data, base) = base
  BY <1>1 DEF NameStep
<1>3. ReadName(data, offset) \in {base}
  BY <1>2, ReadNameStays DEF base
<1> QED BY <1>1, <1>3
===============================================================================
