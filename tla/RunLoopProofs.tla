----------------------------- MODULE RunLoopProofs -----------------------------
(***************************************************************************)
(* Safety of RunLoop for every --count, any number of items and Ctrl-C at  *)
(* any instants: where the lines of the flows file, the events and the     *)
(* matches are when the run ends, and what the summary says of them.       *)
(***************************************************************************)
EXTENDS RunLoop, FoldProofs, SequenceTheorems

\* While the program is here, the item that was read last has no event.
Working == {"track", "release", "insert", "drain", "flows", "matches", "record"}

Control ==
  /\ pc \in Loop \cup Finally \cup {"close", "end"} /\ cause \in {"none", "interrupt", "error"}
  /\ count \in Counts /\ kept \in BOOLEAN
  /\ read \in 0..MaxItems /\ {written, dropped, flowsWritten, sub} \subseteq Nat
  /\ opened \in 0..read /\ (pc \in {"track", "release", "insert"} => opened < read)
  /\ table \cup pending \cup leaving \cup hand \cup caught \subseteq 1..opened /\ twice \subseteq hand
  /\ lines \in [FlowNumbers -> Nat]
  /\ hand # {} => pc \in {"flows", "rest"}
  /\ leaving # {} => pc = "release"
  /\ caught # {} => pc \notin Loop
  /\ leaving \subseteq table \cap pending
  /\ pc = "rest" => table = {} /\ pending = {}

\* A flow is in one place and has no line before it has left all of them, or it was caught and has its two
\* lines one after the other.
OnePlace ==
  /\ table \cap pending \subseteq leaving \cup caught
  /\ twice \subseteq caught
  /\ hand \cap (table \cup pending) = {}
  /\ \A f \in table \cup pending \cup twice \cup (hand \ caught) : lines[f] = 0
  /\ \A f \in hand : lines[f] <= 1
  /\ \A f \in FlowNumbers : lines[f] <= (IF f \in caught THEN 2 ELSE 1) /\ (f > opened => lines[f] = 0)

\* A flow is in some place or has its line, unless something has gone wrong on the way.
SomePlace ==
  troubles = {} /\ cuts \cap {"flows", "export", "rest"} = {} =>
    /\ \A f \in 1..opened : f \in table \cup pending \cup hand \/ lines[f] >= 1
    /\ pc \in {"close", "end"} => table \cup pending \cup hand = {}

\* The events, and the matches that have one.
Written ==
  /\ events \in Seq(Nat) /\ matched \subseteq 1..read
  /\ \A k \in 1..Len(events) : events[k] \in 1..read
  /\ \A j, k \in 1..Len(events) : j < k => events[j] < events[k]
  /\ pc \in Working => Len(events) + dropped = read - 1 /\ \A k \in 1..Len(events) : events[k] < read
  /\ pc \in {"wrote", "next", "fetch"} => Len(events) + dropped = read
  /\ Len(events) + dropped \in {read - 1, read}
  /\ pc \in Working \ {"record"} \/ (pc = "record" /\ ~kept) => read \notin matched
  /\ \A i \in matched :
       \/ i = read /\ pc \notin {"wrote", "next", "fetch"}
       \/ \E k \in 1..Len(events) : events[k] = i

-------------------------------------------------------------------------------
LEMMA InitInv == Init => Control /\ OnePlace /\ SomePlace /\ Written
<1> SUFFICES ASSUME Init PROVE Control /\ OnePlace /\ SomePlace /\ Written
  OBVIOUS
<1>1. Control
  <2>1. lines \in [FlowNumbers -> Nat]
    BY DEF Init
  <2>2. kept \in BOOLEAN
    BY Zenon DEF Init
  <2> QED BY <2>1, <2>2, BoundsAreNumbers DEF Init, Control, Loop
<1>2. OnePlace
  BY DEF Init, OnePlace
<1>3. SomePlace
  BY DEF Init, SomePlace
<1>4. Written
  <2>1. <<>> \in Seq(Nat) /\ Len(<<>>) = 0
    BY EmptySeq
  <2> QED BY <2>1 DEF Init, Written, Working
<1> QED BY <1>1, <1>2, <1>3, <1>4

\* Steps that leave the flows and their lines where they are.
LEMMA QuietStep ==
  ASSUME Control, UNCHANGED <<count, tracker, hand, twice, caught, lines>>, pc \in Loop,
         pc' \in Loop \cup Finally \cup {"close", "end"}, pc' # "rest",
         cause' \in {"none", "interrupt", "error"}, kept' \in BOOLEAN,
         read' \in read..MaxItems, {written', dropped', flowsWritten', sub'} \subseteq Nat,
         hand = {} \/ pc' = "flows", leaving = {},
         pc' \in {"track", "release", "insert"} => opened < read'
  PROVE  Control'
BY DEF Control, tracker

LEMMA ReadingControl == Control /\ Reading => Control'
<1> SUFFICES ASSUME Control, Reading PROVE Control'
  OBVIOUS
<1>1. hand = {} /\ leaving = {} /\ pc \in {"fetch", "track"}
  BY DEF Reading, NextItem, EndOfSource, SourceFails, Error, NotTracked, Goto, Control
<1>2. CASE NextItem
  BY <1>1, <1>2, QuietStep, BoundsAreNumbers DEF NextItem, Goto, Control, Loop, counters, history
<1>3. CASE EndOfSource
  BY <1>1, <1>3, QuietStep, BoundsAreNumbers DEF EndOfSource, Goto, Control, Loop, Finally, counters, history
<1>4. CASE SourceFails
  BY <1>1, <1>4, QuietStep, BoundsAreNumbers DEF SourceFails, Error, Goto, Control, Loop, Finally, counters
<1>5. CASE NotTracked
  BY <1>1, <1>5, QuietStep, BoundsAreNumbers DEF NotTracked, Goto, Control, Loop, counters, history
<1> QED BY <1>2, <1>3, <1>4, <1>5 DEF Reading

LEMMA TrackingControl == Control /\ Tracking => Control'
<1> SUFFICES ASSUME Control, Tracking PROVE Control'
  OBVIOUS
<1> USE DEF Control, Goto, counters, history
<1>1. hand = {} /\ pc \in {"track", "release", "insert", "drain"}
  BY DEF Tracking, ListLeaving, Release, TrackerRaises, Insert, Drain
<1>2. CASE \E gone \in SUBSET table : ListLeaving(gone)
  BY <1>1, <1>2 DEF ListLeaving, Loop
<1>3. CASE Release
  BY <1>1, <1>3 DEF Release, Loop
<1>4. CASE TrackerRaises
  BY <1>1, <1>4 DEF TrackerRaises, tracker, Loop
<1>5. CASE Insert
  <2>1. opened' \in opened..read /\ table' \subseteq table \cup {opened'} /\ table' \subseteq 1..opened'
    BY <1>1, <1>5, BoundsAreNumbers DEF Insert
  <2> QED BY <1>1, <1>5, <2>1, BoundsAreNumbers DEF Insert, Loop
<1>6. CASE Drain
  BY <1>1, <1>6 DEF Drain, Loop
<1> QED BY <1>2, <1>3, <1>4, <1>5, <1>6 DEF Tracking

LEMMA FlowsControl == Control /\ WritingFlows => Control'
<1> SUFFICES ASSUME Control, WritingFlows PROVE Control'
  OBVIOUS
<1> USE DEF Control, Goto, counters, history, TakeRecord
<1>1. leaving = {} /\ pc \in {"flows", "rest"}
  BY DEF WritingFlows, WriteFlow, SkipFlow, FlowsDone, FlowFileFails, Error
<1>2. ASSUME NEW f \in hand, NEW at \in {"flows", "rest"}, WriteFlow(f, at) PROVE Control'
  <2>1. f \in FlowNumbers /\ lines[f] + 1 \in Nat
    BY BoundsAreNumbers DEF FlowNumbers
  <2>2. lines' \in [FlowNumbers -> Nat]
    BY <1>2, <2>1 DEF WriteFlow
  <2> QED BY <1>1, <1>2, <2>2, BoundsAreNumbers DEF WriteFlow, tracker, Loop, Finally
<1>3. ASSUME NEW f \in hand, NEW at \in {"flows", "rest"}, SkipFlow(f, at) PROVE Control'
  BY <1>1, <1>3, BoundsAreNumbers DEF SkipFlow, tracker, Loop, Finally
<1>4. ASSUME NEW at \in {"flows", "rest"}, FlowsDone(at) PROVE Control'
  BY <1>1, <1>4, BoundsAreNumbers DEF FlowsDone, tracker, Loop, Finally
<1>5. CASE FlowFileFails
  BY <1>1, <1>5, BoundsAreNumbers DEF FlowFileFails, Error, tracker, Loop, Finally
<1> QED BY <1>2, <1>3, <1>4, <1>5 DEF WritingFlows

LEMMA WritingControl == Control /\ Writing => Control'
<1> SUFFICES ASSUME Control, Writing PROVE Control'
  OBVIOUS
<1>1. /\ hand = {} /\ leaving = {} /\ pc \in {"matches", "record", "wrote", "next"}
      /\ pc' \in {"record", "next", "wrote", "export", "fetch"} /\ cause' \in {"none", "interrupt", "error"}
      /\ UNCHANGED <<count, tracker, caught, lines, kept, read>> /\ hand' = {} /\ twice' = {} /\ twice = {}
      /\ {written', dropped', flowsWritten', sub'} \subseteq Nat
  BY DEF Writing, WriteMatches, Drop, WriteRecord, EventFileFails, Error, CountRecord, CheckCount, Goto,
         Control, counters, history
<1> QED BY <1>1, QuietStep, BoundsAreNumbers DEF Control, Loop, Finally

LEMMA EndingControl == Control /\ Ending => Control'
<1> SUFFICES ASSUME Control, Ending PROVE Control'
  OBVIOUS
<1> USE DEF Control, Goto, counters, history, Loop, Finally
<1>1. leaving = {}
  BY DEF Ending, Flush, ExportFails, Close
<1>2. CASE Flush
  BY <1>1, <1>2 DEF Flush
<1>3. CASE ExportFails
  BY <1>1, <1>3 DEF ExportFails, tracker
<1>4. CASE Close
  BY <1>1, <1>4 DEF Close, tracker
<1> QED BY <1>2, <1>3, <1>4 DEF Ending

\* Where a Ctrl-C leads, and what it leaves.
LEMMA InterruptStep ==
  ASSUME Interrupt
  PROVE  /\ pc \in Loop => pc' = "export"
         /\ pc \in Finally => pc' = "close"
         /\ pc \notin Loop \cup Finally => pc' = "end"
         /\ pc # "end" /\ cause' = "interrupt" /\ hand' = {} /\ twice' = {} /\ sub' = 0 /\ leaving' = {}
         /\ \E gone \in SUBSET leaving : table' = table \ gone /\ caught' = caught \cup (leaving \ gone)
         /\ cuts' = cuts \cup {IF pc = "flows" /\ hand = {} THEN "flows done" ELSE pc}
         /\ UNCHANGED <<count, read, written, dropped, flowsWritten, kept, pending, opened, lines, events,
                       matched, troubles>>
BY DEF Interrupt, counters, files, Loop, Finally

LEMMA InterruptControl == Control /\ Interrupt => Control'
<1> SUFFICES ASSUME Control, Interrupt PROVE Control'
  OBVIOUS
<1>1. pc' \in {"export", "close", "end"}
  BY InterruptStep
<1>2. UNCHANGED <<count, read, written, dropped, flowsWritten, kept, pending, opened, lines>>
      /\ hand' = {} /\ twice' = {} /\ leaving' = {} /\ sub' = 0 /\ cause' = "interrupt"
      /\ table' \subseteq table /\ caught' \subseteq caught \cup leaving
  BY InterruptStep
<1> QED BY <1>1, <1>2 DEF Control, Finally, Loop

LEMMA StepControl == Control /\ [Next]_vars => Control'
<1>1. Control /\ UNCHANGED vars => Control'
  BY DEF Control, vars
<1> QED BY <1>1, ReadingControl, TrackingControl, FlowsControl, WritingControl, EndingControl, InterruptControl
        DEF Next

-------------------------------------------------------------------------------
\* A step that moves no flow, and at most drops records that the loop has in hand.
Drops == UNCHANGED <<tracker, lines, caught>> /\ hand' \subseteq hand /\ twice' \subseteq twice

LEMMA WhoMovesFlows ==
  ASSUME Control, [Next]_vars
  PROVE  \/ Drops
         \/ \E gone \in SUBSET table : ListLeaving(gone)
         \/ Release \/ Insert \/ Drain \/ Flush \/ Interrupt
         \/ \E f \in hand, at \in {"flows", "rest"} : WriteFlow(f, at)
<1> USE DEF Drops, history, TakeRecord
<1>1. CASE Reading
  BY <1>1 DEF Reading, NextItem, EndOfSource, SourceFails, Error, NotTracked
<1>2. CASE TrackerRaises
  BY <1>2 DEF TrackerRaises
<1>3. CASE WritingFlows /\ ~\E f \in hand, at \in {"flows", "rest"} : WriteFlow(f, at)
  BY <1>3 DEF WritingFlows, SkipFlow, FlowsDone, FlowFileFails, Error
<1>4. CASE Writing
  BY <1>4 DEF Writing, WriteMatches, Drop, WriteRecord, EventFileFails, Error, CountRecord, CheckCount
<1>5. CASE ExportFails \/ Close
  BY <1>5 DEF ExportFails, Close
<1>6. CASE UNCHANGED vars
  BY <1>6 DEF vars, tracker
<1> QED BY <1>1, <1>2, <1>3, <1>4, <1>5, <1>6 DEF Next, Tracking, Ending

LEMMA StepOnePlace == Control /\ OnePlace /\ [Next]_vars => OnePlace'
<1> SUFFICES ASSUME Control, OnePlace, [Next]_vars PROVE OnePlace'
  OBVIOUS
<1>1. CASE Drops
  BY <1>1 DEF Drops, tracker, OnePlace
<1>2. ASSUME NEW gone \in SUBSET table, ListLeaving(gone) PROVE OnePlace'
  <2>1. leaving = {} /\ hand = {} /\ UNCHANGED <<hand, twice, caught, lines, table, opened>>
        /\ pending' = pending \cup gone /\ leaving' = gone
    BY <1>2 DEF Control, ListLeaving, Goto, history
  <2> QED BY <2>1 DEF OnePlace
<1>3. CASE Release
  BY <1>3 DEF Release, OnePlace, history
<1>4. CASE Insert
  <2>1. hand = {} /\ leaving = {} /\ table \cup pending \subseteq 1..opened /\ opened + 1 \in FlowNumbers
        /\ opened \in Nat /\ UNCHANGED <<hand, twice, caught, lines, pending, leaving>> /\ twice = {}
    BY <1>4, BoundsAreNumbers DEF Control, Insert, Goto, FlowNumbers, history
  <2>2. \/ opened' = opened + 1 /\ table' = table \cup {opened + 1}
        \/ UNCHANGED <<opened, table>>
    BY <1>4 DEF Insert
  <2>3. lines[opened + 1] = 0
    BY <2>1 DEF OnePlace
  <2> QED BY <2>1, <2>2, <2>3 DEF OnePlace, FlowNumbers
<1>5. CASE Drain
  <2>1. leaving = {} /\ hand = {}
    BY <1>5 DEF Control, Drain, Goto
  <2>2. twice = {} /\ hand' = pending /\ pending' = {} /\ UNCHANGED <<twice, caught, lines, table, leaving, opened>>
    BY <1>5, <2>1 DEF Control, Drain, history
  <2>3. table \cap pending \subseteq caught
    BY <2>1 DEF OnePlace
  <2>4. caught = {}
    BY <1>5 DEF Control, Drain, Goto, Loop
  <2> QED BY <2>2, <2>3, <2>4 DEF OnePlace
<1>6. CASE Flush
  <2>1. /\ leaving = {} /\ hand' = pending \cup table /\ twice' = pending \cap table
        /\ table' = {} /\ pending' = {} /\ UNCHANGED <<caught, lines, leaving, opened>>
    BY <1>6 DEF Control, Flush, Goto, history
  <2> QED BY <2>1 DEF OnePlace
<1>7. ASSUME NEW f \in hand, NEW at \in {"flows", "rest"}, WriteFlow(f, at) PROVE OnePlace'
  <2>1. f \in FlowNumbers /\ lines \in [FlowNumbers -> Nat] /\ table \cup pending \cup hand \subseteq FlowNumbers
        /\ opened \in Nat
    BY BoundsAreNumbers DEF Control, FlowNumbers
  <2>2. /\ UNCHANGED <<table, pending, leaving, opened, caught>>
        /\ lines' = [lines EXCEPT ![f] = lines[f] + 1]
    BY <1>7 DEF WriteFlow, tracker, history
  <2>3. \A g \in FlowNumbers : lines'[g] = IF g = f THEN lines[f] + 1 ELSE lines[g]
    BY <2>1, <2>2
  <2>4. f \notin table \cup pending /\ f <= opened
    BY <2>1 DEF OnePlace, Control
  <2>5. CASE f \in twice
    <3>1. twice' = twice \ {f} /\ hand' = hand /\ f \in caught /\ lines[f] = 0
      BY <1>7, <2>5 DEF WriteFlow, TakeRecord, OnePlace
    <3> QED BY <2>1, <2>2, <2>3, <2>4, <3>1 DEF OnePlace, Control
  <2>6. CASE f \notin twice
    <3>1. twice' = twice /\ hand' = hand \ {f} /\ lines[f] <= 1 /\ (f \notin caught => lines[f] = 0)
      BY <1>7, <2>6 DEF WriteFlow, TakeRecord, OnePlace
    <3> QED BY <2>1, <2>2, <2>3, <2>4, <3>1, <2>6 DEF OnePlace, Control
  <2> QED BY <2>5, <2>6
<1>8. CASE Interrupt
  <2>1. /\ hand' = {} /\ twice' = {} /\ leaving' = {} /\ UNCHANGED <<pending, opened, lines>>
        /\ \E gone \in SUBSET leaving : table' = table \ gone /\ caught' = caught \cup (leaving \ gone)
    BY <1>8, InterruptStep
  <2>2. table' \subseteq table /\ caught \subseteq caught' /\ table' \cap pending \subseteq caught'
    BY <2>1 DEF OnePlace
  <2>3. \A g \in FlowNumbers : lines[g] <= (IF g \in caught' THEN 2 ELSE 1) /\ (g > opened => lines[g] = 0)
    <3>1. lines \in [FlowNumbers -> Nat]
      BY DEF Control
    <3> QED BY <2>2, <3>1 DEF OnePlace
  <2> QED BY <2>1, <2>2, <2>3 DEF OnePlace
<1> QED BY WhoMovesFlows, <1>1, <1>2, <1>3, <1>4, <1>5, <1>6, <1>7, <1>8

LEMMA StepSomePlace == Control /\ SomePlace /\ [Next]_vars => SomePlace'
<1> SUFFICES ASSUME Control, SomePlace, [Next]_vars,
                    troubles' = {}, cuts' \cap {"flows", "export", "rest"} = {}
             PROVE  SomePlace'
  BY DEF SomePlace
<1>1. troubles = {} /\ cuts \subseteq cuts'
  <2>1. CASE Interrupt
    BY <2>1, InterruptStep
  <2>2. CASE ~Interrupt
    BY <2>2 DEF Next, vars, Reading, Tracking, WritingFlows, Writing, Ending, NextItem, EndOfSource, SourceFails,
       Error, NotTracked, ListLeaving, Release, TrackerRaises, Insert, Drain, WriteFlow, SkipFlow, FlowsDone,
       FlowFileFails, WriteMatches, Drop, WriteRecord, EventFileFails, CountRecord, CheckCount, Flush,
       ExportFails, Close, history
  <2> QED BY <2>1, <2>2
<1>2. /\ \A f \in 1..opened : f \in table \cup pending \cup hand \/ lines[f] >= 1
      /\ pc \in {"close", "end"} => table \cup pending \cup hand = {}
  BY <1>1 DEF SomePlace
<1>3. CASE UNCHANGED <<tracker, hand, lines>> /\ (pc' \in {"close", "end"} => pc \in {"close", "end"})
  BY <1>2, <1>3 DEF tracker, SomePlace
<1>4. CASE Reading \/ TrackerRaises \/ Writing
  <2>1. hand = {} /\ pc' \notin {"close", "end"} /\ hand' = hand
    BY <1>4 DEF Reading, Writing, NextItem, EndOfSource, SourceFails, Error, NotTracked, TrackerRaises,
       WriteMatches, Drop, WriteRecord, EventFileFails, CountRecord, CheckCount, Control, Goto
  <2>2. UNCHANGED <<tracker, lines>>
    BY <1>4 DEF Reading, Writing, NextItem, EndOfSource, SourceFails, Error, NotTracked, TrackerRaises,
       WriteMatches, Drop, WriteRecord, EventFileFails, CountRecord, CheckCount
  <2> QED BY <1>3, <2>1, <2>2
<1>5. ASSUME NEW gone \in SUBSET table, ListLeaving(gone) PROVE SomePlace'
  BY <1>2, <1>5 DEF ListLeaving, Goto, SomePlace
<1>6. CASE Release
  BY <1>2, <1>6 DEF Release, Goto, Control, SomePlace
<1>7. CASE Insert
  <2>1. opened' \in {opened, opened + 1} /\ (opened' = opened + 1 => table' = table \cup {opened'})
        /\ (opened' = opened => table \subseteq table')
        /\ UNCHANGED <<pending, hand, lines>> /\ pc' = "drain" /\ opened \in Nat
    BY <1>7, BoundsAreNumbers DEF Insert, Goto, Control
  <2> QED BY <1>2, <2>1 DEF SomePlace
<1>8. CASE Drain
  BY <1>2, <1>8 DEF Drain, Goto, Control, SomePlace
<1>9. ASSUME NEW f \in hand, NEW at \in {"flows", "rest"}, WriteFlow(f, at) PROVE SomePlace'
  <2>1. lines' = [lines EXCEPT ![f] = @ + 1] /\ hand \ {f} \subseteq hand' /\ UNCHANGED tracker
        /\ pc' \notin {"close", "end"}
    BY <1>9 DEF WriteFlow, TakeRecord, Goto
  <2>2. f \in FlowNumbers /\ 1..opened \subseteq FlowNumbers /\ lines \in [FlowNumbers -> Nat]
    BY BoundsAreNumbers DEF Control, FlowNumbers
  <2>3. \A g \in 1..opened : lines'[g] >= lines[g] /\ lines'[f] >= 1
    BY <2>1, <2>2
  <2>4. \A g \in 1..opened : lines[g] \in Nat /\ lines'[g] \in Nat
    BY <2>1, <2>2
  <2> QED BY <1>2, <2>1, <2>3, <2>4 DEF SomePlace, tracker
<1>10. ASSUME NEW f \in hand, NEW at \in {"flows", "rest"}, SkipFlow(f, at) PROVE FALSE
  BY <1>10 DEF SkipFlow
<1>11. ASSUME NEW at \in {"flows", "rest"}, FlowsDone(at) PROVE SomePlace'
  <2>1. hand = {} /\ hand' = {} /\ UNCHANGED <<tracker, lines>> /\ pc = at
        /\ pc' = IF at = "flows" THEN "matches" ELSE "close"
    BY <1>11 DEF FlowsDone, Goto
  <2>2. at = "rest" => table = {} /\ pending = {}
    BY <2>1 DEF Control
  <2> QED BY <1>2, <2>1, <2>2 DEF tracker, SomePlace
<1>12. CASE FlowFileFails \/ ExportFails
  BY <1>12 DEF FlowFileFails, ExportFails
<1>13. CASE Flush
  BY <1>2, <1>13 DEF Flush, Goto, Control, SomePlace
<1>14. CASE Close \/ UNCHANGED vars
  BY <1>3, <1>14 DEF Close, Goto, vars, tracker
<1>15. CASE Interrupt
  <2>1. pc \notin {"flows", "export", "rest"} \/ (pc = "flows" /\ hand = {})
    BY <1>15, InterruptStep
  <2>2. hand = {} /\ hand' = {}
    BY <1>15, <2>1, InterruptStep DEF Control
  <2>3. pc' \in {"close", "end"} => pc \in {"close", "end"}
    BY <1>15, <2>1, InterruptStep DEF Control, Finally
  <2>4. table' \cup pending' = table \cup pending /\ UNCHANGED <<opened, lines>>
    BY <1>15, InterruptStep DEF Control
  <2> QED BY <1>2, <2>2, <2>3, <2>4 DEF SomePlace
<1> QED BY <1>4, <1>5, <1>6, <1>7, <1>8, <1>9, <1>10, <1>11, <1>12, <1>13, <1>14, <1>15
        DEF Next, Tracking, WritingFlows, Ending

-------------------------------------------------------------------------------
\* Steps that write no event and no match, and read no item.
LEMMA NoWritingStep ==
  ASSUME Written, UNCHANGED <<read, dropped, events, matched>>,
         pc' \in Working \ {"record"} => pc \in Working \ {"record"},
         pc' \in {"wrote", "next", "fetch"} => pc \in {"wrote", "next", "fetch"},
         pc' = "record" => UNCHANGED <<pc, kept>>
  PROVE  Written'
<1>1. /\ events' \in Seq(Nat) /\ matched' \subseteq 1..read'
      /\ \A k \in 1..Len(events') : events'[k] \in 1..read'
      /\ \A j, k \in 1..Len(events') : j < k => events'[j] < events'[k]
      /\ Len(events') + dropped' \in {read' - 1, read'}
  BY DEF Written
<1>2. pc' \in Working => Len(events') + dropped' = read' - 1 /\ \A k \in 1..Len(events') : events'[k] < read'
  BY DEF Written, Working
<1>3. pc' \in {"wrote", "next", "fetch"} => Len(events') + dropped' = read'
  BY DEF Written
<1>4. pc' \in Working \ {"record"} \/ (pc' = "record" /\ ~kept') => read' \notin matched'
  <2>1. CASE pc' = "record"
    <3>1. pc = "record" /\ kept' = kept
      BY <2>1
    <3> QED BY <2>1, <3>1, Zenon DEF Written
  <2>2. CASE pc' # "record"
    BY <2>2, Zenon DEF Written
  <2> QED BY <2>1, <2>2
<1>5. \A i \in matched' : \/ i = read' /\ pc' \notin {"wrote", "next", "fetch"}
                          \/ \E k \in 1..Len(events') : events'[k] = i
  BY DEF Written, Working
<1> QED BY <1>1, <1>2, <1>3, <1>4, <1>5 DEF Written

LEMMA StepWritten == Control /\ Written /\ [Next]_vars => Written'
<1> SUFFICES ASSUME Control, Written, [Next]_vars PROVE Written'
  OBVIOUS
<1>1. read \in Nat /\ dropped \in Nat /\ Len(events) \in Nat
  BY BoundsAreNumbers DEF Control, Written
<1>2. CASE NextItem
  <2>1. /\ pc = "fetch" /\ pc' = "track" /\ read' = read + 1 /\ UNCHANGED <<dropped, events, matched>>
    BY <1>2 DEF NextItem, Goto, files, counters
  <2>2. read' \notin matched
    BY <1>1, <2>1 DEF Written
  <2>3. \A k \in 1..Len(events) : events[k] \in 1..read
    BY DEF Written
  <2>4. Len(events) + dropped = read
    BY <2>1 DEF Written
  <2>5. \A i \in matched : \E k \in 1..Len(events) : events[k] = i
    BY <2>1 DEF Written
  <2>6. matched' \subseteq 1..read' /\ \A k \in 1..Len(events) : events[k] \in 1..read' /\ events[k] < read'
    BY <1>1, <2>1, <2>3 DEF Written
  <2>7. Len(events') + dropped' = read' - 1
    BY <1>1, <2>1, <2>4
  <2> QED BY <1>1, <2>1, <2>2, <2>5, <2>6, <2>7 DEF Written
<1>3. CASE EndOfSource \/ SourceFails \/ NotTracked \/ Tracking \/ WritingFlows \/ EventFileFails \/ CountRecord
           \/ CheckCount \/ Ending \/ UNCHANGED vars
  <2>1. CASE EndOfSource \/ SourceFails \/ EventFileFails \/ CountRecord \/ CheckCount \/ UNCHANGED vars
    BY <2>1, NoWritingStep DEF EndOfSource, SourceFails, EventFileFails, CountRecord, CheckCount, Error, vars,
       Goto, counters, files, Working
  <2>2. CASE NotTracked \/ Tracking
    BY <2>2, NoWritingStep DEF NotTracked, Tracking, ListLeaving, Release, TrackerRaises, Insert, Drain,
       Goto, counters, files, Working
  <2>3. CASE WritingFlows
    BY <2>3, NoWritingStep DEF WritingFlows, WriteFlow, SkipFlow, FlowsDone, FlowFileFails, Error,
       Goto, counters, files, Working
  <2>4. CASE Ending
    BY <2>4, NoWritingStep DEF Ending, Flush, ExportFails, Close, Finally, Goto, counters, files, Working
  <2> QED BY <1>3, <2>1, <2>2, <2>3, <2>4
<1>4. CASE WriteMatches
  <2>1. /\ pc = "matches" /\ pc' = "record" /\ UNCHANGED <<read, dropped, events, kept>>
        /\ matched' = matched \/ (kept /\ matched' = matched \cup {read})
    BY <1>4, Zenon DEF WriteMatches, Goto, counters
  <2>2. /\ read \notin matched /\ Len(events) + dropped = read - 1
        /\ \A k \in 1..Len(events) : events[k] < read
    BY <2>1 DEF Written, Working
  <2>3. matched' \subseteq 1..read
    <3>1. read \in 1..read
      BY <1>1, <2>2
    <3>2. matched \subseteq 1..read
      BY DEF Written
    <3> QED BY <2>1, <3>1, <3>2, Zenon
  <2>4. pc' = "record" /\ ~kept' => read' \notin matched'
    BY <2>1, <2>2, Zenon
  <2>5. \A i \in matched' : i = read \/ \E k \in 1..Len(events) : events[k] = i
    <3>1. \A i \in matched : i = read \/ \E k \in 1..Len(events) : events[k] = i
      BY DEF Written
    <3> QED BY <2>1, <3>1, Zenon
  <2> QED BY <1>1, <2>1, <2>2, <2>3, <2>4, <2>5 DEF Written, Working
<1>5. CASE Drop
  <2>1. pc = "record" /\ pc' = "next" /\ ~kept /\ dropped' = dropped + 1 /\ UNCHANGED <<read, events, matched>>
    BY <1>5 DEF Drop, Goto, files
  <2>2. read \notin matched /\ Len(events) + dropped = read - 1
    BY <2>1 DEF Written, Working
  <2>3. \A i \in matched : \E k \in 1..Len(events) : events[k] = i
    BY <2>1, <2>2 DEF Written
  <2> QED BY <1>1, <2>1, <2>2, <2>3 DEF Written, Working
<1>6. CASE WriteRecord
  <2>1. pc = "record" /\ pc' = "wrote" /\ events' = Append(events, read) /\ UNCHANGED <<read, dropped, matched>>
    BY <1>6 DEF WriteRecord, Goto, counters
  <2>2. Len(events) + dropped = read - 1 /\ \A k \in 1..Len(events) : events[k] < read
    BY <2>1 DEF Written, Working
  <2>3. /\ events' \in Seq(Nat) /\ Len(events') = Len(events) + 1 /\ events'[Len(events) + 1] = read
        /\ \A k \in 1..Len(events) : events'[k] = events[k]
    BY <1>1, <2>1 DEF Written
  <2>4. Len(events) + 1 \in 1..Len(events') /\ \A k \in 1..Len(events') : k \in 1..Len(events) \/ k = Len(events) + 1
    BY <1>1, <2>3
  <2>5. \A j, k \in 1..Len(events') : j < k => events'[j] < events'[k]
    <3> SUFFICES ASSUME NEW j \in 1..Len(events'), NEW k \in 1..Len(events'), j < k
                 PROVE  events'[j] < events'[k]
      OBVIOUS
    <3>1. j \in 1..Len(events) /\ events'[j] = events[j]
      BY <1>1, <2>3
    <3>2. CASE k \in 1..Len(events)
      BY <2>3, <3>1, <3>2 DEF Written
    <3>3. CASE k = Len(events) + 1
      BY <2>2, <2>3, <3>1, <3>3
    <3> QED BY <2>4, <3>2, <3>3
  <2>6. read \in 1..read
    BY <1>1, <2>2
  <2>7. \A k \in 1..Len(events') : events'[k] \in 1..read'
    BY <2>1, <2>3, <2>4, <2>6 DEF Written
  <2>8. \A i \in matched' : \E k \in 1..Len(events') : events'[k] = i
    <3> SUFFICES ASSUME NEW i \in matched PROVE \E k \in 1..Len(events') : events'[k] = i
      BY <2>1
    <3>1. CASE i = read
      BY <2>3, <2>4, <3>1
    <3>2. CASE i # read
      <4>1. PICK k \in 1..Len(events) : events[k] = i
        BY <3>2 DEF Written
      <4> QED BY <1>1, <2>3, <4>1
    <3> QED BY <3>1, <3>2
  <2> QED BY <1>1, <2>1, <2>2, <2>3, <2>5, <2>7, <2>8 DEF Written, Working
<1>7. CASE Interrupt
  <2>1. pc' \in {"export", "close", "end"} /\ UNCHANGED <<read, dropped, events, matched>>
    BY <1>7, InterruptStep
  <2> QED BY <2>1, NoWritingStep DEF Working
<1> QED BY <1>2, <1>3, <1>4, <1>5, <1>6, <1>7 DEF Next, Reading, Writing

-------------------------------------------------------------------------------
\* What holds of every state of the run.
THEOREM Invariance == Spec => [](Control /\ OnePlace /\ SomePlace /\ Written)
<1>1. Control /\ OnePlace /\ SomePlace /\ Written /\ [Next]_vars
        => (Control /\ OnePlace /\ SomePlace /\ Written)'
  BY StepControl, StepOnePlace, StepSomePlace, StepWritten
<1> QED BY InitInv, <1>1, PTL DEF Spec

\* The types of the state hold; the events file holds only items that were read.
THEOREM TypesHold == Spec => []TypeOK
<1>1. Control /\ Written => TypeOK
  <2> SUFFICES ASSUME Control, Written PROVE TypeOK
    OBVIOUS
  <2>1. events \in Seq(1..read)
    <3>1. events \in Seq(Nat) /\ \A k \in 1..Len(events) : events[k] \in 1..read
      BY DEF Written
    <3>2. Len(events) \in Nat /\ events \in [1..Len(events) -> Nat]
      BY <3>1, LenProperties
    <3>3. events \in [1..Len(events) -> 1..read]
      BY <3>1, <3>2
    <3> QED BY <3>2, <3>3, SeqDef
  <2>2. opened \in 0..read /\ leaving \subseteq table
    BY DEF Control
  <2>3. {read, written, dropped, flowsWritten, sub, opened} \subseteq Nat
    BY <2>2, BoundsAreNumbers DEF Control
  <2>4. table \cup pending \cup leaving \cup hand \cup caught \subseteq 1..opened /\ twice \subseteq hand
    BY <2>2 DEF Control
  <2>5. kept \in BOOLEAN
    BY Zenon DEF Control
  <2> QED BY <2>1, <2>3, <2>4, <2>5 DEF Control, Written, TypeOK
<1> QED BY Invariance, <1>1, PTL

\* No flow has two lines, except those that Ctrl-C caught inside the tracker's two steps of removing flows,
\* and these have no more than two.
THEOREM OneLineAtMost == Spec => []LineOncePerFlow
<1>1. OnePlace => LineOncePerFlow
  BY DEF OnePlace, LineOncePerFlow
<1> QED BY Invariance, <1>1, PTL

\* However the run ends, a flow that the tracker created has its line, except after a failure of the flows
\* file or of the export, or after a Ctrl-C while records are in the loop's hands or are being exported.
THEOREM EveryFlowHasItsLine == Spec => []EveryFlowWritten
<1>1. SomePlace => EveryFlowWritten
  <2> SUFFICES ASSUME SomePlace, pc = "end", troubles = {}, cuts \cap {"flows", "export", "rest"} = {},
                      NEW f \in 1..opened
               PROVE  lines[f] >= 1
    BY DEF EveryFlowWritten
  <2> QED BY DEF SomePlace
<1> QED BY Invariance, <1>1, PTL

\* Ctrl-C, an error or --count costs the events file one item at most, and it is the last one.
THEOREM OneItemAtMost == Spec => []OneItemInFlight
<1>1. Written => OneItemInFlight
  <2> SUFFICES ASSUME Written PROVE OneItemInFlight
    OBVIOUS
  <2>1. DOMAIN events = 1..Len(events)
    BY DEF Written
  <2> QED BY <2>1 DEF Written, OneItemInFlight
<1> QED BY Invariance, <1>1, PTL

\* A match without its event in the file is one of the last item.
THEOREM EventsOfMatches == Spec => []MatchesHaveEvents
<1>1. Written => MatchesHaveEvents
  <2> SUFFICES ASSUME Written PROVE MatchesHaveEvents
    OBVIOUS
  <2>1. DOMAIN events = 1..Len(events)
    BY DEF Written
  <2> QED BY <2>1 DEF Written, MatchesHaveEvents
<1> QED BY Invariance, <1>1, PTL

-------------------------------------------------------------------------------
(***************************************************************************)
(* The summary.  Its counters lag behind the files: the lines of the       *)
(* current call of _write_flows are in `sub' until the call returns, and   *)
(* an event is in the file before it is counted.  What ends a call early   *)
(* loses the lag, and the counter then stays below the file.               *)
(***************************************************************************)
Undisturbed == cuts = {} /\ cause # "error"

FlowsCounted ==
  /\ flowsWritten + sub <= Total(lines, FlowNumbers)
  /\ sub # 0 => pc \in {"flows", "rest"}
  /\ Undisturbed /\ "export" \notin troubles => flowsWritten + sub = Total(lines, FlowNumbers)

ItemsCounted ==
  /\ written <= Len(events) /\ (pc = "wrote" => written < Len(events))
  /\ Undisturbed =>
       /\ Len(events) = IF pc = "wrote" THEN written + 1 ELSE written
       /\ pc \notin Working => Len(events) + dropped = read
  /\ count # Unlimited => read <= count /\ (pc = "fetch" => read < count)

\* A disturbance is never undone.
LEMMA UndisturbedSoFar ==
  ASSUME [Next]_vars, Undisturbed'
  PROVE  Undisturbed /\ ~Interrupt
<1>1. ~Interrupt
  BY InterruptStep DEF Undisturbed
<1>2. CASE Reading \/ Tracking
  BY <1>1, <1>2 DEF Reading, Tracking, NextItem, EndOfSource, SourceFails, Error, NotTracked, ListLeaving,
     Release, TrackerRaises, Insert, Drain, Undisturbed, history
<1>3. CASE WritingFlows
  BY <1>1, <1>3 DEF WritingFlows, WriteFlow, SkipFlow, FlowsDone, FlowFileFails, Error, Undisturbed, history
<1>4. CASE Writing
  BY <1>1, <1>4 DEF Writing, WriteMatches, Drop, WriteRecord, EventFileFails, Error, CountRecord, CheckCount,
     Undisturbed, history
<1>5. CASE Ending
  BY <1>1, <1>5 DEF Ending, Flush, ExportFails, Close, Undisturbed, history
<1>6. CASE UNCHANGED vars
  BY <1>1, <1>6 DEF vars, Undisturbed
<1> QED BY <1>1, <1>2, <1>3, <1>4, <1>5, <1>6 DEF Next

LEMMA LinesType ==
  ASSUME Control
  PROVE  /\ IsFiniteSet(FlowNumbers) /\ lines \in [FlowNumbers -> Nat]
         /\ Total(lines, FlowNumbers) \in Nat
         /\ hand \subseteq FlowNumbers
         /\ flowsWritten \in Nat /\ sub \in Nat
<1>1. IsFiniteSet(FlowNumbers) /\ lines \in [FlowNumbers -> Nat]
  <2>1. IsFiniteSet(1..MaxItems)
    BY FS_Interval, BoundsAreNumbers
  <2> QED BY <2>1 DEF FlowNumbers, Control
<1>2. Total(lines, FlowNumbers) \in Nat
  BY <1>1, TotalIsNat
<1>3. hand \subseteq FlowNumbers
  BY BoundsAreNumbers DEF Control, FlowNumbers
<1> QED BY <1>1, <1>2, <1>3 DEF Control

LEMMA StepFlowsCounted == Control /\ FlowsCounted /\ [Next]_vars => FlowsCounted'
<1> SUFFICES ASSUME Control, FlowsCounted, [Next]_vars PROVE FlowsCounted'
  OBVIOUS
<1>1. /\ Total(lines, FlowNumbers) \in Nat /\ flowsWritten \in Nat /\ sub \in Nat
      /\ flowsWritten + sub <= Total(lines, FlowNumbers) /\ (sub # 0 => pc \in {"flows", "rest"})
      /\ Undisturbed /\ "export" \notin troubles => flowsWritten + sub = Total(lines, FlowNumbers)
  BY LinesType DEF FlowsCounted
<1>2. Undisturbed' => Undisturbed
  BY UndisturbedSoFar
\* Nothing is written and nothing is counted.
<1>3. ASSUME UNCHANGED <<lines, flowsWritten, sub>>, "export" \notin troubles' => "export" \notin troubles,
             pc \notin {"flows", "rest"} \/ pc' = pc
      PROVE  FlowsCounted'
  BY <1>1, <1>2, <1>3 DEF FlowsCounted
\* A call of _write_flows is left before it returns, or none is under way.
<1>4. ASSUME UNCHANGED <<lines, flowsWritten>>, sub' = 0, ~Undisturbed' \/ "export" \in troubles'
      PROVE  FlowsCounted'
  <2>1. flowsWritten' + sub' <= Total(lines, FlowNumbers)
    BY <1>1, <1>4
  <2> QED BY <1>4, <2>1 DEF FlowsCounted
<1>5. ASSUME NEW from, Error(from) PROVE FlowsCounted'
  BY <1>4, <1>5 DEF Error, Undisturbed
<1>6. CASE Reading
  <2>1. CASE SourceFails
    BY <1>5, <2>1 DEF SourceFails
  <2>2. CASE NextItem \/ EndOfSource \/ NotTracked
    BY <1>3, <2>2 DEF NextItem, EndOfSource, NotTracked, Goto, history
  <2> QED BY <1>6, <2>1, <2>2 DEF Reading
<1>7. CASE Tracking
  BY <1>3, <1>7 DEF Tracking, ListLeaving, Release, TrackerRaises, Insert, Drain, Goto, history
<1>8. ASSUME NEW f \in hand, NEW at \in {"flows", "rest"}, WriteFlow(f, at) PROVE FlowsCounted'
  <2>1. /\ lines' = [lines EXCEPT ![f] = @ + 1] /\ sub' = sub + 1 /\ flowsWritten' = flowsWritten
        /\ pc' = at /\ troubles' = troubles
    BY <1>8 DEF WriteFlow, Goto, history
  <2>2. Total(lines', FlowNumbers) = Total(lines, FlowNumbers) + 1
    <3>1. f \in FlowNumbers /\ 1 \in Nat
      BY LinesType
    <3>2. IsFiniteSet(FlowNumbers) /\ lines \in [FlowNumbers -> Nat]
      BY LinesType
    <3>3. Total([lines EXCEPT ![f] = @ + 1], FlowNumbers) = Total(lines, FlowNumbers) + 1
      BY <3>1, <3>2, TotalGrows
    <3> QED BY <2>1, <3>3
  <2>3. /\ flowsWritten' + sub' <= Total(lines', FlowNumbers)
        /\ flowsWritten + sub = Total(lines, FlowNumbers) => flowsWritten' + sub' = Total(lines', FlowNumbers)
    BY <1>1, <2>1, <2>2
  <2> QED BY <1>1, <1>2, <2>1, <2>3 DEF FlowsCounted
<1>9. ASSUME NEW f \in hand, NEW at \in {"flows", "rest"}, SkipFlow(f, at) PROVE FlowsCounted'
  BY <1>3, <1>9 DEF SkipFlow, Goto
<1>10. ASSUME NEW at \in {"flows", "rest"}, FlowsDone(at) PROVE FlowsCounted'
  <2>1. flowsWritten' = flowsWritten + sub /\ sub' = 0 /\ lines' = lines /\ troubles' = troubles
    BY <1>10 DEF FlowsDone, history
  <2>2. flowsWritten' + sub' = flowsWritten + sub
    BY <1>1, <2>1
  <2> QED BY <1>1, <1>2, <2>1, <2>2 DEF FlowsCounted
<1>11. CASE FlowFileFails
  BY <1>5, <1>11 DEF FlowFileFails
<1>12. CASE Writing
  <2>1. CASE EventFileFails
    BY <1>5, <2>1 DEF EventFileFails
  <2>2. CASE WriteMatches \/ Drop \/ WriteRecord \/ CountRecord \/ CheckCount
    BY <1>3, <2>2 DEF WriteMatches, Drop, WriteRecord, CountRecord, CheckCount, Goto, history
  <2> QED BY <1>12, <2>1, <2>2 DEF Writing
<1>13. CASE Flush
  BY <1>3, <1>13 DEF Flush, Goto, history
<1>14. CASE ExportFails
  BY <1>4, <1>14 DEF ExportFails
<1>15. CASE Close
  BY <1>3, <1>15 DEF Close, Goto
<1>16. CASE Interrupt
  <2>1. UNCHANGED <<lines, flowsWritten>> /\ sub' = 0
    BY <1>16, InterruptStep
  <2> QED BY <1>4, <1>16, <2>1, UndisturbedSoFar
<1>17. CASE UNCHANGED vars
  BY <1>3, <1>17 DEF vars
<1> QED BY <1>6, <1>7, <1>8, <1>9, <1>10, <1>11, <1>12, <1>13, <1>14, <1>15, <1>16, <1>17
        DEF Next, WritingFlows, Ending

\* Steps that read, write and count no item.
LEMMA NoItemStep ==
  ASSUME ItemsCounted, [Next]_vars, UNCHANGED <<count, read, written, dropped, events>>,
         pc' # "wrote", pc' # "fetch",
         Undisturbed' => pc # "wrote" /\ (pc' \notin Working => pc \notin Working)
  PROVE  ItemsCounted'
BY UndisturbedSoFar DEF ItemsCounted

LEMMA StepItemsCounted == Control /\ Written /\ ItemsCounted /\ [Next]_vars => ItemsCounted'
<1> SUFFICES ASSUME Control, Written, ItemsCounted, [Next]_vars PROVE ItemsCounted'
  OBVIOUS
<1>1. /\ read \in Nat /\ written \in Nat /\ dropped \in Nat /\ Len(events) \in Nat
      /\ (count # Unlimited => count \in Nat)
  BY BoundsAreNumbers, CountsArePositive DEF Control, Written
<1>2. Undisturbed' => Undisturbed
  BY UndisturbedSoFar
<1>3. ASSUME NEW from, Error(from) PROVE ItemsCounted'
  <2>1. pc' = "export" /\ UNCHANGED <<count, read, written, dropped, events>> /\ ~Undisturbed'
    BY <1>3 DEF Error, Goto, counters, files, Undisturbed
  <2> QED BY <2>1, NoItemStep
<1>4. CASE NextItem
  <2>1. /\ pc = "fetch" /\ pc' = "track" /\ read' = read + 1
        /\ UNCHANGED <<count, written, dropped, events>>
    BY <1>4 DEF NextItem, Goto, files
  <2> QED BY <1>1, <1>2, <2>1 DEF ItemsCounted, Working
<1>5. CASE EndOfSource \/ SourceFails \/ NotTracked
  BY <1>3, <1>5, NoItemStep DEF EndOfSource, SourceFails, NotTracked, Goto, counters, files, Working
<1>6. CASE Tracking
  BY <1>6, NoItemStep DEF Tracking, ListLeaving, Release, TrackerRaises, Insert, Drain, Goto, counters, files, Working
<1>7. CASE WritingFlows
  <2>1. CASE FlowFileFails
    BY <1>3, <2>1 DEF FlowFileFails
  <2>2. ASSUME NEW f \in hand, NEW at \in {"flows", "rest"}, WriteFlow(f, at) \/ SkipFlow(f, at)
        PROVE  ItemsCounted'
    BY <2>2, NoItemStep DEF WriteFlow, SkipFlow, Goto, counters, files, Working
  <2>3. ASSUME NEW at \in {"flows", "rest"}, FlowsDone(at) PROVE ItemsCounted'
    BY <2>3, NoItemStep DEF FlowsDone, Goto, counters, files, Working
  <2> QED BY <1>7, <2>1, <2>2, <2>3 DEF WritingFlows
<1>8. CASE WriteMatches
  BY <1>8, NoItemStep DEF WriteMatches, Goto, counters, Working
<1>9. CASE Drop
  <2>1. /\ pc = "record" /\ pc' = "next" /\ dropped' = dropped + 1
        /\ UNCHANGED <<count, read, written, events>>
    BY <1>9 DEF Drop, Goto, files
  <2>2. Len(events) + dropped = read - 1
    BY <2>1 DEF Written, Working
  <2> QED BY <1>1, <1>2, <2>1, <2>2 DEF ItemsCounted
<1>10. CASE WriteRecord
  <2>1. /\ pc = "record" /\ pc' = "wrote" /\ events' = Append(events, read)
        /\ UNCHANGED <<count, read, written, dropped>>
    BY <1>10 DEF WriteRecord, Goto, counters
  <2>2. Len(events) + dropped = read - 1
    BY <2>1 DEF Written, Working
  <2>3. Len(events') = Len(events) + 1
    BY <2>1 DEF Written
  <2> QED BY <1>1, <1>2, <2>1, <2>2, <2>3 DEF ItemsCounted
<1>11. CASE EventFileFails
  BY <1>3, <1>11 DEF EventFileFails
<1>12. CASE CountRecord
  <2>1. /\ pc = "wrote" /\ pc' = "next" /\ written' = written + 1
        /\ UNCHANGED <<count, read, dropped, events>>
    BY <1>12 DEF CountRecord, Goto, files
  <2> QED BY <1>1, <1>2, <2>1 DEF ItemsCounted, Working
<1>13. CASE CheckCount
  <2>1. /\ pc = "next" /\ pc' = IF CountReached THEN "export" ELSE "fetch"
        /\ UNCHANGED <<count, read, written, dropped, events>>
    BY <1>13 DEF CheckCount, Goto, counters, files
  <2> QED BY <1>1, <1>2, <2>1 DEF ItemsCounted, CountReached, Working
<1>14. CASE Ending
  BY <1>14, NoItemStep DEF Ending, Flush, ExportFails, Close, Finally, Goto, counters, files, Working
<1>15. CASE Interrupt
  <2>1. pc' \in {"export", "close", "end"} /\ UNCHANGED <<count, read, written, dropped, events>>
    BY <1>15, InterruptStep
  <2> QED BY <1>15, <2>1, NoItemStep, UndisturbedSoFar
<1>16. CASE UNCHANGED vars
  <2>1. UNCHANGED <<pc, count, read, written, dropped, events>>
    BY <1>16 DEF vars
  <2> QED BY <1>2, <2>1 DEF ItemsCounted
<1> QED BY <1>4, <1>5, <1>6, <1>7, <1>8, <1>9, <1>10, <1>11, <1>12, <1>13, <1>14, <1>15, <1>16
        DEF Next, Reading, Writing

LEMMA InitCounted == Init => FlowsCounted /\ ItemsCounted
<1> SUFFICES ASSUME Init PROVE FlowsCounted /\ ItemsCounted
  OBVIOUS
<1>1. IsFiniteSet(FlowNumbers) /\ \A f \in FlowNumbers : lines[f] = 0
  BY InitInv, LinesType DEF Init
<1>2. Total(lines, FlowNumbers) = 0
  BY <1>1, TotalZero
<1>3. Len(<<>>) = 0 /\ (count # Unlimited => count \in Nat \ {0})
  BY CountsArePositive DEF Init
<1>4. FlowsCounted
  BY <1>2 DEF Init, FlowsCounted
<1>5. ItemsCounted
  BY <1>3 DEF Init, ItemsCounted
<1> QED BY <1>4, <1>5

\* The summary never claims more than the files hold, and is exact unless a Ctrl-C, an error or a failing
\* export came between the file and its counter; --count is never exceeded.
THEOREM SummaryIsRight == Spec => []SummaryIsExact
<1> DEFINE Inv == Control /\ Written /\ FlowsCounted /\ ItemsCounted
<1>1. Inv => SummaryIsExact
  <2> SUFFICES ASSUME Inv PROVE SummaryIsExact
    OBVIOUS
  <2>1. Lines = Total(lines, FlowNumbers)
    BY DEF Lines, Total
  <2>2. flowsWritten \in Nat /\ sub \in Nat /\ Total(lines, FlowNumbers) \in Nat
    BY LinesType
  <2>3. flowsWritten <= Lines
    BY <2>1, <2>2 DEF FlowsCounted
  <2>4. ASSUME Summarised, cuts = {}, "export" \notin troubles PROVE flowsWritten = Lines
    <3>1. flowsWritten + sub = Total(lines, FlowNumbers) /\ sub = 0
      BY <2>4 DEF Summarised, FlowsCounted, Undisturbed
    <3> QED BY <2>1, <2>2, <3>1
  <2>5. ASSUME Summarised, cuts = {} PROVE written + dropped = read /\ written = Len(events)
    <3>1. Len(events) = written /\ Len(events) + dropped = read
      BY <2>5 DEF Summarised, ItemsCounted, Undisturbed, Working
    <3> QED BY <3>1
  <2> QED BY <2>3, <2>4, <2>5 DEF SummaryIsExact, ItemsCounted
<1>2. Spec => []Inv
  <2>1. Init => Control /\ Written /\ FlowsCounted /\ ItemsCounted
    BY InitInv, InitCounted
  <2>2. Inv /\ [Next]_vars => Inv'
    BY StepControl, StepWritten, StepFlowsCounted, StepItemsCounted
  <2> QED BY <2>1, <2>2, PTL DEF Spec
<1> QED BY <1>1, <1>2, PTL
===============================================================================
