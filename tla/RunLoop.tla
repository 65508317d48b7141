-------------------------------- MODULE RunLoop --------------------------------
(***************************************************************************)
(* run() of src/ids/cli.py: the one loop that reads items, has the tracker *)
(* follow their flows, and writes the flows file, the matches and the      *)
(* events.  The loop ends at the end of the input, at --count, by an error *)
(* or by a Ctrl-C at any instant, and its finally clause exports the flows *)
(* that remain.                                                            *)
(*                                                                         *)
(* The tracker is taken as the ledger of FlowLedger, but with the steps    *)
(* that a Ctrl-C can come between: it lists the flows that leave, removes  *)
(* them from its tables, enters a new flow, and hands over its records.    *)
(***************************************************************************)
EXTENDS Integers, Sequences, FiniteSets, FiniteSetsExt

CONSTANTS
  Counts,        \* the values that --count may have
  Unlimited,     \* no --count
  MaxItems,      \* bound of the model: the items of the source
  MaxInterrupts  \* bound of the model: how often Ctrl-C is pressed

ASSUME CountsArePositive == Counts \subseteq {Unlimited} \cup (Nat \ {0})
ASSUME UnlimitedIsNoNumber == Unlimited \notin Nat
ASSUME BoundsAreNumbers == MaxItems \in Nat /\ MaxInterrupts \in Nat

VARIABLES
  pc,           \* where the program is
  count,        \* --count, fixed for the run
  read, written, dropped, flowsWritten,  \* the counters of the summary
  kept,         \* whether the item in hand gives an output record
  table,        \* the flows in the tracker's tables, numbered in order of creation
  pending,      \* the flows whose records wait in the tracker
  leaving,      \* the flows the tracker has listed and not yet removed
  hand,         \* the flows whose records the tracker returned and the loop has not written
  twice,        \* those of them that the loop holds two records of
  sub,          \* the counter of the current call of _write_flows
  lines,        \* lines[f] is how often flow f is in the flows file
  events,       \* the items in the events file, in order
  matched,      \* the items that have a rule match in the matches file
  cause,        \* why the loop ended: none (by itself), interrupt, error
  opened,       \* history: the number of flows created
  cuts,         \* history: where Ctrl-C came
  caught,       \* history: the flows that were listed and not yet removed when Ctrl-C came
  troubles      \* history: the failures of the flows file and of the flush

vars == <<pc, count, read, written, dropped, flowsWritten, kept, table, pending, leaving, hand, twice, sub,
          lines, events, matched, cause, opened, cuts, caught, troubles>>
counters == <<read, written, dropped>>
tracker == <<table, pending, leaving, opened>>
files == <<events, matched>>
history == <<cuts, caught, troubles>>

FlowNumbers == 1..MaxItems
Loop == {"fetch", "track", "release", "insert", "drain", "flows", "matches", "record", "wrote", "next"}
Finally == {"export", "rest"}

Init ==
  /\ pc = "fetch" /\ count \in Counts
  /\ read = 0 /\ written = 0 /\ dropped = 0 /\ flowsWritten = 0 /\ sub = 0
  /\ kept = FALSE
  /\ table = {} /\ pending = {} /\ leaving = {} /\ hand = {} /\ twice = {}
  /\ lines = [f \in FlowNumbers |-> 0] /\ events = <<>> /\ matched = {}
  /\ cause = "none" /\ opened = 0 /\ cuts = {} /\ caught = {} /\ troubles = {}

Goto(from, to) == pc = from /\ pc' = to

-------------------------------------------------------------------------------
\* The source and the pipeline.

NextItem ==
  /\ Goto("fetch", "track")
  /\ read < MaxItems
  /\ read' = read + 1
  /\ UNCHANGED <<count, written, dropped, flowsWritten, kept, tracker, hand, twice, sub, lines, files,
                 cause, history>>

EndOfSource ==
  /\ Goto("fetch", "export")
  /\ UNCHANGED <<count, counters, flowsWritten, kept, tracker, hand, twice, sub, lines, files, cause, history>>

\* Slip: an error leaves the loop without the finally clause.
ErrorSkipsExport(from) ==
  /\ Goto(from, "close") /\ cause' = "error" /\ hand' = {} /\ twice' = {} /\ sub' = 0
  /\ UNCHANGED <<count, counters, flowsWritten, kept, tracker, lines, files, cuts, caught>>

\* An OSError leaves the loop for its finally clause.
Error(from) ==
  /\ Goto(from, "export") /\ cause' = "error" /\ hand' = {} /\ twice' = {} /\ sub' = 0
  /\ UNCHANGED <<count, counters, flowsWritten, kept, tracker, lines, files, cuts, caught>>

SourceFails == Error("fetch") /\ UNCHANGED troubles

\* The item is dropped, or is no packet to keep: the tracker does not see it.
NotTracked ==
  /\ Goto("track", "flows")
  /\ kept' \in BOOLEAN
  /\ UNCHANGED <<count, counters, flowsWritten, tracker, hand, twice, sub, lines, files, cause, history>>

-------------------------------------------------------------------------------
\* The tracker.

ListLeaving(gone) ==
  /\ Goto("track", "release")
  /\ kept' = TRUE
  /\ pending' = pending \cup gone /\ leaving' = gone
  /\ UNCHANGED <<count, counters, flowsWritten, table, opened, hand, twice, sub, lines, files, cause, history>>

Release ==
  /\ Goto("release", "insert")
  /\ table' = table \ leaving /\ leaving' = {}
  /\ UNCHANGED <<count, counters, flowsWritten, kept, pending, opened, hand, twice, sub, lines, files,
                 cause, history>>

\* Enricher.process catches what the tracker raises; `exported' stays empty.
TrackerRaises ==
  /\ Goto("insert", "flows")
  /\ UNCHANGED <<count, counters, flowsWritten, kept, tracker, hand, twice, sub, lines, files, cause, history>>

Insert ==
  /\ Goto("insert", "drain")
  /\ \/ opened' = opened + 1 /\ table' = table \cup {opened'}
     \/ UNCHANGED <<opened, table>>
  /\ UNCHANGED <<count, counters, flowsWritten, kept, pending, leaving, hand, twice, sub, lines, files,
                 cause, history>>

\* Slip: the records are handed over and not forgotten.
DrainKeepsPending ==
  /\ Goto("drain", "flows")
  /\ hand' = pending /\ UNCHANGED twice
  /\ UNCHANGED <<count, counters, flowsWritten, kept, tracker, sub, lines, files, cause, history>>

Drain ==
  /\ Goto("drain", "flows")
  /\ hand' = pending /\ pending' = {} /\ UNCHANGED twice
  /\ UNCHANGED <<count, counters, flowsWritten, kept, table, leaving, opened, sub, lines, files,
                 cause, history>>

-------------------------------------------------------------------------------
\* The files.

TakeRecord(f) ==
  \/ f \in twice /\ twice' = twice \ {f} /\ UNCHANGED hand
  \/ f \notin twice /\ hand' = hand \ {f} /\ UNCHANGED twice

\* _write_flows, in the loop (at = "flows") and in the finally clause (at = "rest").
WriteFlow(f, at) ==
  /\ Goto(at, at)
  /\ TakeRecord(f)
  /\ lines' = [lines EXCEPT ![f] = @ + 1] /\ sub' = sub + 1
  /\ UNCHANGED <<count, counters, flowsWritten, kept, tracker, files, cause, history>>

\* A record that is no JSON: a warning, and the next one.
SkipFlow(f, at) ==
  /\ Goto(at, at)
  /\ TakeRecord(f) /\ troubles' = troubles \cup {"skipped"}
  /\ UNCHANGED <<count, counters, flowsWritten, kept, tracker, sub, lines, files, cause, cuts, caught>>

\* Slip: the count of _write_flows replaces the total.
FlowsDoneResets(at) ==
  /\ Goto(at, IF at = "flows" THEN "matches" ELSE "close")
  /\ hand = {}
  /\ flowsWritten' = sub /\ sub' = 0
  /\ UNCHANGED <<count, counters, kept, tracker, hand, twice, lines, files, cause, history>>

FlowsDone(at) ==
  /\ Goto(at, IF at = "flows" THEN "matches" ELSE "close")
  /\ hand = {}
  /\ flowsWritten' = flowsWritten + sub /\ sub' = 0
  /\ UNCHANGED <<count, counters, kept, tracker, hand, twice, lines, files, cause, history>>

FlowFileFails ==
  /\ hand # {} /\ Error("flows") /\ troubles' = troubles \cup {"flows"}

\* _write_matches: any number of matches, and an error is only counted.
WriteMatches ==
  /\ Goto("matches", "record")
  /\ \/ UNCHANGED matched
     \/ kept /\ matched' = matched \cup {read}
  /\ UNCHANGED <<count, counters, flowsWritten, kept, tracker, hand, twice, sub, lines, events, cause, history>>

Drop ==
  /\ Goto("record", "next") /\ ~kept
  /\ dropped' = dropped + 1
  /\ UNCHANGED <<count, read, written, flowsWritten, kept, tracker, hand, twice, sub, lines, files,
                 cause, history>>

\* _write_record: the record or a smaller one in its place.
WriteRecord ==
  /\ Goto("record", "wrote") /\ kept
  /\ events' = Append(events, read)
  /\ UNCHANGED <<count, counters, flowsWritten, kept, tracker, hand, twice, sub, lines, matched,
                 cause, history>>

\* Slip: the run goes on when the event cannot be written.
EventFileIgnored ==
  /\ Goto("record", "next") /\ kept
  /\ UNCHANGED <<count, counters, flowsWritten, kept, tracker, hand, twice, sub, lines, files, cause, history>>

EventFileFails == kept /\ Error("record") /\ UNCHANGED troubles

CountRecord ==
  /\ Goto("wrote", "next")
  /\ written' = written + 1
  /\ UNCHANGED <<count, read, dropped, flowsWritten, kept, tracker, hand, twice, sub, lines, files,
                 cause, history>>

CountReached == count # Unlimited /\ read >= count

CheckCount ==
  /\ Goto("next", IF CountReached THEN "export" ELSE "fetch")
  /\ UNCHANGED <<count, counters, flowsWritten, kept, tracker, hand, twice, sub, lines, files, cause, history>>

-------------------------------------------------------------------------------
\* The finally clause and the end.

\* The records that wait and one of every tabled flow.
Flush ==
  /\ Goto("export", "rest")
  /\ hand' = pending \cup table /\ twice' = pending \cap table
  /\ table' = {} /\ pending' = {}
  /\ UNCHANGED <<count, counters, flowsWritten, kept, leaving, opened, sub, lines, files, cause, history>>

\* _export_remaining catches an exception of the flush or of a write: a warning, and nothing is counted.
ExportFails ==
  /\ pc \in Finally /\ pc' = "close"
  /\ hand' = {} /\ twice' = {} /\ sub' = 0 /\ troubles' = troubles \cup {"export"}
  /\ UNCHANGED <<count, counters, flowsWritten, kept, tracker, lines, files, cause, cuts, caught>>

\* The files are closed, and the last lines may not fit on the disk.
Close ==
  /\ Goto("close", "end")
  /\ \/ UNCHANGED <<cause, troubles>>
     \/ cause' = "error" /\ troubles' = troubles \cup {"close"}
  /\ UNCHANGED <<count, counters, flowsWritten, kept, tracker, hand, twice, sub, lines, files, cuts, caught>>

\* Ctrl-C.  The records in hand are gone with the frame that holds them.  The flows that the tracker was
\* removing are gone in part: the record of each of them waits.
Interrupt ==
  /\ pc # "end" /\ Cardinality(cuts) < MaxInterrupts
  /\ pc' = IF pc \in Loop THEN "export" ELSE IF pc \in Finally THEN "close" ELSE "end"
  /\ cause' = "interrupt"
  /\ hand' = {} /\ twice' = {} /\ sub' = 0 /\ leaving' = {}
  /\ \E gone \in SUBSET leaving : table' = table \ gone /\ caught' = caught \cup (leaving \ gone)
  /\ cuts' = cuts \cup {IF pc = "flows" /\ hand = {} THEN "flows done" ELSE pc}
  /\ UNCHANGED <<count, counters, flowsWritten, kept, pending, opened, lines, files, troubles>>

-------------------------------------------------------------------------------
Reading == NextItem \/ EndOfSource \/ SourceFails \/ NotTracked
Tracking == (\E gone \in SUBSET table : ListLeaving(gone)) \/ Release \/ TrackerRaises \/ Insert \/ Drain
WritingFlows ==
  \/ \E f \in hand, at \in {"flows", "rest"} : WriteFlow(f, at) \/ SkipFlow(f, at)
  \/ \E at \in {"flows", "rest"} : FlowsDone(at)
  \/ FlowFileFails
Writing == WriteMatches \/ Drop \/ WriteRecord \/ EventFileFails \/ CountRecord \/ CheckCount
Ending == Flush \/ ExportFails \/ Close

Next == Reading \/ Tracking \/ WritingFlows \/ Writing \/ Ending \/ Interrupt

Spec == Init /\ [][Next]_vars
-------------------------------------------------------------------------------
Lines == MapThenSumSet(LAMBDA f : lines[f], FlowNumbers)
Summarised == pc = "end" /\ cause # "error"

\* Types of the state.
TypeOK ==
  /\ pc \in Loop \cup Finally \cup {"close", "end"} /\ cause \in {"none", "interrupt", "error"}
  /\ count \in Counts /\ kept \in BOOLEAN
  /\ {read, written, dropped, flowsWritten, sub, opened} \subseteq Nat
  /\ table \cup pending \cup leaving \cup hand \cup caught \subseteq 1..opened /\ twice \subseteq hand
  /\ lines \in [FlowNumbers -> Nat] /\ events \in Seq(1..read) /\ matched \subseteq 1..read

\* No flow is in the flows file twice, except those that Ctrl-C catches inside the tracker "after it listed
\* the flows that leave and before it removed them from the table" (README, known limits): the flush lists
\* these again, and whatever fails or is pressed after that they have two lines at most.
LineOncePerFlow == \A f \in FlowNumbers : lines[f] <= IF f \in caught THEN 2 ELSE 1

\* Whatever ends the run (the input, --count, an error, Ctrl-C), each flow that the tracker created is in
\* the flows file, unless that file fails or Ctrl-C comes while records are in the loop's hands or while
\* the remaining flows are exported.
EveryFlowWritten ==
  pc = "end" /\ troubles = {} /\ cuts \cap {"flows", "export", "rest"} = {} =>
    \A f \in 1..opened : lines[f] >= 1

\* The summary never counts more than the files hold.  A run that no Ctrl-C and no failing export
\* disturbs counts exactly: an item is written or dropped, and the loop reads no more than --count items.
SummaryIsExact ==
  /\ written <= Len(events) /\ flowsWritten <= Lines
  /\ Summarised /\ cuts = {} =>
       /\ written + dropped = read /\ written = Len(events)
       /\ "export" \notin troubles => flowsWritten = Lines
  /\ count # Unlimited => read <= count

\* Ctrl-C costs the events file one item at most, the last one: every earlier item was written, in order,
\* or dropped.
OneItemInFlight ==
  /\ \A i, j \in DOMAIN events : i < j => events[i] < events[j]
  /\ Len(events) + dropped \in {read - 1, read}

\* model.py, RuleMatch: "packet_id and source link it to the event": the matches are written before the
\* event, so at most the match of the last item has no event in the file.
MatchesHaveEvents ==
  \A i \in matched : i = read \/ \E k \in DOMAIN events : events[k] = i

\* README:947 names two windows in which Ctrl-C "can break the flows file": the records that the tracker
\* returned are not written yet, and the tracker is between listing and removing flows.
OnlyTwoWindows ==
  pc = "end" /\ troubles = {} /\ cuts \cap {"release", "flows", "rest"} = {} =>
    \A f \in 1..opened : lines[f] = 1

\* README:149: "flows written counts the lines of the flows file."
FlowsWrittenCountsLines == Summarised => flowsWritten = Lines
===============================================================================
