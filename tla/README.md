# A TLA+ model of the packet sensor in `ids/`

The program reads packets (a PCAP file, a live interface, or the JSON lines of an earlier run), turns each one
into an event, follows the flows the packets belong to, matches rules, and writes JSON lines. Everything runs in
one thread, except the live capture, which has a thread of its own.

This directory holds the specification: TLA+ modules translated from the Python source, TLC configurations that
check small instances, and TLAPS proofs for all values of the constants.

```
tlc -workers 2 -config flow_late.cfg MCFlowTracker.tla     # every .cfg names its questions
tlapm FlowTrackerProofs.tla
```

## 1. Inventory

| Component | State it keeps | Operations | Interacts with | Hard behaviour |
| --- | --- | --- | --- | --- |
| Flow tracker, `stages/flow.py` | two `OrderedDict` tables, the clock `_now`, `_pending` records, `_created` | `update`, `context`, `flush` | called by Enricher | packets out of order, limits, exceptions in the middle of a call, TCP life cycle |
| Live capture, `capture/live.py` | queue, list of failures, stop event, thread | `__iter__` | Scapy's `sniff` in a daemon thread; the run loop | two threads, sentinel, failure of the thread, a capture that ends without one, Ctrl-C |
| Run loop, `cli.py` `run` | counters, open files | one iteration per item, final export | all others | Ctrl-C at any instant, errors, what is in which file at the end |
| JSON lines writer, `output.py` | file, count of unflushed lines | `write`, `flush`, `close` | run loop | a line that is no JSON, a file that fails |
| Enricher, `enrich.py` | the tracker | `process`, `flush`, `flow_context` | decoder, preprocessor, tracker | a stage that fails half-way; the drop policy must not hide a bug |
| Pipeline, `pipeline.py` | packet counter | `process` | parsers, detector | the status of an event after any set of failing stages |
| Rule engine, `engine/repository.py`, `matcher.py`, `evaluator.py` | rule index, counters | `candidates`, `match`, `evaluate` | run loop, flow context | an index that must not lose a rule; backtracking with a memory of failures |
| Rule loader and parser, `engine/loader.py`, `parser.py` | none | `load_rules`, `parse_rule` | rule files | text parsing |
| Event reader, `capture/events.py` | file position | `__iter__` | replayed event files, run loop | lines at the size limit, bad lines, a record of any JSON |
| Application detector, `parsers/detector.py` | none | `detect_app_protocol` | pipeline | it reads the payload on its own, and the parser must find what it found |
| Protocol parsers, `parsers/` | none | `parse_ipv4`, `parse_transport`, `parse_http`, `parse_smtp`, `parse_dns`, `read_name` | pipeline | compression pointers; lengths that are cut or contradict each other |
| Decoder, `stages/decoder.py`, `mime.py` | none | `decode_record`, `decode_mime` | enricher | payloads cut in the middle of what is decoded |
| Preprocessor, `stages/preprocessor.py` | none | `preprocess_record` | enricher, the tracker behind it | it alone checks the values that the tracker reads |
| PCAP source, rule match records, event schema, configuration | none | data, I/O | | |

What makes each component correct:

- **Flow tracker**: no flow and no packet is lost or exported twice; the limit holds; a flow ends for the reason
  its record gives; both directions share one flow; the TCP state only moves forward; when packets are in order,
  looking at the front of each table is enough.
- **Live capture**: packets reach the loop in order and completely; a failure reaches the loop; the loop always
  ends; the thread is asked to end and is not waited for without limit.
- **Run loop**: each flow reaches the flows file once, whatever ends the run; the summary agrees with the files.
- **Pipeline, enricher**: one bad record or stage costs only its own fields; a failure shows in the output, whatever
  the drop policy; a status hides no error.
- **Flow context**: the rules see the flow of their own packet, after the packet, or none.
- **Detector and parsers**: what the detector takes a payload for, the parser finds in it; reading a name stays in
  the message and ends.
- **Decoder**: what could not be read is told, and nothing else is.
- **Preprocessor**: a record goes to the tracker only with a whole key and time in range; the normalized path holds no
  segment that a browser would remove.
- **Rule parser, engine**: each line gets its documented status; a rule that matches is found, with the positions a
  full search would find first.
- **Start-up**: no output empties a file that the run reads.
- **Event reader**: the records are those of the file split at its line ends, with a mark for each bad line.

## 2. Plan

1. `TcpState`, `FlowTracker` (the core), their proofs. *Done.*
2. `LiveSource`, its proofs. *Done.*
3. `FlowLedger`, what the tracker promises, and the refinement. *Done.*
4. `RunLoop`, its proofs. *Done.*
5. `Contents`, `ContentSearch`, and their proofs. *Done.*
6. `RuleEngine` (`repository.py`, `matcher.py`, `evaluator.py`, the report and the matches of `cli.py`); proofs for
   the index, the choice among duplicates, the report, the matches and the counters. *Done.*
7. `RuleParser` in front of it, so that the rules are what the parser makes of a line, and `StartUp` around it, with
   the checks of the outputs; their proofs. *Done.*
8. `Pipeline`, `Application`, `Dns`: a packet becomes an event, whichever stages fail; proofs that the event is
   honest and that a detected payload is parsed as such. *Done.*
9. `Enricher`, `Decoder`, `Preprocessor`: an event becomes an output record, whichever stages fail half-way; proofs
   that what is kept can be tracked, that a failure costs its own fields and stays visible, and that the path shown is
   that of RFC 3986. *Done.*
10. `EventReader`, `DnsReader`: the loops over bytes; proofs that each follows its reference. *Done.*
11. `ItemPath`, which composes 8 to 10. *Done.*
12. Quoted-Printable and charsets in `Decoder`; host, headers and domains in `Preprocessor`; the errors of the rule
    config in `StartUp`.

No module declares a recursive operator: loops over data are folds or recursive functions, so that every module can
be proved about. Each run ends within a few minutes.

## 3. Modules

| Module | Models |
| --- | --- |
| `TcpState` | the transition table `_RULES`, `first_step`, `next_step` of `flow.py` |
| `FlowTracker` | class `FlowTracker`, with `Enricher.process` as the handler of its exceptions |
| `FlowLedger` | abstract: flows are opened, end, and are handed over once |
| `LiveSource` | `LiveSource.__iter__`, its thread, and the loop of `run` that consumes it |
| `RunLoop` | `run`, `_write_flows`, `_write_record`, `_write_matches`, `_export_remaining` |
| `Contents` | `_region` and `find` as the set of occurrences of a content; the placements that satisfy a rule |
| `ContentSearch` | `_content_positions` and `_place` of `matcher.py`, step by step |
| `RuleParser` | `parse_rule`: the header, the options and their faults |
| `RuleEngine` | `load_rules`, `RuleRepository`, `_load_engine`, `match`, `Evaluator.evaluate`, `_write_matches` |
| `StartUp` | `parse_args` and the start of `run`: the checks of the outputs and the opening of the writers |
| `DnsName`, `DnsReader` | `read_name`: one turn of its loop as an operator, and the loop as a state machine |
| `Dns` | `parse_dns`, and `_is_dns_udp`, `_is_dns_tcp` of the detector |
| `Application` | `detect_app_protocol`, `parse_http`, `parse_smtp` |
| `Pipeline` | `Pipeline.process`, `_build_event`, `parse_ipv4`, `parse_transport` |
| `EventReader` | `EventFileSource.__iter__` |
| `Preprocessor` | `preprocess_record` |
| `Decoder` | `decode_record`, `decode_mime`, `decode_base64`, `frame_message` |
| `Enricher` | `Enricher.process`, `_write_record` with its fallbacks |
| `ItemPath` | composes the six above: an item from its source to the output, and back as the input of a later run |
| `MCFlowTracker`, `MCLiveSource`, `MCRunLoop`, `MCContentSearch`, `MCRuleEngine`, `MCItemPath` | values of the constants for TLC |
| `FoldProofs` | lemmas about sums and folds |
| `FlowTrackerProofs`, `LiveSourceProofs`, `RunLoopProofs`, `ContentSearchProofs`, `RuleEngineProofs`, `ReaderProofs`, `EnricherProofs` | theorems |

Operators marked "Slip" in a module are versions of the operator that follows them with a plausible mistake. No
specification uses them: they show which mistake each property notices (listed in `PROJECT.json`).

### FlowTracker

`flows` is both tables; a flow record has the fields of `_Flow` that decide anything. Its place in the table is
`turn`: the number of the call that inserted it or moved it to the end. A new key goes to the end of an
`OrderedDict`, also for a late packet; a known one moves only when the packet is not late. `Front` is then the
flow with the smallest `turn` of its protocol.

| TLA+ | Code |
| --- | --- |
| `Overdue(v)` | `_expire`: per table, up to the first flow that is not idle |
| `Same`, `Reused`, `Known` | `table.get(key)` after expiry, `step.restart` |
| `NeedsRoom`, `Oldest`, `Evicted` | `_make_room`, only when a flow will be created |
| `Create`, `Count`, `Move`, `Started`, `Continued` | `_create`, `_count`, the state assignment, `move_to_end` |
| `UpdateKnown`, `UpdateNew` | a call of `update` that returns |
| `UpdateFails(v, at)` | a call that raises after a step: after the clock moved (`clock`), after `_expire`, after the reuse, after `_make_room` (`room`), after `_count` |
| `Flush` | `flush`, once, at the end of the run |
| `Context(f)` | `context`: what stands in the table under the flow's key |

Abstractions: byte counts, flag counts and the order of records within one batch are left out, and times are
naturals. The flow id is the tuple that the code hashes (SHA digits are taken as injective). A packet that
`_observe` rejects changes nothing, so it is no action. Where a call can raise after the first read is left open
on purpose: `_release` and `process` say that no such failure may lose a flow, and the model tries every point.
An exception in the middle of `_count` is taken as one after it. `context` reads only. The call bound is
`MaxCalls`; `received`, `counted` and `delivered` are history.

### LiveSource

One variable per shared object: `packets` (the `SimpleQueue`), `failures`, `stop`; `worker` and `consumer` say where
each thread is. Scapy's `sniff` is external: it calls `collect` for each packet, then looks at `stop_filter` and
`count`. While it waits it may raise (`SniffFails`), or its socket may fail (`SocketFails`): Scapy handles that by
itself, closes the socket and returns as after the last packet, with no failure for the loop to see. The project's
README tells of such an end (`README.md:976`). `socket` is history. The consumer gets a packet, hands it to the loop
of `run`, and closes when it has the sentinel, enough packets (`--count`), an error, or Ctrl-C. A second Ctrl-C can
come in the `finally` clause. The bound is `MaxPackets`, what the interface ever delivers.

Fairness: weak fairness of `CheckStop` and `PutSentinel` (a thread that can run does run) and of the consumer's own
steps. `Collect`, `SniffFails` and `SocketFails` have none: an interface may stay silent for ever. That is the case in
which `join(timeout=1.0)` matters: `CloseTerminates` needs it and no packet.

### RunLoop

One step per statement that a Ctrl-C can separate. The tracker is the ledger, cut into the steps of a call: records
made (`ListLeaving`), flows removed (`Release`), flow entered (`Insert`), records returned (`Drain`). The three
releases of one call are one here; the flows that leave are any set, which covers every order. `lines` counts the
lines of each flow; `hand` is the flows of the records that `_write_flows` has not written yet and that an exception
drops. Ctrl-C may stop `Release` behind any of its deletions: a flow whose record waits is then still in the table
(`caught` remembers which), the flush lists it again, and `hand` holds two records of it (`twice`). `cuts` remembers
where Ctrl-C came and `troubles` which failure of the flows file or the flush happened, so that properties can say
"unless".

Left out: what the operating system keeps of a failed write (a failing write writes nothing, and a failing `close`
is a trouble of its own), the engine's counters, and the case that even the last fallback record is refused, which
`fallback_record` excludes by its construction. Bounds: `MaxItems`, `MaxInterrupts`.

### Contents and ContentSearch

`Occurrences(c, e, payload)` is what `find` can hit for content `c` when the one before it ended at `e`: the positions
in the window of `_region` at which the whole pattern fits, read in lower case for `nocase`. Bytes are the domain of
`Lower`, which gives the lower case of each. A modifier that is `None` in the code is the empty set, one that is set is
the set of its value. `Placements` is the reference: every choice of positions that satisfies the rule, with no search.

`ContentSearch` is the recursion of `_place` with its stack written out. `call` is the call that is entered or has just
returned, `stack` the calls that wait with the position each one tries, `failed` the set that the calls share.
`Search` and `Retry` are the first and the next `find`; `GiveUp` is the end of the `while` loop; `RecallFailure` is the
early return. The way back through the returns of a search that succeeded is one step (`Complete`): nothing can stop
it. `searched` is history. The search has no bound but the input. The only fairness is `WF_vars(Next)`: one thread
computes, and nothing stops it.

### RuleEngine

Three phases. `ReadFile` reads an entry of `rule_files`; each line of the file, a member of `RuleFiles[path]`, goes
through `ParseRule`. `SkipLine`, `RejectDuplicate`, `RejectDisabled` and `AddRule` are the branches of
`RuleRepository.__init__` for the next line, `WriteReport` is the end of `_load_engine`. Then each record is ignored
(`Ignore`: not kept), checked against its candidates (`Check`), or fails (`CheckFails`). `byPort` holds pairs of port
and rule, `wildcard` the rules of a protocol without a single port. `Outcome` is `match`: the stage that fails first,
with `HasPlacement` of `Contents` for the last stage, which `ContentSearch` shows to be what the search finds.

`RuleParser` reads a line as its header fields and the tokens between the parentheses. A text in quotes is a sequence
of characters, so that escapes, hex runs and semicolons in quotes are read as in the code; words and numbers outside
of quotes are one token each. The faults of a line are a sequence in the order of the checks, and the first one
decides. `MCRuleEngine` assumes, and TLC evaluates, the documented status of a line for each fault and each form of an
option, and that a text falls into its options without loss.

`StartUp` is the phases of a run: `ParseArguments`, `LoadRules` (the first two phases of the engine), `CheckOutputs`,
`OpenWriter` for each output, `Report` and `Run`. `listed` and `emptied` are history.

Abstractions: a network is the set of its addresses (TLC's have one address each), texts are left out, and the
counting at the end of `evaluate` is one step. Records and flow contexts are independent inputs, any context with any
record. Errors of the config end the start-up before anything is loaded and are left out. Bound: `MaxRecords`.

### ItemPath and its parts

A packet is what Scapy has dissected (external): the IPv4 fields, a transport layer with its lengths, and the captured
bytes. `PipelineProcess` builds its event; a stage in `failing` raises. The stages have no state, so the whole
pipeline is one action (`ProcessPacket`). Lengths are numbers, and the payload is cut by the arithmetic of the code,
which tells padding from payload.

A payload is text or bytes. Text is a sequence of tokens: a method, a version, a command, a blank, `CR`, `LF`, an
escape, a byte that is no UTF-8. Spellings that the code treats alike are one token. A DNS message is a sequence of
bytes, read byte by byte. `DnsReader` takes `read_name` apart into turns; `Dns` uses the same `Turn` in a fold.

`Decoder` and `Preprocessor` are functions from a record to what they add to it. A record has the fields that a stage
reads, each a value of any JSON type: an events file is foreign input. `Escapes`, `Entities`, `Addresses`, `IsoSeconds`
and `PortTexts` say what the library functions make of a text; the email package that splits a message into parts is
external.

| TLA+ | Code |
| --- | --- |
| `ReadLine`, `Discard` | one `readline` of `EventFileSource`, and one of the loop that skips the rest of a long line |
| `TakeItem`, `TakeRecord` | the loop of `run` takes an item of an events file |
| `Begin` | `process` clears an earlier enrichment of the record |
| `RunDecoder`, `RunPreprocessor`, `Track` | a stage that returns |
| `DecoderFails`, `PreprocessorFails`, `TrackerFails` | a stage that raises after it has written any of its fields; `_fail` |
| `Drop`, `Pass` | the drop policy |
| `Write`, `Refuse` | `_write_record`: the writer takes the record, or refuses it and gets the next fallback |
| `Replay` | the output line is an input line of a later run |

Left out: the tables and the `flush` of the tracker (`FlowTracker` has them; here a tracked record gets its flow id),
and the limit on the bytes of a header block. Bound: `MaxRounds`.

## 4. Runs

All runs set `CHECK_DEADLOCK FALSE`, because each system really stops: the tracker after `flush` or its last call, the
live capture when both threads are done or the interface stays silent, the loop, the search and the engine at their
end.

| Run | Asks | Bounds and why they are enough |
| --- | --- | --- |
| `flow_late` | `TableLimit`, `ExportedOnce`, `PacketsAccounted`, `ContextIsOwn`, `ExpirySound`, `EvictionIsNeeded`, `KeepsLedger` | Two TCP conversations and a UDP one in tables of two flows, so a third needs an eviction; times 0, 1, 3 against timeouts 2 and 1, so gaps are below, at and above each; SYN, RST and ACK, so a flow can end and be reused; packets late or not; exceptions at every point; four calls: fill the tables, fail, and use them again. |
| `flow_in_order` | `TableOrdered`, `ExpiryComplete`, `EvictedIsOldest`, `FinsMatchState`, `StateNeverReverts` | Two scenarios, kept apart by the constraint `OneScenario`. Four conversations, no late packet, times 0 to 3, five calls; exceptions only between the steps: one after the clock leaves idle flows until the next call, one after `_count` leaves a flow that was counted and not moved. And one connection, five packets, all 16 flag sets, both directions, three detections: the longest path of the table (handshake, established, FIN, FIN, last ACK) has five packets. |
| `flow_ids` | `FlowIdsUnique`, violated | Finding 1. |
| `live_source` | `InOrderOfCapture`, `FailureReachesConsumer`, `StopsAfterOnePacket`, `FinishedRunIsComplete`, `ConsumerNeverHangs`, `CloseTerminates` | Up to four packets with no `--count`, 1 and 3: more packets than the count, and the count reached while others are in the queue; the socket or `sniff` failing before and behind any of them. 2,600 states. |
| `run_loop` | `LineOncePerFlow`, `EveryFlowWritten`, `SummaryIsExact`, `MatchesHaveEvents` | Three items (two flows in the tables, and one that makes them leave), `--count` 2 or none, two Ctrl-C (one in the loop, one in the `finally` clause). 93,000 states. |
| `content_search` | `ResultIsFirst`, `SearchedOnce`, `SearchEnds` | All payloads of up to four bytes over `a`, `A`, `b`; all rules of one or two of fourteen contents that use every modifier, and chains of three and four: a call can come back only from the third content on, and with occurrences of its own only before a fourth. 136,000 states. |
| `rule_engine` | `CandidatesComplete`, `MatchesAreExact`, `FirstLineWins`, `ReportIsRight`, `CountersAddUp` | Two files in either order, missing, disabled or twice, and one without rules; a sid in both files; rules with no port, single ports, a range, `<>`, the same port twice and `ip`; outputs that clash with each other, with an input, with a rule file, or not; requests and replies on those ports; each stage fails and passes for some record; two records, so that counters go on after an error. 33,000 states. |
| `item_path` | `NameInBounds`, `NameIsReference`, `DetectedIsParsed`, `EventIsHonest`, `FailuresShow`, `LinesAreRecords`, `KeptIsTrackable`, `FailureCostsOwnFields`, `DecodingTellsLoss`, `PathIsReference` | See below. 138,000 states. |
| `run_windows` | `OnlyTwoWindows`, violated | Finding 2. |
| `run_summary` | `FlowsWrittenCountsLines`, violated | Finding 3. |
| `rules_report` | `ValidMeansUsed`, violated | Finding 4. |
| `outputs` | `RuleFilesAreSpared`, violated | Finding 5. |

The items of `item_path` are two groups (`MCItemPath`). *Few* items, at least one for each outcome of each stage of
the pipeline and of the reader, meet every set of failing stages, both drop policies, refusals of the writer and a
second run. *Many* items vary one thing each, and the constraint `ManyAreCalm` lets them come through without a
failure, once:

- DNS messages with every name of up to four bytes over a zero, a label, two positions and a pointer; every prefix of
  a query with an answer that points back; each record type with data that is too short, exact and too long;
- each start of a request, reply or command with every end of up to three tokens, on a mail port and another;
- files of up to six tokens of one byte with `MaxLine = 2` and `DiscardChunk = 2`: a line below, at and above the
  limit, with either line end or none, and a rest that takes one or several chunks;
- a record with each field of the flow key and time of each JSON type, and at and outside of its range;
- every path of up to four segments of dots, escaped dots and names;
- every Base64 body of up to six characters of the alphabet and paddings, whole and cut at `PayloadLimit` = 20 tokens;
- bodies and targets with good and bad escapes, entities and bytes, and characters that the cut or the end breaks;
- content encodings in one header and in several.

`MaxName = 9` and `MaxJumps = 2` let a name reach both limits in a message of that size; `MaxParts` = `MaxNesting` = 2
and `HeaderLimit` = `LineLimit` = 2 are passed by messages of three.

## 5. Findings

1. **Flow ids can repeat.** `_create` says "The same 5-tuple at the same start time would give the same id, so the new
   flow counts up" (`flow.py:188`), but it counts up only when the new flow directly replaces the old one. If the old
   one was evicted, the new one has occurrence 0 again. Shortest run: `--max-flows 1`, packets A-B, A-C, A-B with the
   same timestamp.
2. **A third place where Ctrl-C breaks the flows file.** The project's README names two windows. A Ctrl-C in the
   `finally` clause of `run`, before `flush` has returned, loses every tracked flow: `_export_remaining` catches
   `Exception` only. The run still ends with exit code 0.
3. **`flows written` can be too low.** `_write_flows` returns its count at its end; if Ctrl-C or a failing export
   comes before, the lines are in the file and not in the summary. `SummaryIsExact` shows that the count is never
   too high, and exact in an undisturbed run.
4. **A file that is listed twice makes its valid rules invalid in the report.** `_load_engine` finds a rejected line by
   file and line (`cli.py:257`), and the two copies of a line have the same. The engine uses the rules of the first
   copy; the report, the warnings and the summary call both copies invalid. `ReportIsRight` shows that the lookup is
   right whenever no file is listed twice.
5. **An output may be a rule file.** `_output_on_rule_file` compares the outputs with the files of the lines that
   were read (`cli.py:273`). The project's README says "An output file cannot be one of the rule files"
   (`README.md:100`), but a listed file that is disabled, or holds comments only, gives no line, and the writer
   empties it. `UsedFilesAreSpared`, proved, is what the check ensures: no file that gave a line is emptied.

`engine errors` counts a record whose matches could not be written as one error and leaves out the rest of its matches,
where the project's README speaks of "the rule matches that could not be written" (`README.md:208`). `CountersAddUp`
states what holds: without errors each match has its line.

Two more places where the README of the project promises what no run can show. A DNS message with more than 64
records in a section gets the error `limit` (`README.md:824`); but `_is_dns_udp` does not take such a payload for DNS
(`detector.py:160`), so no such message reaches the parser. And an events file gives "one event for each input line"
(`README.md:271`), but a blank line is skipped (`events.py:41`), which `LinesAreRecords` follows.

The README of the project also names what late packets and a clock jump do to the tables. The model agrees:
`TableOrdered`, `ExpiryComplete` and `EvictedIsOldest` fail as soon as `LatePackets` is true, and are checked and
proved for packets in order only.

## 6. Proofs

The theorems about the tracker hold for every set of packets, every limit, all timeouts and any number of calls
(`MaxCalls` is an arbitrary natural number). Their assumptions are the named `ASSUME`s of `FlowTracker`: `MaxFlows` is
positive and the options have their types, which `cli.py` enforces, and a packet has a known protocol, flags and method, which the
preprocessor enforces. TLC evaluates them in each run.

**The inductive invariant** `IInv` (`FlowTrackerProofs`) has four parts: `Scalars` (types), `Tabled` (each flow is sound
and numbered at most `created`; numbers are distinct; keys are distinct; at most `MaxFlows`), `Exported` (the same
for records, and no record has the number of a tabled flow) and disjointness of `pending` and `delivered`. The
properties alone are not inductive. That no flow is exported twice needs the numbers, since flows change with each
packet and only the number stays. That the limit survives a new flow needs an eviction that succeeds, hence a front
in each table that is not empty, and an oldest front: `LeastNat` gets both from the well-foundedness of `<`. Each way
a call ends has a lemma (`KnownKeepsIInv`, `NewKeepsIInv`, `FailureKeepsIInv`, `FlushKeepsIInv`) that rests on a few
facts about tables as sets (`TabledFewer`, `TabledReplace`, `TabledAdd`, `ExportedMore`). From `Invariance` follow
`TypeCorrect`, `LimitHolds`, `EachFlowExportedOnce`, `KeysAreUnique`, `RecordsMakeSense` and `FinsFollowState`, and with
one look at each step `ReuseIsFree`, `ExpiryIsSound`, `StateOnlyAdvances`, `EvictionOnlyWhenFull` and
`LabelsOnlyImprove`. `FirstStepFits` and `NextStepFits` are what these need of the transition table: each row moves the
state forward and keeps the FINs fitting it, for all flags.

**No packet is lost** (same module). `Accounted` is `PacketsAccounted` as two sums with weights that are functions:
what was counted is in the flows of the tables or in the records. Each way a call ends moves a weight from one sum to
the other or adds one packet; that an eviction moves each flow to exactly one record needs the distinct numbers of
`IInv`, which is why the two invariants are carried together. `RulesSeeTheirFlow` is about the flow that `context`
finds after a call: the number of the flow is in no record and on no other flow, so the sum over its number is one
flow's.

**Packets in order** (same module). Under `InOrder` (no late packet, no exception inside a step) the invariant
grows by `TurnsTaken`, `TableOrdered` and `ExpiryComplete`, which need each other: expiry misses nothing because the
table is ordered, and it stays ordered because a packet that is not late has the largest time and gets the largest
turn. `OldestIsEvicted` follows, since the front of each table is then its oldest flow.

**Refinement** (`FlowTrackerProofs`). `ImplementsLedger` maps the tables to the numbers of their flows: a call that
returns is `Return`, one that raises is `Raise`, `flush` is `Close`.

**The live capture** (`LiveSourceProofs`). For every `--count`, any number of packets and every interleaving. The
invariant says `InOrderOfCapture` place by place (`Queue`), which is what a step can be shown to keep, and
`OrderIsKept` puts the places together to the equation of sequences. `FinishedIsComplete` is the theorem of
`FinishedRunIsComplete`: the sentinel is behind all that was captured, and a thread that is done was stopped, has its
count, or left a failure or a failed socket. This one and the others need why each side stopped: `ThreadStops` (the
thread goes on only below the count, one packet at most behind the stop, and leaves a reason), `ConsumerStops` (what
was true when the consumer left its loop stays true: behind the sentinel the thread is done) and `Outcome` (what the
loop of `run` sees comes from that cause).

**The run loop** (`RunLoopProofs`). For every `--count`, any number of items and any number of Ctrl-C. `OnePlace`: a
flow is in one of table, pending and hand and has no line yet, or has left all of them and has one line at most. Only
a flow between its record and its removal is in two; one that Ctrl-C caught there stays in both until the flush, is in
hand twice then and has two lines at the end, which is the exception of `LineOncePerFlow`. `SomePlace`: it is in one
of them or has a line, and when the files are closed only lines remain. Both need `Control`, where each collection can
be non-empty: records are in hand only while flows are written, and behind the flush the tracker is empty. `Written`
orders the events and says at which places the last item has its event; `EventsOfMatches` and `OneItemAtMost` follow.

**The summary** (same module). `SummaryIsRight` needs that the counters lag behind the files: `FlowsCounted` has the
lines of the present call of `_write_flows` in `sub` until it returns, and `ItemsCounted` the one event that is in
the file and not counted yet. In a run that nothing disturbs the lag is all that is missing; a disturbance is never
undone (`UndisturbedSoFar`), and what it loses only lowers the counters.

**The search** (`ContentSearchProofs`). `ResultIsFirstHolds` and `SearchedOnceHolds` hold for every rule and payload. The
invariant says that the stack places the first contents one after the other (`Places`), that nothing fits after an
occurrence that a waiting call has left behind (`Passed`), that what is in `failed` cannot be placed
(`FailedCannotFit`), and that a call that has searched failed or waits (`SearchedIsKnown`). `Fits(i, e)`, some placement
of the contents from number `i` on after position `e`, is what all of these are about: it depends on `i` and `e` only,
the very argument of the comment in `_place`. `RestOfChain` and `NothingFits` are its two laws, `PushPlaces`, `PopPlaces`,
`PushPassed` and `TopPassed` what a step does to the stack, and `FirstLater` says that `find` skips nothing.

**The rule engine** (`RuleEngineProofs`). `IndexIsComplete`: every loaded rule is filed where the index looks for it
(`Filed`), and a record that the header matches shows one of the rule's single ports (`SinglePortShows`).
`FirstLinesAreUsed` needs `SeenSids` besides: the repository has seen the sids of the valid lines before. That a rule
has ordered ports, and none if it is an `ip` rule, is no assumption: `ParserBuildsRules` proves it of `ParseRule` for
every line, from `PortsAreOrdered`. The preprocessor keeping only whole records is one (`KeptRecordsAreWhole`); it is what
`KeptRecordsAreTrackable` proves of the enricher.

**The report, the matches and the counters** (same module). `ReportTellsStatuses`: what the repository has
rejected is, line by line, what is valid and yet not used (`RefusedAreRejected`), and without a file listed twice a line
is found by its file and number only at its own place. `CountersAgree`: `Sums` is `CountersAddUp` with its sum over the
stages as a function's, and `TalliesAddUp` counts the candidates of one record by the stage that stops each.
`MatchesAreRight` compares what the engine writes with the rules in their order by sid. The order is the one
definition that had to be chosen for the proof: `InOrder` says which sequence it is, rank by rank (`InOrderLists`,
`InOrderIsOnly`), since the library's sort is recursive. That two used rules never share a sid, without which the
order is no order, follows from `FirstLineWins` and from `ParserNumbersSids`: the options of a line are read
by a fold over its tokens, and every rule that it gives has a number for its sid.

**The start-up** (same module). `StartStepIsEngineStep`: every step of the program is a step of the engine or leaves
its variables alone; so `StartImplementsEngine`, and the two invariants hold in the program (`ProgramUsesItsRules`).
`UsedFilesStay` rests on `Guarded`: behind the first check the outputs are four and no inputs, behind the second none
gave a line, and no line comes later because the files are read by then.

**Sums and folds** (`FoldProofs`). The provers take no operator as an argument, so induction is done once, over numbers
(`AllNats`) and over finite sets (`AllFiniteSets`), for a set that is given, and not for a formula. A sum is the value
of a function on all subsets of its domain (`FoldExists`, `FoldIsTotal`); what the proofs above need of it is
`TotalAdd`, `TotalUnion`, `TotalImage`, `TotalSame` and `TotalZero`. A fold over a sequence is one over the places of the
sequence, whichever place it takes next (`PlaceFoldExists`); `PlaceFoldStays` says that it stays in every set that
its steps keep.

**The name reader** (`ReaderProofs`). Both theorems hold for every message, offset, name limit and number of jumps.
For `NamesStayInBounds` the invariant adds that the bytes are bytes, that a reader at work stands inside the message or
at its end, and that every turn so far has added to the jumps or to the length; the last is why the loop ends
without a measure over the pointers. `NamesAreReference` adds `Follows`: the labels read so far and the segment that
the reader stands in are what the reference makes of the first segment after as many jumps. The reference, a
recursive function of the distance to the end of the message, is shown to exist (`SegmentsExist`) and to follow its
equation (`SegmentsFollow`).

**The events file** (same module). `LinesGiveItems` holds for every file and both limits. The reader is at a place of its
file (`IsAt`): between two lines, with the items of the lines before it (`AtLine`), or in a line of which it has read
more than a line may have, without an end (`InLongLine`). `ReadLineAdvances` and `DiscardAdvances` are the two steps; the
lines of the reference are counted by their ends (`LinesUpTo`), and its items gathered one line at a time
(`GatheredGrows`).

**What is kept can be tracked** (`EnricherProofs`). `KeptRecordsAreTrackable` holds for every packet, record, file and
set of failures. Its invariant `EInv` adds that the output has all its fields, that the reader's items name records, that
before the tracker a record is in no flow, and that it reaches the tracker only with `keep`; a failed stage or a
fallback puts back the defaults, which keep nothing. `PreprocessJudges` is the one lemma about `preprocess_record`; the
lemmas `WithFields` to `FallbackFields` say what the record operators leave. `PathReadsNames`, `PathReadsReferences`,
`PathStaysInBounds` and `PathReadsEveryLine` carry the theorems about the two readers over to the composition, which
takes their steps or leaves them alone.

**Failures** (same module). `FailuresCostOwnFields`: `Told` says what each stage behind the present one has left, in
terms of the record that came in: the fields no stage owns are the record's, those of the decoder and of the
preprocessor are theirs or the defaults, and the errors are those that came in, one exception for each failed stage,
and the decoder's own. A refused write leaves the event's fields with the defaults and the refusal (`FallbackTold`), a
second one only the source; `RefusedWrite` is that step, and `CleanedKeepsBase` that what is kept is the record's own.
`ExceptionsStayVisible` needs that and `Shown` besides: the event of the pipeline is the one without faults, or the
record carries the fault from the start to the output. It rests on `BuildsShow`, that a stage which raises marks the
event unless the event would be the same without it, and on `RaisesShow`, that the mark survives the stages behind.
`EventsTellTheTruth` is a theorem about the operators of the pipeline, stage by stage (`TransportIsHonest`,
`ApplicationIsHonest`), that the invariant carries along with the event.

**The path** (same module). `PathsAreReferences`: the code removes dot segments from the front with a stack, the reference
reads the segments from the end and counts the dots. Folding from both ends, the two meet at every segment
(`PathsMeet`): the stack of the front part, less the dots that the rest leaves over (`Cut`), before the path of the
rest. `PathFromBothEnds` is the case where one part is everything. That the path shown belongs to a target of the same
record needs `PathInv`, and the targets and items being sequences of tokens (`OutputTold`), which has to be followed
from the payload through `parse_http` (`PayloadIsText`, `ParsedTargetIsText`), the decoder
(`TargetItemsAreTexts`) and a later run (`RecordStaysText`).

**The detector** (same module). `DetectionsAreParsed` holds for every packet and set of failures. The detector
and the parsers cut the same payload in different ways, and each rule has its own lemma about that. `SplitStarts`: the
first part that a fold over the whole text makes is what stands before the first separator. So for HTTP the first line
of the parser, taken from what precedes the end of the headers, starts with the line that the detector saw
(`RequestIsParsed`, `ResponseIsParsed`), and for SMTP it is that line without its CR, which `LineIs` compares
(`ReplyIsParsed`, `CommandIsParsed`). For DNS, a call of `read_name`
is followed to its end (`ReadNameIsCall`), the first turn of the section reads the question the detector has
seen, and no later turn takes it back (`WholeQuestionIsRead`). That these payloads are bytes holds because no name
starts behind the end of a message (`NoNameBehindEnd`), so that the message has a first question to read
(`PayloadIsBytes`).

**What is lost** (same module). `LossesAreTold` holds for every payload, whole or cut, of a packet or of a record. The
reference of the property is a set, the well-formed Base64 texts that the body is or starts; `CodedTexts` says which
they are, `AllowedIs` when there is one for a given text, and `JudgedIs` that `decode_base64` finds no fault just
then: both come to the number of characters before the first padding and its remainder by four (`IsPadded`,
`IsCoded`). `CutIsTold` goes through the items of a cut payload, `MimeTellsFaults` through those of a message with one
Base64 part; one with such a header that is more nested than is read has a fault of its own, `nested`
(`NestedIsBehind`: what nests it stands in the body, which then is no Base64 text). `LossInv` says that a payload is
text from its source to the output (`PayloadsOfEvents`, `RecordStaysRead`, `PayloadStays`).

The assumptions of the last six parts are those of `ItemPath`: what Scapy has dissected has at most one header of each
kind with numbers for lengths (`PacketsAreDissected`), and a record of an events file has the fields that the stages
look for (`RecordsHaveFields`), with texts for its targets and payloads (`RecordsHoldTexts`). The lines of a file are
tokens (`FilesAreTokens`).

Every safety property of the passing runs is a theorem. Only model-checked: the liveness of `LiveSource` and
`ContentSearch`, which is out of the prover's reach, like the conditions under which a step is possible.

## 7. Not modelled

- The PCAP source, a loop over Scapy's reader, and argument parsing apart from the check of the outputs: I/O.
- The event schema and the rule match records: data definitions, and the copying of a result into a record.
- The errors of the rule config, which end the start-up before anything is loaded or written.
- Quoted-Printable and the charsets of a MIME part; host, headers and domains of the normalized view; TCP options, the
  label of the handshake, TTLs and other values that a parser passes on and no stage decides on.
- The buffer of the JSON lines writer and its flush after 100 lines, which matter only for a process that is killed.
- Byte and flag counters of a flow, and texts: messages, reasons, the summary.
