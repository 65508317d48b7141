----------------------------- MODULE ContentSearch -----------------------------
(***************************************************************************)
(* The search for the contents of one rule in one payload: _place of       *)
(* src/ids/engine/matcher.py, with its recursion as a stack of calls.  A   *)
(* call (index, previous end) places content `index' at each of its        *)
(* occurrences in turn and calls itself for the rest; a call that ran out  *)
(* of occurrences is remembered and never searched again.                  *)
(***************************************************************************)
EXTENDS Contents, FiniteSetsExt

CONSTANTS
  Rules,     \* the contents of a rule, as sequences
  Payloads

ASSUME RulesAreParsed == Rules \subseteq Seq(ContentOption)
ASSUME PayloadsAreBytes == Payloads \subseteq Seq(Bytes)

VARIABLES
  contents,
  payload,
  stack,     \* the calls that wait, outermost first, each with the position it tries
  call,      \* the call that is entered, or that has just returned
  failed,    \* the calls that found nothing
  mode,      \* "call", "return" (with None), "found" or "none"
  searched   \* history: the calls that looked for an occurrence

vars == <<contents, payload, stack, call, failed, mode, searched>>

Init ==
  /\ contents \in Rules /\ payload \in Payloads
  /\ stack = <<>> /\ call = [index |-> 1, prevEnd |-> 0]
  /\ failed = {} /\ mode = "call" /\ searched = {}

\* The positions that call c can try after position `last'.
Later(c, last) == {p \in Occurrences(contents[c.index], c.prevEnd, payload) : p > last}

CallAfter(c, p) == [index |-> c.index + 1, prevEnd |-> End(contents[c.index], p)]

Top == stack[Len(stack)]
Below == SubSeq(stack, 1, Len(stack) - 1)

Frame(c, p) == [call |-> c, position |-> p]

-------------------------------------------------------------------------------
\* Every content has its place.
Complete ==
  /\ mode = "call" /\ call.index = Len(contents) + 1
  /\ mode' = "found"
  /\ UNCHANGED <<contents, payload, stack, call, failed, searched>>

\* Slip: only the index is remembered.
RememberedIndex ==
  \E c \in failed : c.index = call.index

\* The call is known to fail.
Remembered == call \in failed

RecallFailure ==
  /\ mode = "call" /\ call.index <= Len(contents) /\ Remembered
  /\ mode' = "return"
  /\ UNCHANGED <<contents, payload, stack, call, failed, searched>>

\* A new call tries its first occurrence.
Search ==
  /\ mode = "call" /\ call.index <= Len(contents) /\ ~Remembered
  /\ searched' = searched \cup {call}
  /\ IF Later(call, -1) # {}
       THEN /\ stack' = Append(stack, Frame(call, Min(Later(call, -1))))
            /\ call' = CallAfter(call, Min(Later(call, -1)))
            /\ UNCHANGED <<failed, mode>>
       ELSE /\ failed' = failed \cup {call}
            /\ mode' = "return"
            /\ UNCHANGED <<stack, call>>
  /\ UNCHANGED <<contents, payload>>

\* Slip: the search goes on at the position that failed.
RetrySamePlace ==
  /\ mode = "return" /\ stack # <<>>
  /\ Later(Top.call, Top.position - 1) # {}
  /\ stack' = Append(Below, Frame(Top.call, Min(Later(Top.call, Top.position - 1))))
  /\ call' = CallAfter(Top.call, Min(Later(Top.call, Top.position - 1)))
  /\ mode' = "call"
  /\ UNCHANGED <<contents, payload, failed, searched>>

\* The rest did not fit: the call that waits tries its next occurrence.
Retry ==
  /\ mode = "return" /\ stack # <<>>
  /\ Later(Top.call, Top.position) # {}
  /\ stack' = Append(Below, Frame(Top.call, Min(Later(Top.call, Top.position))))
  /\ call' = CallAfter(Top.call, Min(Later(Top.call, Top.position)))
  /\ mode' = "call"
  /\ UNCHANGED <<contents, payload, failed, searched>>

\* Slip: the failure is not remembered.
GiveUpForgetting ==
  /\ mode = "return" /\ stack # <<>>
  /\ Later(Top.call, Top.position) = {}
  /\ call' = Top.call /\ stack' = Below
  /\ UNCHANGED <<contents, payload, mode, searched, failed>>

\* The call that waits has no occurrence left and returns.
GiveUp ==
  /\ mode = "return" /\ stack # <<>>
  /\ Later(Top.call, Top.position) = {}
  /\ failed' = failed \cup {Top.call}
  /\ call' = Top.call /\ stack' = Below
  /\ UNCHANGED <<contents, payload, mode, searched>>

NotFound ==
  /\ mode = "return" /\ stack = <<>>
  /\ mode' = "none"
  /\ UNCHANGED <<contents, payload, stack, call, failed, searched>>

Next == Complete \/ RecallFailure \/ Search \/ Retry \/ GiveUp \/ NotFound

\* The search runs in one thread and nothing stops it.
Spec == Init /\ [][Next]_vars /\ WF_vars(Next)
-------------------------------------------------------------------------------
Positions == [i \in DOMAIN stack |-> stack[i].position]

\* "Each content tries all its occurrences, so a later one can still fit" (matcher.py,
\* _content_positions): the search misses no placement, in spite of what it remembers, and the positions
\* in a match record are those of the placement furthest left.
ResultIsFirst ==
  /\ mode = "none" => Placements(contents, payload) = {}
  /\ mode = "found" =>
       /\ Positions \in Placements(contents, payload)
       /\ \A f \in Placements(contents, payload) : ~FurtherLeft(f, Positions)

\* "A failed pair never needs a second search" (matcher.py, _place): no call looks for its occurrences
\* twice, also after other calls have run in between, so the work is bounded by contents times positions
\* and not exponential in the contents.
SearchedOnce == mode = "call" /\ call \in searched => call \in failed

\* The search ends with an answer for every rule and payload.
SearchEnds == <>(mode \in {"found", "none"})
===============================================================================
