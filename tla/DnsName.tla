-------------------------------- MODULE DnsName --------------------------------
(***************************************************************************)
(* read_name of src/ids/parsers/dns.py: labels with their length in front, *)
(* ended by a zero, and pointers back into the message.  A message is a    *)
(* sequence of bytes; positions count from 0, as in the code.              *)
(***************************************************************************)
EXTENDS Naturals, SequencesExt

CONSTANTS
  MaxName,   \* 255 in the code
  MaxJumps   \* 64 in the code

ASSUME NameLimits == MaxName \in Nat \ {0} /\ MaxJumps \in Nat

Byte == 0..255
MaxLabel == 63
PointerMask == 192

At(data, p) == data[p + 1]
Word(data, p) == At(data, p) * 256 + At(data, p + 1)

\* One call of read_name: where it reads, what it has read, and its outcome.
Start(data, offset) ==
  [position |-> offset, labels |-> <<>>, length |-> 0, jumps |-> 0, after |-> {},
   outcome |-> IF offset < Len(data) THEN "reading" ELSE "truncated"]

Stop(r, outcome) == [r EXCEPT !.outcome = outcome]

\* Slip: the caller goes on behind the last place that was read.
AfterLast(r, p) == {p}

\* The name ends, for the caller, where the first pointer or the zero ends.
AfterFirst(r, p) == IF r.after = {} THEN {p} ELSE r.after

\* Slip: a jump starts a new name, and its length is counted from 0 again.
FollowAndReset(data, r) ==
  LET target == (At(data, r.position) - PointerMask) * 256 + At(data, r.position + 1)
  IN  IF target >= r.position \/ r.jumps = MaxJumps THEN Stop(r, "malformed")
      ELSE [r EXCEPT !.position = target, !.jumps = @ + 1, !.length = 0,
                     !.after = AfterFirst(r, r.position + 2)]

Follow(data, r) ==
  LET target == (At(data, r.position) - PointerMask) * 256 + At(data, r.position + 1)
  IN  IF target >= r.position \/ r.jumps = MaxJumps THEN Stop(r, "malformed")
      ELSE [r EXCEPT !.position = target, !.jumps = @ + 1,
                     !.after = AfterFirst(r, r.position + 2)]

Finish(r) == [r EXCEPT !.outcome = "name", !.position = @ + 1, !.after = AfterFirst(r, r.position + 1)]

TakeLabel(data, r, size) ==
  LET longer == [r EXCEPT !.position = @ + 1 + size, !.length = @ + size + 1,
                          !.labels = Append(@, SubSeq(data, r.position + 2, r.position + 1 + size))]
  IN  IF longer.length >= MaxName THEN Stop(longer, "malformed") ELSE longer

\* One turn of the loop.
Turn(data, r) ==
  IF r.position >= Len(data) THEN Stop(r, "truncated")
  ELSE LET size == At(data, r.position)
       IN  CASE size >= PointerMask -> IF r.position + 1 >= Len(data) THEN Stop(r, "truncated")
                                       ELSE Follow(data, r)
             [] size > MaxLabel /\ size < PointerMask -> Stop(r, "malformed")
             [] size = 0 -> Finish(r)
             [] size \in 1..MaxLabel -> IF r.position + 1 + size > Len(data) THEN Stop(r, "truncated")
                                        ELSE TakeLabel(data, r, size)

\* Each turn but the last adds to the jumps or to the length, so the limits also bound the turns.
ReadName(data, offset) ==
  FoldLeft(LAMBDA r, i : IF r.outcome = "reading" THEN Turn(data, r) ELSE r,
           Start(data, offset), [i \in 1..(MaxJumps + MaxName + 1) |-> i])
===============================================================================
