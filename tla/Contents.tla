-------------------------------- MODULE Contents --------------------------------
(***************************************************************************)
(* The content options of a rule: where one of them may stand in a         *)
(* payload, and which placements of all of them satisfy the rule           *)
(* (src/ids/engine/matcher.py, _region and the search it bounds).          *)
(*                                                                         *)
(* A modifier that a rule does not set is the empty set, one that it sets  *)
(* is the set of its value.  Positions count from 0.                       *)
(***************************************************************************)
EXTENDS Integers, Sequences

CONSTANT Lower   \* Lower[b] is byte b in lower case

Bytes == DOMAIN Lower

\* A content as the parser admits it.
ContentOption ==
  [pattern : Seq(Bytes), nocase : BOOLEAN,
   offset : SUBSET Nat, depth : SUBSET Nat, distance : SUBSET Int, within : SUBSET Nat]

ValueOr(option, default) == IF option = {} THEN default ELSE CHOOSE x \in option : TRUE

Least(a, b) == IF a < b THEN a ELSE b

IsRelative(c) == c.distance # {} \/ c.within # {}

\* The part of a payload of `size' bytes that content c must fit in when the content before it ended at
\* `prevEnd'.
Region(c, prevEnd, size) ==
  LET moved  == prevEnd + ValueOr(c.distance, 0)
      start  == IF ~IsRelative(c) THEN ValueOr(c.offset, 0) ELSE IF moved < 0 THEN 0 ELSE moved
      length == IF IsRelative(c) THEN c.within ELSE c.depth
  IN  [start |-> start,
       end |-> IF length = {} THEN size ELSE Least(start + ValueOr(length, 0), size)]

ReadsAs(c, byte) == IF c.nocase THEN Lower[byte] ELSE byte

StandsAt(c, payload, p) ==
  \A k \in 1..Len(c.pattern) : ReadsAs(c, payload[p + k]) = ReadsAs(c, c.pattern[k])

\* Where find() can hit.
Occurrences(c, prevEnd, payload) ==
  LET region == Region(c, prevEnd, Len(payload))
  IN  {p \in region.start..(region.end - Len(c.pattern)) : StandsAt(c, payload, p)}

End(c, p) == p + Len(c.pattern)

\* The placements that satisfy a rule: each content occurs, in the order of the rule, in the region that
\* the content before it leaves.
Placements(contents, payload) ==
  {f \in [1..Len(contents) -> 0..Len(payload)] :
     \A i \in 1..Len(contents) :
       f[i] \in Occurrences(contents[i], IF i = 1 THEN 0 ELSE End(contents[i - 1], f[i - 1]), payload)}

HasPlacement(contents, payload) == Placements(contents, payload) # {}

\* f places an earlier content further left than g does.
FurtherLeft(f, g) ==
  \E i \in DOMAIN f : f[i] < g[i] /\ \A j \in 1..(i - 1) : f[j] = g[j]
===============================================================================
