---------------------------- MODULE MCContentSearch ----------------------------
(* Small payloads and rules for ContentSearch. *)
EXTENDS ContentSearch

MCLower == [b \in {"a", "A", "b"} |-> IF b = "A" THEN "a" ELSE b]

MCPayloads == UNION {[1..n -> {"a", "A", "b"}] : n \in 0..4}

Plain(pattern) ==
  [pattern |-> pattern, nocase |-> FALSE, offset |-> {}, depth |-> {}, distance |-> {}, within |-> {}]

Patterns == {<<"a">>, <<"b">>, <<"a", "b">>}

\* Contents as the parser admits them: offset and depth exclude distance and within, a depth or within is
\* not below the length of the pattern, and only a distance may be negative.
MCContents ==
  {Plain(p) : p \in Patterns}
  \cup {[Plain(p) EXCEPT !.nocase = TRUE] : p \in {<<"a">>, <<"a", "A">>}}
  \cup {[Plain(<<"a">>) EXCEPT !.offset = {1}], [Plain(<<"b">>) EXCEPT !.depth = {2}]}
  \cup {[Plain(<<"b">>) EXCEPT !.distance = {d}] : d \in {-2, 0, 1}}
  \cup {[Plain(p) EXCEPT !.within = {2}] : p \in Patterns}
  \cup {[Plain(<<"a">>) EXCEPT !.distance = {1}, !.within = {1}]}

\* The same call can come back only from the third content on, and hold occurrences only before a fourth.
Chains == {[Plain(<<"b">>) EXCEPT !.distance = {0}], [Plain(<<"a">>) EXCEPT !.within = {2}],
           [Plain(<<"a">>) EXCEPT !.distance = {1}]}

MCRules ==
  {<<>>} \cup [1..1 -> MCContents] \cup [1..2 -> MCContents]
  \cup {<<Plain(p), c, d>> : p \in {<<"a">>, <<"b">>}, c \in Chains, d \in Chains}
  \cup {<<Plain(<<"a">>), c, d, e>> : c \in Chains, d \in Chains, e \in Chains}
===============================================================================
