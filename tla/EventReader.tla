------------------------------ MODULE EventReader ------------------------------
(***************************************************************************)
(* EventFileSource of src/ids/capture/events.py: the records of a file of  *)
(* JSON lines, read with a limit on the length of a line.  A file is a     *)
(* sequence of tokens of one byte each; the token of a record is its JSON  *)
(* text, and blanks may stand around it.                                   *)
(***************************************************************************)
EXTENDS Naturals, SequencesExt

CONSTANTS
  Files,         \* the files that are tried
  Names,         \* the tokens that are records
  MaxLine,       \* 1,048,576 in the code: MAX_LINE_BYTES
  DiscardChunk   \* 65,536 in the code: DISCARD_CHUNK_BYTES

ASSUME ReaderLimits == MaxLine \in Nat /\ DiscardChunk \in Nat \ {0}

AreTokens(f) == f \in Seq(Range(f))
ASSUME FilesAreTokens == \A f \in Files : AreTokens(f)

VARIABLES
  file,      \* the file, fixed
  rest,      \* what of it is not read
  number,    \* the number of the last line
  skipping,  \* whether the rest of a line that is too long is being read
  items      \* the number of each line that gave an item, and its record; none for a bad line

readerState == <<file, rest, number, skipping, items>>

Blank == {" ", "CR"}
Stripped(s) == SelectSeq(s, LAMBDA token : token \notin Blank)
Ends(s, token) == s # <<>> /\ s[Len(s)] = token
Without(s, token) == IF Ends(s, token) THEN SubSeq(s, 1, Len(s) - 1) ELSE s

\* external: readline, up to a line end or n bytes.
Chunk(s, n) ==
  LET stops == {i \in DOMAIN s : s[i] = "LF" \/ i = n}
  IN  IF stops = {} THEN s ELSE SubSeq(s, 1, Min(stops))

\* _parse: a line of one record, with blanks around it.
Parsed(content) == IF \E name \in Names : Stripped(content) = <<name>> THEN {Stripped(content)[1]} ELSE {}

BadLine(n) == [number |-> n, record |-> {}]

\* The item of line n, if any: a long line is bad, a blank one is skipped, and the byte order mark of the
\* file's start is no part of its first line.
ItemsOf(content, n) ==
  LET text == IF n = 1 /\ content # <<>> /\ content[1] = "BOM" THEN Tail(content) ELSE content
  IN  IF Len(content) > MaxLine THEN <<BadLine(n)>>
      ELSE IF Stripped(text) = <<>> THEN <<>>
      ELSE <<[number |-> n, record |-> Parsed(text)]>>

\* Slip: one byte is left for the line end, not two.
ReadsShort == MaxLine + 1

\* The bytes that one readline takes: the line and a line end of two bytes.
Reads == MaxLine + 2

ReadLine ==
  LET chunk == Chunk(rest, Reads)
      tooLong == ~Ends(chunk, "LF") /\ Len(chunk) = Reads
  IN  /\ rest # <<>> /\ ~skipping
      /\ rest' = SubSeq(rest, Len(chunk) + 1, Len(rest))
      /\ number' = number + 1
      /\ skipping' = tooLong
      /\ items' = IF tooLong THEN items
                  ELSE items \o ItemsOf(Without(Without(chunk, "LF"), "CR"), number + 1)
      /\ UNCHANGED file

Discard ==
  LET chunk == Chunk(rest, DiscardChunk)
  IN  /\ skipping
      /\ rest' = SubSeq(rest, Len(chunk) + 1, Len(rest))
      /\ skipping' = (chunk # <<>> /\ ~Ends(chunk, "LF"))
      /\ items' = IF skipping' THEN items ELSE Append(items, BadLine(number))
      /\ UNCHANGED <<file, number>>

FileInit(f) == file = f /\ rest = f /\ number = 0 /\ skipping = FALSE /\ items = <<>>

\* A file, or none.
FileSpec == (\E f \in Files \cup {<<>>} : FileInit(f)) /\ [][ReadLine \/ Discard]_readerState
-------------------------------------------------------------------------------
\* Where the lines of a file end, and the line that ends at e, without one CR before its end.
LineEnds(f) == {i \in DOMAIN f : f[i] = "LF" \/ i = Len(f)}
LineTo(f, e) ==
  LET before == {i \in LineEnds(f) : i < e}
  IN  Without(Without(SubSeq(f, IF before = {} THEN 1 ELSE Max(before) + 1, e), "LF"), "CR")

\* The lines of the file: what stands between its line ends.
LinesOf(f) ==
  [n \in 1..Cardinality(LineEnds(f)) |->
     LineTo(f, CHOOSE e \in LineEnds(f) : Cardinality({i \in LineEnds(f) : i <= e}) = n)]

\* README, Limits: every line gives its record or its mark, with its number in the file, wherever the
\* limit and the chunks of the reading cut the bytes: a long line costs itself and not the one behind it.
LinesAreRecords ==
  rest = <<>> /\ ~skipping =>
    items = FlattenSeq([n \in DOMAIN LinesOf(file) |-> ItemsOf(LinesOf(file)[n], n)])
===============================================================================
