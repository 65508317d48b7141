-------------------------- MODULE ContentSearchProofs --------------------------
(***************************************************************************)
(* The search gives the right answer for every rule and every payload, and *)
(* looks for the same thing once: what it remembers never hides a match.   *)
(***************************************************************************)
EXTENDS ContentSearch, TLAPS, NaturalsInduction, WellFoundedInduction, SequenceTheorems

Calls == [index : Nat, prevEnd : Nat]
Frames == [call : Calls, position : Nat]

\* The occurrences of the content that call c places.
Occ(c) == Occurrences(contents[c.index], c.prevEnd, payload)

\* f places the contents from number i on, when the one before them ended at e.
Chain(f, i, e) ==
  \A j \in i..Len(contents) :
    f[j] \in Occurrences(contents[j], IF j = i THEN e ELSE End(contents[j - 1], f[j - 1]), payload)

Fits(i, e) == \E f \in [i..Len(contents) -> Nat] : Chain(f, i, e)

\* Where the content before number i ended, when stack s places the contents.
EndBefore(s, i) == IF i = 1 THEN 0 ELSE End(contents[i - 1], s[i - 1].position)

TypeInv ==
  /\ contents \in Seq(ContentOption) /\ payload \in Seq(Bytes)
  /\ stack \in Seq(Frames) /\ call \in Calls
  /\ failed \subseteq Calls
  /\ mode \in {"call", "return", "found", "none"}

\* Stack s places the first contents, one after the other, and call c is for the next one.
Places(s, c) ==
  /\ Len(s) <= Len(contents)
  /\ \A k \in 1..Len(s) :
       /\ s[k].call = [index |-> k, prevEnd |-> EndBefore(s, k)]
       /\ s[k].position \in Occ(s[k].call)
  /\ c = [index |-> Len(s) + 1, prevEnd |-> EndBefore(s, Len(s) + 1)]

\* What is remembered cannot be placed.
FailedCannotFit ==
  \A c \in failed : c.index \in 1..Len(contents) /\ ~Fits(c.index, c.prevEnd)

\* Nor can the rest after an occurrence that a waiting call has left behind.
Passed(s) ==
  \A k \in 1..Len(s) : \A p \in Occ(s[k].call) :
    p < s[k].position => ~Fits(k + 1, End(contents[k], p))

\* A call that has looked for its occurrences failed or waits.
SearchedIsKnown ==
  \A c \in searched : c \in failed \/ \E k \in 1..Len(stack) : stack[k].call = c

ModeAgrees ==
  /\ mode \in {"return", "none"} => call \in failed
  /\ mode = "found" => Len(stack) = Len(contents)
  /\ mode = "none" => stack = <<>>

IInv ==
  /\ TypeInv /\ Places(stack, call) /\ Passed(stack)
  /\ FailedCannotFit /\ SearchedIsKnown /\ ModeAgrees

-------------------------------------------------------------------------------
\* A set of naturals has a least element, and Min is it.
LEMMA MinOfNats ==
  ASSUME NEW S \in SUBSET Nat, S # {}
  PROVE  Min(S) \in S /\ \A n \in S : Min(S) <= n
<1>1. IsWellFoundedOn(OpToRel(<, Nat), Nat)
  BY NatLessThanWellFounded
<1>2. PICK m \in S : \A n \in S : ~(<<n, m>> \in OpToRel(<, Nat))
  BY <1>1, WFMin
<1>3. \A n \in S : ~(n < m)
  BY <1>2 DEF OpToRel
<1>4. m \in S /\ \A n \in S : m <= n
  BY <1>3
<1>5. \E x \in S : \A n \in S : x <= n
  BY <1>4
<1> QED BY <1>5 DEF Min

\* An occurrence is a position in the payload.
LEMMA OccurrencesInPayload ==
  ASSUME NEW c \in ContentOption, NEW e \in Nat, NEW pl \in Seq(Bytes)
  PROVE  /\ Occurrences(c, e, pl) \subseteq 0..Len(pl)
         /\ \A p \in Occurrences(c, e, pl) : End(c, p) \in Nat
<1>1. Len(c.pattern) \in Nat /\ Len(pl) \in Nat
  BY DEF ContentOption
<1>2. /\ \A x \in c.offset \cup c.depth \cup c.within : x \in Nat
      /\ \A x \in c.distance : x \in Int
  BY DEF ContentOption
<1> DEFINE region == Region(c, e, Len(pl))
           moved  == e + ValueOr(c.distance, 0)
<1>3. ValueOr(c.offset, 0) \in Nat /\ ValueOr(c.distance, 0) \in Int
  BY <1>2 DEF ValueOr
<1>4. region.start \in Nat
  <2>1. region.start = IF ~IsRelative(c) THEN ValueOr(c.offset, 0) ELSE IF moved < 0 THEN 0 ELSE moved
    BY DEF Region
  <2>2. moved \in Int
    BY <1>3
  <2> HIDE DEF region, moved
  <2> QED BY <1>3, <2>1, <2>2
<1>5. region.end \in Int /\ region.end <= Len(pl)
  <2> DEFINE length == IF IsRelative(c) THEN c.within ELSE c.depth
  <2>1. region.end = IF length = {} THEN Len(pl) ELSE Least(region.start + ValueOr(length, 0), Len(pl))
    BY DEF Region
  <2>2. ValueOr(length, 0) \in Nat
    BY <1>2 DEF ValueOr
  <2> HIDE DEF region, length
  <2> QED BY <1>1, <1>4, <2>1, <2>2 DEF Least
<1>6. Occurrences(c, e, pl) \subseteq region.start..(region.end - Len(c.pattern))
  BY DEF Occurrences
<1> HIDE DEF region
<1> QED BY <1>1, <1>4, <1>5, <1>6 DEF End

\* If f places the contents from number i on, then it places those after number k.
LEMMA RestOfChain ==
  ASSUME NEW i \in Nat, NEW e, NEW f, Chain(f, i, e), NEW k \in i..Len(contents),
         \A j \in i..Len(contents) : f[j] \in Nat
  PROVE  Fits(k + 1, End(contents[k], f[k]))
<1> DEFINE n == Len(contents)
           g == [j \in (k + 1)..n |-> f[j]]
<1>1. k \in Nat /\ \A j \in (k + 1)..n : j \in i..n /\ j # i /\ (j - 1 \in i..n)
  OBVIOUS
<1>2. g \in [(k + 1)..n -> Nat]
  BY <1>1
<1>3. ASSUME NEW j \in (k + 1)..n
      PROVE  g[j] \in Occurrences(contents[j],
               IF j = k + 1 THEN End(contents[k], f[k]) ELSE End(contents[j - 1], g[j - 1]), payload)
  <2>1. f[j] \in Occurrences(contents[j], End(contents[j - 1], f[j - 1]), payload)
    BY <1>1 DEF Chain
  <2>2. CASE j = k + 1
    BY <2>1, <2>2
  <2>3. CASE j # k + 1
    <3>1. j - 1 \in (k + 1)..n
      BY <1>1, <2>3
    <3>2. g[j - 1] = f[j - 1] /\ g[j] = f[j]
      BY <3>1
    <3> QED BY <2>1, <2>3, <3>2
  <2> QED BY <2>2, <2>3
<1>4. Chain(g, k + 1, End(contents[k], f[k]))
  BY <1>3 DEF Chain
<1> QED BY <1>2, <1>4 DEF Fits

\* A call fails if the rest fits after none of its occurrences.
LEMMA NothingFits ==
  ASSUME NEW i \in 1..Len(contents), NEW e,
         \A p \in Occurrences(contents[i], e, payload) : ~Fits(i + 1, End(contents[i], p))
  PROVE  ~Fits(i, e)
<1> SUFFICES ASSUME NEW f \in [i..Len(contents) -> Nat], Chain(f, i, e)
             PROVE  FALSE
  BY DEF Fits
<1>1. i \in i..Len(contents) /\ i \in Nat
  OBVIOUS
<1>2. f[i] \in Occurrences(contents[i], e, payload)
  BY <1>1 DEF Chain
<1>3. Fits(i + 1, End(contents[i], f[i]))
  BY <1>1, RestOfChain
<1> QED BY <1>2, <1>3

-------------------------------------------------------------------------------
\* The occurrences of a call are positions.
LEMMA OccIsPositions ==
  ASSUME TypeInv, NEW c \in Calls, c.index \in 1..Len(contents)
  PROVE  /\ Occ(c) \subseteq 0..Len(payload) /\ Occ(c) \subseteq Nat
         /\ contents[c.index] \in ContentOption
         /\ \A p \in Occ(c) : End(contents[c.index], p) \in Nat
<1>1. contents[c.index] \in ContentOption /\ c.prevEnd \in Nat /\ payload \in Seq(Bytes)
  BY DEF TypeInv, Calls
<1>2. Len(payload) \in Nat
  BY <1>1
<1> QED BY <1>1, <1>2, OccurrencesInPayload DEF Occ

\* Min picks the first of the later occurrences: none lies between it and the last one.
LEMMA FirstLater ==
  ASSUME TypeInv, NEW c \in Calls, c.index \in 1..Len(contents), NEW last \in Int, Later(c, last) # {}
  PROVE  /\ Min(Later(c, last)) \in Occ(c)
         /\ Min(Later(c, last)) \in Nat
         /\ \A p \in Occ(c) : p < Min(Later(c, last)) => p <= last
<1>1. Later(c, last) = {p \in Occ(c) : p > last}
  BY DEF Later, Occ
<1>2. Occ(c) \subseteq Nat
  BY OccIsPositions
<1>3. Later(c, last) \in SUBSET Nat
  BY <1>1, <1>2
<1>4. Min(Later(c, last)) \in Later(c, last) /\ \A p \in Later(c, last) : Min(Later(c, last)) <= p
  BY <1>3, MinOfNats
<1> DEFINE m == Min(Later(c, last))
<1>5. m \in Occ(c) /\ m \in Nat
  BY <1>1, <1>3, <1>4
<1>6. ASSUME NEW p \in Occ(c), p < m PROVE p <= last
  <2>1. p \in Nat /\ p \notin Later(c, last)
    BY <1>2, <1>4, <1>5, <1>6
  <2> QED BY <1>1, <2>1
<1> QED BY <1>5, <1>6

\* The index of a call tells its place.
LEMMA IndexIsPlace ==
  ASSUME NEW s \in Seq(Frames), NEW c, Places(s, c)
  PROVE  /\ c.index = Len(s) + 1 /\ c.prevEnd = EndBefore(s, Len(s) + 1)
         /\ \A k \in 1..Len(s) : s[k].call.index = k /\ s[k].call # c
<1>1. Len(s) \in Nat
  OBVIOUS
<1>2. c.index = Len(s) + 1 /\ c.prevEnd = EndBefore(s, Len(s) + 1)
  BY DEF Places
<1>3. ASSUME NEW k \in 1..Len(s)
      PROVE  s[k].call.index = k
  <2>1. s[k].call = [index |-> k, prevEnd |-> EndBefore(s, k)]
    BY DEF Places
  <2> QED BY <2>1
<1> QED BY <1>1, <1>2, <1>3

\* A new frame: the stack places one content more, and the call is for the next.
LEMMA PushPlaces ==
  ASSUME TypeInv, NEW s \in Seq(Frames), NEW c \in Calls, Places(s, c),
         c.index \in 1..Len(contents), NEW p \in Occ(c)
  PROVE  LET t == Append(s, Frame(c, p))
         IN  /\ t \in Seq(Frames) /\ CallAfter(c, p) \in Calls /\ Places(t, CallAfter(c, p))
             /\ Len(t) = Len(s) + 1 /\ t[Len(s) + 1] = Frame(c, p)
             /\ \A k \in 1..Len(s) : t[k] = s[k]
<1> DEFINE t == Append(s, Frame(c, p))
           d == CallAfter(c, p)
<1>1. Len(s) \in Nat /\ Len(contents) \in Nat
  BY DEF TypeInv
<1>2. c.index = Len(s) + 1 /\ c = [index |-> Len(s) + 1, prevEnd |-> EndBefore(s, Len(s) + 1)]
  BY IndexIsPlace DEF Places
<1>3. p \in Nat /\ End(contents[c.index], p) \in Nat
  BY OccIsPositions
<1>4. Frame(c, p) \in Frames /\ Frame(c, p).call = c /\ Frame(c, p).position = p
  BY <1>3 DEF Frame, Frames
<1>5. /\ t \in Seq(Frames) /\ Len(t) = Len(s) + 1 /\ t[Len(s) + 1] = Frame(c, p)
      /\ \A k \in 1..Len(s) : t[k] = s[k]
  BY <1>1, <1>4
<1>6. d = [index |-> Len(s) + 2, prevEnd |-> End(contents[Len(s) + 1], p)] /\ d \in Calls
  BY <1>1, <1>2, <1>3 DEF CallAfter, Calls
<1> HIDE DEF t, d
<1>7. ASSUME NEW k \in 1..(Len(s) + 1)
      PROVE  EndBefore(t, k) = EndBefore(s, k)
  <2>1. CASE k = 1
    BY <2>1 DEF EndBefore
  <2>2. CASE k # 1
    <3>1. k - 1 \in 1..Len(s)
      BY <1>1, <2>2
    <3> QED BY <1>5, <2>2, <3>1 DEF EndBefore
  <2> QED BY <2>1, <2>2
<1>8. d = [index |-> Len(t) + 1, prevEnd |-> EndBefore(t, Len(t) + 1)]
  <2>1. Len(t) + 1 = Len(s) + 2 /\ Len(t) + 1 # 1 /\ (Len(t) + 1) - 1 = Len(s) + 1
    BY <1>1, <1>5
  <2>2. EndBefore(t, Len(t) + 1) = End(contents[Len(s) + 1], p)
    BY <1>4, <1>5, <2>1 DEF EndBefore
  <2> QED BY <1>6, <2>1, <2>2
<1>9. ASSUME NEW k \in 1..Len(t)
      PROVE  t[k].call = [index |-> k, prevEnd |-> EndBefore(t, k)] /\ t[k].position \in Occ(t[k].call)
  <2>1. CASE k \in 1..Len(s)
    <3>1. t[k] = s[k] /\ EndBefore(t, k) = EndBefore(s, k)
      BY <1>1, <1>5, <1>7, <2>1
    <3> QED BY <2>1, <3>1 DEF Places
  <2>2. CASE k = Len(s) + 1
    BY <1>1, <1>2, <1>4, <1>5, <1>7, <2>2
  <2> QED BY <1>1, <1>5, <2>1, <2>2
<1>10. Len(t) <= Len(contents)
  BY <1>1, <1>2, <1>5
<1>11. Places(t, d)
  BY <1>8, <1>9, <1>10 DEF Places
<1> QED BY <1>5, <1>6, <1>11 DEF t, d

\* Without the frame of the call that waits last, the stack places one content less, and that call is next.
LEMMA PopPlaces ==
  ASSUME TypeInv, NEW s \in Seq(Frames), s # <<>>, NEW c, Places(s, c)
  PROVE  LET t == SubSeq(s, 1, Len(s) - 1)
             d == s[Len(s)].call
         IN  /\ t \in Seq(Frames) /\ d \in Calls /\ Places(t, d)
             /\ Len(t) = Len(s) - 1 /\ \A k \in 1..Len(t) : t[k] = s[k]
             /\ d.index = Len(s) /\ d.index \in 1..Len(contents)
<1> DEFINE t == SubSeq(s, 1, Len(s) - 1)
           d == s[Len(s)].call
<1>1. Len(s) \in Nat /\ Len(s) >= 1 /\ Len(s) <= Len(contents) /\ Len(contents) \in Nat
  BY DEF TypeInv, Places
<1>2. Len(s) \in 1..Len(s) /\ s[Len(s)] \in Frames
  BY <1>1
<1>3. d \in Calls /\ d = [index |-> Len(s), prevEnd |-> EndBefore(s, Len(s))]
  BY <1>2 DEF Frames, Places
<1>4. t \in Seq(Frames) /\ Len(t) = Len(s) - 1 /\ \A k \in 1..(Len(s) - 1) : t[k] = s[k]
  <2>1. \A k \in 1..(Len(s) - 1) : s[k] \in Frames
    BY <1>1
  <2>2. /\ t \in Seq(Frames)
        /\ Len(t) = IF 1 <= Len(s) - 1 THEN (Len(s) - 1) - 1 + 1 ELSE 0
        /\ \A k \in 1..((Len(s) - 1) - 1 + 1) : t[k] = s[1 + k - 1]
    BY <1>1, <2>1, SubSeqProperties
  <2> HIDE DEF t
  <2>3. ASSUME NEW k \in 1..(Len(s) - 1)
        PROVE  t[k] = s[k]
    <3>1. k \in 1..((Len(s) - 1) - 1 + 1) /\ 1 + k - 1 = k
      BY <1>1
    <3>2. t[k] = s[1 + k - 1]
      BY <2>2, <3>1
    <3> QED BY <3>1, <3>2
  <2>4. Len(t) = Len(s) - 1
    <3>1. Len(t) = IF 1 <= Len(s) - 1 THEN (Len(s) - 1) - 1 + 1 ELSE 0
      BY <2>2
    <3> DEFINE n == Len(s)
               l == Len(t)
    <3>2. n \in Nat /\ n >= 1 /\ l = IF 1 <= n - 1 THEN (n - 1) - 1 + 1 ELSE 0
      BY <1>1, <3>1
    <3> HIDE DEF n, l
    <3>3. l = n - 1
      BY <3>2
    <3> QED BY <3>3 DEF n, l
  <2> QED BY <2>2, <2>3, <2>4
<1> HIDE DEF t, d
<1>5. ASSUME NEW k \in 1..Len(s)
      PROVE  EndBefore(t, k) = EndBefore(s, k)
  <2>1. CASE k = 1
    BY <2>1 DEF EndBefore
  <2>2. CASE k # 1
    <3>1. k - 1 \in 1..(Len(s) - 1)
      BY <1>1, <2>2
    <3> QED BY <1>4, <2>2, <3>1 DEF EndBefore
  <2> QED BY <2>1, <2>2
<1>6. ASSUME NEW k \in 1..Len(t)
      PROVE  t[k].call = [index |-> k, prevEnd |-> EndBefore(t, k)] /\ t[k].position \in Occ(t[k].call)
  <2>1. k \in 1..Len(s) /\ t[k] = s[k] /\ EndBefore(t, k) = EndBefore(s, k)
    BY <1>1, <1>4, <1>5
  <2> QED BY <2>1 DEF Places
<1>7. Len(t) + 1 = Len(s) /\ Len(t) <= Len(contents)
  BY <1>1, <1>4
<1>8. Places(t, d)
  BY <1>2, <1>3, <1>5, <1>6, <1>7 DEF Places
<1>9. d.index = Len(s) /\ d.index \in 1..Len(contents)
  BY <1>1, <1>3
<1> QED BY <1>3, <1>4, <1>8, <1>9 DEF t, d

-------------------------------------------------------------------------------
\* The occurrences of a waiting call stay behind it when nothing fits after any of them.
LEMMA PushPassed ==
  ASSUME TypeInv, NEW s \in Seq(Frames), NEW c \in Calls, Places(s, c), Passed(s),
         c.index \in 1..Len(contents), NEW p \in Occ(c),
         \A q \in Occ(c) : q < p => ~Fits(c.index + 1, End(contents[c.index], q))
  PROVE  Passed(Append(s, Frame(c, p)))
<1> DEFINE t == Append(s, Frame(c, p))
<1>1. Len(s) \in Nat /\ c.index = Len(s) + 1
  BY IndexIsPlace
<1>2. Len(t) = Len(s) + 1 /\ t[Len(s) + 1] = Frame(c, p) /\ \A k \in 1..Len(s) : t[k] = s[k]
  BY PushPlaces
<1> HIDE DEF t
<1>3. ASSUME NEW k \in 1..Len(t), NEW q \in Occ(t[k].call), q < t[k].position
      PROVE  ~Fits(k + 1, End(contents[k], q))
  <2>1. CASE k \in 1..Len(s)
    <3>1. t[k] = s[k]
      BY <1>2, <2>1
    <3> QED BY <1>3, <2>1, <3>1 DEF Passed
  <2>2. CASE k = Len(s) + 1
    <3>1. t[k].call = c /\ t[k].position = p
      BY <1>2, <2>2 DEF Frame
    <3> QED BY <1>1, <1>3, <2>2, <3>1
  <2> QED BY <1>1, <1>2, <2>1, <2>2
<1>4. Passed(t)
  BY <1>3 DEF Passed
<1> QED BY <1>4 DEF t

\* A shorter stack has less behind it.
LEMMA ShorterPassed ==
  ASSUME NEW s, NEW t, Passed(s), Len(s) \in Nat, Len(t) \in Nat, Len(t) <= Len(s),
         \A k \in 1..Len(t) : t[k] = s[k]
  PROVE  Passed(t)
<1>1. ASSUME NEW k \in 1..Len(t), NEW q \in Occ(t[k].call), q < t[k].position
      PROVE  ~Fits(k + 1, End(contents[k], q))
  <2>1. k \in 1..Len(s) /\ t[k] = s[k]
    OBVIOUS
  <2> QED BY <1>1, <2>1 DEF Passed
<1> QED BY <1>1 DEF Passed

\* When the call that was made for the rest has failed, nothing fits after the position of the last frame
\* or an occurrence before it.
LEMMA TopPassed ==
  ASSUME TypeInv, stack # <<>>, Places(stack, call), Passed(stack), FailedCannotFit, call \in failed
  PROVE  /\ Top.call \in Calls /\ Top.position \in Nat
         /\ Top.call.index = Len(stack) /\ Top.call.index \in 1..Len(contents)
         /\ \A q \in Occ(Top.call) : q <= Top.position =>
              ~Fits(Top.call.index + 1, End(contents[Top.call.index], q))
<1>1. stack \in Seq(Frames) /\ Len(stack) \in Nat /\ Len(stack) \in 1..Len(stack)
  BY DEF TypeInv
<1>2. Top \in Frames /\ Top = stack[Len(stack)]
  BY <1>1 DEF Top
<1>3. Top.call \in Calls /\ Top.position \in Nat
  BY <1>2 DEF Frames
<1>4. Top.call.index = Len(stack) /\ Top.call.index \in 1..Len(contents)
  BY <1>1, <1>2, PopPlaces
<1>5. call.index = Len(stack) + 1 /\ call.prevEnd = End(contents[Len(stack)], Top.position)
  <2>1. call.index = Len(stack) + 1 /\ call.prevEnd = EndBefore(stack, Len(stack) + 1)
    BY <1>1, IndexIsPlace
  <2>2. Len(stack) + 1 # 1 /\ (Len(stack) + 1) - 1 = Len(stack)
    BY <1>1
  <2> QED BY <1>2, <2>1, <2>2 DEF EndBefore
<1>6. ~Fits(Len(stack) + 1, End(contents[Len(stack)], Top.position))
  BY <1>5 DEF FailedCannotFit
<1>7. ASSUME NEW q \in Occ(Top.call), q <= Top.position
      PROVE  ~Fits(Len(stack) + 1, End(contents[Len(stack)], q))
  <2>1. q \in Nat
    BY <1>3, <1>4, OccIsPositions
  <2>2. CASE q = Top.position
    BY <1>6, <2>2
  <2>3. CASE q < Top.position
    BY <1>1, <1>2, <2>3 DEF Passed
  <2> QED BY <1>3, <1>7, <2>1, <2>2, <2>3
<1> QED BY <1>3, <1>4, <1>7

\* The state and action forms of the parts of the invariant agree while the input stays the same.
LEMMA SameInput ==
  ASSUME UNCHANGED <<contents, payload>>
  PROVE  /\ TypeInv' <=> /\ contents \in Seq(ContentOption) /\ payload \in Seq(Bytes)
                         /\ stack' \in Seq(Frames) /\ call' \in Calls /\ failed' \subseteq Calls
                         /\ mode' \in {"call", "return", "found", "none"}
         /\ Places(stack, call)' <=> Places(stack', call')
         /\ Passed(stack)' <=> Passed(stack')
         /\ FailedCannotFit' <=>
              \A c \in failed' : c.index \in 1..Len(contents) /\ ~Fits(c.index, c.prevEnd)
<1>1. contents' = contents /\ payload' = payload
  OBVIOUS
<1>2. TypeInv' <=> /\ contents \in Seq(ContentOption) /\ payload \in Seq(Bytes)
                   /\ stack' \in Seq(Frames) /\ call' \in Calls /\ failed' \subseteq Calls
                   /\ mode' \in {"call", "return", "found", "none"}
  BY <1>1 DEF TypeInv
<1>3. Places(stack, call)' <=> Places(stack', call')
  BY <1>1 DEF Places, EndBefore, Occ
<1>4. Passed(stack)' <=> Passed(stack')
  BY <1>1 DEF Passed, Occ, Fits, Chain
<1>5. FailedCannotFit' <=>
        \A c \in failed' : c.index \in 1..Len(contents) /\ ~Fits(c.index, c.prevEnd)
  BY <1>1 DEF FailedCannotFit, Fits, Chain
<1> QED BY <1>2, <1>3, <1>4, <1>5

-------------------------------------------------------------------------------
LEMMA InitHolds == Init => IInv
<1> SUFFICES ASSUME Init PROVE IInv
  OBVIOUS
<1>1. contents \in Seq(ContentOption) /\ payload \in Seq(Bytes)
  BY RulesAreParsed, PayloadsAreBytes DEF Init
<1>2. stack = <<>> /\ call = [index |-> 1, prevEnd |-> 0] /\ failed = {} /\ searched = {} /\ mode = "call"
  BY DEF Init
<1>3. stack \in Seq(Frames) /\ Len(stack) = 0 /\ Len(contents) \in Nat
  BY <1>1, <1>2
<1>4. TypeInv
  BY <1>1, <1>2, <1>3 DEF TypeInv, Calls
<1>5. Places(stack, call)
  BY <1>2, <1>3 DEF Places, EndBefore
<1> QED BY <1>2, <1>3, <1>4, <1>5 DEF IInv, Passed, FailedCannotFit, SearchedIsKnown, ModeAgrees

\* A step that leaves the stack and the call alone keeps the places.
LEMMA QuietSteps ==
  ASSUME IInv, Complete \/ RecallFailure \/ NotFound
  PROVE  IInv'
<1>1. UNCHANGED <<contents, payload>> /\ UNCHANGED <<stack, call, failed, searched>>
  BY DEF Complete, RecallFailure, NotFound
<1>2. TypeInv /\ Places(stack, call) /\ Passed(stack) /\ FailedCannotFit /\ SearchedIsKnown /\ ModeAgrees
  BY DEF IInv
<1>3. Len(stack) \in Nat /\ Len(contents) \in Nat /\ call.index = Len(stack) + 1
  BY <1>2, IndexIsPlace DEF TypeInv
<1>4. TypeInv'
  BY <1>1, <1>2, SameInput DEF TypeInv, Complete, RecallFailure, NotFound
<1>5. Places(stack, call)' /\ Passed(stack)' /\ FailedCannotFit'
  BY <1>1, <1>2, SameInput DEF FailedCannotFit
<1>6. SearchedIsKnown'
  BY <1>1, <1>2 DEF SearchedIsKnown
<1>7. ModeAgrees'
  <2>1. CASE Complete
    BY <1>1, <1>3, <2>1 DEF ModeAgrees, Complete
  <2>2. CASE RecallFailure
    BY <1>1, <2>2 DEF ModeAgrees, RecallFailure, Remembered
  <2>3. CASE NotFound
    BY <1>1, <1>2, <2>3 DEF ModeAgrees, NotFound
  <2> QED BY <2>1, <2>2, <2>3
<1> QED BY <1>4, <1>5, <1>6, <1>7 DEF IInv

\* A new call either waits at its first occurrence or has none and fails.
LEMMA SearchStep ==
  ASSUME IInv, Search
  PROVE  IInv'
<1>1. UNCHANGED <<contents, payload>> /\ searched' = searched \cup {call} /\ mode = "call"
  BY DEF Search
<1>2. TypeInv /\ Places(stack, call) /\ Passed(stack) /\ FailedCannotFit /\ SearchedIsKnown /\ ModeAgrees
  BY DEF IInv
<1>3. stack \in Seq(Frames) /\ call \in Calls /\ Len(stack) \in Nat /\ Len(contents) \in Nat
  BY <1>2 DEF TypeInv
<1>4. call.index = Len(stack) + 1
  BY <1>2, <1>3, IndexIsPlace
<1>5. call.index \in 1..Len(contents)
  BY <1>3, <1>4 DEF Search
<1>6. CASE Later(call, -1) # {}
  <2> DEFINE p == Min(Later(call, -1))
  <2>1. /\ p \in Occ(call) /\ p \in Nat
        /\ \A q \in Occ(call) : q < p => q <= -1
    BY <1>2, <1>3, <1>5, <1>6, FirstLater
  <2>2. stack' = Append(stack, Frame(call, p)) /\ call' = CallAfter(call, p) /\ UNCHANGED <<failed, mode>>
    BY <1>6 DEF Search
  <2> HIDE DEF p
  <2>3. \A q \in Occ(call) : ~(q < p)
    <3>1. Occ(call) \subseteq Nat
      BY <1>2, <1>3, <1>5, OccIsPositions
    <3> QED BY <2>1, <3>1
  <2>4. /\ stack' \in Seq(Frames) /\ call' \in Calls /\ Places(stack', call')
        /\ Len(stack') = Len(stack) + 1 /\ stack'[Len(stack) + 1] = Frame(call, p)
        /\ \A k \in 1..Len(stack) : stack'[k] = stack[k]
    BY <1>2, <1>3, <1>5, <2>1, <2>2, PushPlaces
  <2>5. Passed(stack')
    BY <1>2, <1>3, <1>5, <2>1, <2>2, <2>3, PushPassed
  <2>6. TypeInv' /\ Places(stack, call)' /\ Passed(stack)' /\ FailedCannotFit'
    BY <1>1, <1>2, <2>2, <2>4, <2>5, SameInput DEF TypeInv, FailedCannotFit
  <2>7. SearchedIsKnown'
    <3> SUFFICES ASSUME NEW c \in searched'
                 PROVE  c \in failed' \/ \E k \in 1..Len(stack') : stack'[k].call = c
      BY DEF SearchedIsKnown
    <3>1. CASE c = call
      <4>1. Len(stack) + 1 \in 1..Len(stack') /\ stack'[Len(stack) + 1].call = call
        BY <1>3, <2>4 DEF Frame
      <4> QED BY <3>1, <4>1
    <3>2. CASE c \in searched /\ c \in failed
      BY <2>2, <3>2
    <3>3. CASE c \in searched /\ c \notin failed
      <4>1. PICK k \in 1..Len(stack) : stack[k].call = c
        BY <1>2, <3>3 DEF SearchedIsKnown
      <4>2. k \in 1..Len(stack') /\ stack'[k].call = c
        BY <1>3, <2>4, <4>1
      <4> QED BY <4>2
    <3> QED BY <1>1, <3>1, <3>2, <3>3
  <2>8. ModeAgrees'
    BY <1>1, <2>2 DEF ModeAgrees
  <2> QED BY <2>6, <2>7, <2>8 DEF IInv
<1>7. CASE Later(call, -1) = {}
  <2>1. failed' = failed \cup {call} /\ mode' = "return" /\ UNCHANGED <<stack, call>>
    BY <1>7 DEF Search
  <2>2. Occ(call) = {}
    <3>1. Occ(call) \subseteq Nat
      BY <1>2, <1>3, <1>5, OccIsPositions
    <3>2. Later(call, -1) = {p \in Occ(call) : p > -1}
      BY DEF Later, Occ
    <3> QED BY <1>7, <3>1, <3>2
  <2>3. ~Fits(call.index, call.prevEnd)
    BY <1>5, <2>2, NothingFits DEF Occ
  <2>4. \A c \in failed' : c.index \in 1..Len(contents) /\ ~Fits(c.index, c.prevEnd)
    BY <1>2, <1>5, <2>1, <2>3 DEF FailedCannotFit
  <2>5. TypeInv' /\ Places(stack, call)' /\ Passed(stack)' /\ FailedCannotFit'
    BY <1>1, <1>2, <1>3, <2>1, <2>4, SameInput DEF TypeInv
  <2>6. SearchedIsKnown'
    BY <1>1, <1>2, <2>1 DEF SearchedIsKnown
  <2>7. ModeAgrees'
    BY <2>1 DEF ModeAgrees
  <2> QED BY <2>5, <2>6, <2>7 DEF IInv
<1> QED BY <1>6, <1>7

\* The next occurrence of the call that waits: nothing fits after those before it.
LEMMA RetryStep ==
  ASSUME IInv, Retry
  PROVE  IInv'
<1>1. UNCHANGED <<contents, payload>> /\ UNCHANGED <<failed, searched>> /\ mode = "return" /\ mode' = "call"
      /\ stack # <<>> /\ Later(Top.call, Top.position) # {}
  BY DEF Retry
<1>2. TypeInv /\ Places(stack, call) /\ Passed(stack) /\ FailedCannotFit /\ SearchedIsKnown /\ ModeAgrees
  BY DEF IInv
<1>3. stack \in Seq(Frames) /\ Len(stack) \in Nat /\ Len(stack) # 0
  BY <1>1, <1>2 DEF TypeInv
<1>4. /\ Top.call \in Calls /\ Top.position \in Nat
      /\ Top.call.index = Len(stack) /\ Top.call.index \in 1..Len(contents)
      /\ \A q \in Occ(Top.call) : q <= Top.position =>
           ~Fits(Top.call.index + 1, End(contents[Top.call.index], q))
  BY <1>1, <1>2, TopPassed DEF ModeAgrees
<1>5. /\ Below \in Seq(Frames) /\ Places(Below, Top.call) /\ Len(Below) = Len(stack) - 1
      /\ \A k \in 1..Len(Below) : Below[k] = stack[k]
  BY <1>1, <1>2, <1>3, PopPlaces DEF Below, Top
<1> DEFINE p == Min(Later(Top.call, Top.position))
<1>6. p \in Occ(Top.call) /\ p \in Nat /\ \A q \in Occ(Top.call) : q < p => q <= Top.position
  BY <1>1, <1>2, <1>4, FirstLater
<1>7. stack' = Append(Below, Frame(Top.call, p)) /\ call' = CallAfter(Top.call, p)
  BY DEF Retry
<1> HIDE DEF p
<1>8. /\ stack' \in Seq(Frames) /\ call' \in Calls /\ Places(stack', call')
      /\ Len(stack') = Len(Below) + 1 /\ stack'[Len(Below) + 1] = Frame(Top.call, p)
      /\ \A k \in 1..Len(Below) : stack'[k] = Below[k]
  BY <1>2, <1>4, <1>5, <1>6, <1>7, PushPlaces
<1>9. Passed(Below)
  <2>1. Len(Below) \in Nat /\ Len(Below) <= Len(stack)
    BY <1>3, <1>5
  <2> QED BY <1>2, <1>3, <1>5, <2>1, ShorterPassed
<1>10. Passed(stack')
  BY <1>2, <1>4, <1>5, <1>6, <1>7, <1>9, PushPassed
<1>11. TypeInv' /\ Places(stack, call)' /\ Passed(stack)' /\ FailedCannotFit'
  BY <1>1, <1>2, <1>8, <1>10, SameInput DEF TypeInv, FailedCannotFit
<1>12. SearchedIsKnown'
  <2> SUFFICES ASSUME NEW c \in searched, c \notin failed
               PROVE  \E k \in 1..Len(stack') : stack'[k].call = c
    BY <1>1 DEF SearchedIsKnown
  <2>1. PICK k \in 1..Len(stack) : stack[k].call = c
    BY <1>2 DEF SearchedIsKnown
  <2>2. k \in 1..Len(stack') /\ Len(stack') = Len(stack)
    BY <1>3, <1>5, <1>8
  <2>3. CASE k = Len(stack)
    <3>1. stack'[k] = Frame(Top.call, p)
      BY <1>3, <1>5, <1>8, <2>3
    <3>2. stack'[k].call = c
      BY <2>1, <2>3, <3>1 DEF Frame, Top
    <3> QED BY <2>2, <3>2
  <2>4. CASE k # Len(stack)
    <3>1. k \in 1..Len(Below)
      BY <1>3, <1>5, <2>4
    <3>2. stack'[k] = stack[k]
      BY <1>5, <1>8, <3>1
    <3> QED BY <2>1, <2>2, <3>2
  <2> QED BY <2>3, <2>4
<1>13. ModeAgrees'
  BY <1>1 DEF ModeAgrees
<1> QED BY <1>11, <1>12, <1>13 DEF IInv

\* The call that waits is out of occurrences: it cannot be placed.
LEMMA GiveUpStep ==
  ASSUME IInv, GiveUp
  PROVE  IInv'
<1>1. UNCHANGED <<contents, payload>> /\ UNCHANGED <<mode, searched>> /\ mode = "return"
      /\ stack # <<>> /\ Later(Top.call, Top.position) = {}
      /\ failed' = failed \cup {Top.call} /\ call' = Top.call /\ stack' = Below
  BY DEF GiveUp
<1>2. TypeInv /\ Places(stack, call) /\ Passed(stack) /\ FailedCannotFit /\ SearchedIsKnown /\ ModeAgrees
  BY DEF IInv
<1>3. stack \in Seq(Frames) /\ Len(stack) \in Nat /\ Len(stack) # 0
  BY <1>1, <1>2 DEF TypeInv
<1>4. /\ Top.call \in Calls /\ Top.position \in Nat
      /\ Top.call.index = Len(stack) /\ Top.call.index \in 1..Len(contents)
      /\ \A q \in Occ(Top.call) : q <= Top.position =>
           ~Fits(Top.call.index + 1, End(contents[Top.call.index], q))
  BY <1>1, <1>2, TopPassed DEF ModeAgrees
<1>5. /\ Below \in Seq(Frames) /\ Places(Below, Top.call) /\ Len(Below) = Len(stack) - 1
      /\ \A k \in 1..Len(Below) : Below[k] = stack[k]
  BY <1>1, <1>2, <1>3, PopPlaces DEF Below, Top
<1>6. ASSUME NEW q \in Occ(Top.call)
      PROVE  ~Fits(Top.call.index + 1, End(contents[Top.call.index], q))
  <2>1. q \in Nat /\ ~(q > Top.position)
    BY <1>1, <1>2, <1>4, OccIsPositions DEF Later, Occ
  <2> QED BY <1>4, <2>1
<1>7. ~Fits(Top.call.index, Top.call.prevEnd)
  BY <1>4, <1>6, NothingFits DEF Occ
<1>8. \A c \in failed' : c.index \in 1..Len(contents) /\ ~Fits(c.index, c.prevEnd)
  BY <1>1, <1>2, <1>4, <1>7 DEF FailedCannotFit
<1>9. Passed(Below)
  <2>1. Len(Below) \in Nat /\ Len(Below) <= Len(stack)
    BY <1>3, <1>5
  <2> QED BY <1>2, <1>3, <1>5, <2>1, ShorterPassed
<1>10. TypeInv' /\ Places(stack, call)' /\ Passed(stack)' /\ FailedCannotFit'
  BY <1>1, <1>2, <1>4, <1>5, <1>8, <1>9, SameInput DEF TypeInv
<1>11. SearchedIsKnown'
  <2> SUFFICES ASSUME NEW c \in searched, c \notin failed, c # Top.call
               PROVE  \E k \in 1..Len(stack') : stack'[k].call = c
    BY <1>1 DEF SearchedIsKnown
  <2>1. PICK k \in 1..Len(stack) : stack[k].call = c
    BY <1>2 DEF SearchedIsKnown
  <2>2. k # Len(stack)
    BY <2>1 DEF Top
  <2>3. k \in 1..Len(Below) /\ Below[k] = stack[k]
    BY <1>3, <1>5, <2>2
  <2> QED BY <1>1, <2>1, <2>3
<1>12. ModeAgrees'
  BY <1>1 DEF ModeAgrees
<1> QED BY <1>10, <1>11, <1>12 DEF IInv

\* The invariant holds in every reachable state.
LEMMA Invariance == Spec => []IInv
<1>1. ASSUME IInv, [Next]_vars PROVE IInv'
  <2>1. CASE Next
    BY <1>1, <2>1, QuietSteps, SearchStep, RetryStep, GiveUpStep DEF Next
  <2>2. CASE UNCHANGED vars
    <3>1. /\ UNCHANGED <<contents, payload>>
          /\ UNCHANGED <<stack, call, failed, searched, mode>>
      BY <2>2 DEF vars
    <3>2. TypeInv' /\ Places(stack, call)' /\ Passed(stack)' /\ FailedCannotFit'
      BY <1>1, <3>1, SameInput DEF IInv, TypeInv, FailedCannotFit
    <3>3. SearchedIsKnown' /\ ModeAgrees'
      BY <1>1, <3>1 DEF IInv, SearchedIsKnown, ModeAgrees
    <3> QED BY <3>2, <3>3 DEF IInv
  <2> QED BY <1>1, <2>1, <2>2
<1> QED BY <1>1, InitHolds, PTL DEF Spec

-------------------------------------------------------------------------------
\* A call that is entered a second time has failed: a call that waits has another index, so the memory of
\* the failures makes each pair of content and previous end be searched once (matcher.py, _place).
THEOREM SearchedOnceHolds == Spec => []SearchedOnce
<1>1. IInv => SearchedOnce
  <2> SUFFICES ASSUME IInv, call \in searched, call \notin failed
               PROVE  FALSE
    BY DEF SearchedOnce
  <2>1. PICK k \in 1..Len(stack) : stack[k].call = call
    BY DEF IInv, SearchedIsKnown
  <2>2. stack \in Seq(Frames) /\ Places(stack, call)
    BY DEF IInv, TypeInv
  <2> QED BY <2>1, <2>2, IndexIsPlace
<1> QED BY <1>1, Invariance, PTL

\* A placement fits from the first content on.
LEMMA PlacementFits ==
  ASSUME TypeInv, NEW f \in Placements(contents, payload)
  PROVE  f \in [1..Len(contents) -> Nat] /\ Chain(f, 1, 0)
<1>1. Len(payload) \in Nat /\ Len(contents) \in Nat
  BY DEF TypeInv
<1>2. /\ f \in [1..Len(contents) -> 0..Len(payload)]
      /\ \A i \in 1..Len(contents) :
           f[i] \in Occurrences(contents[i], IF i = 1 THEN 0 ELSE End(contents[i - 1], f[i - 1]), payload)
  BY DEF Placements
<1>3. Chain(f, 1, 0)
  BY <1>2 DEF Chain
<1> QED BY <1>1, <1>2, <1>3

\* The positions on the stack are those of a placement when it holds every content.
LEMMA StackIsPlacement ==
  ASSUME TypeInv, Places(stack, call), Len(stack) = Len(contents)
  PROVE  Positions \in Placements(contents, payload)
<1> DEFINE n == Len(contents)
<1>1. n \in Nat /\ stack \in Seq(Frames) /\ DOMAIN stack = 1..n /\ Len(payload) \in Nat
  BY DEF TypeInv
<1>2. ASSUME NEW i \in 1..n
      PROVE  /\ Positions[i] \in 0..Len(payload)
             /\ Positions[i] \in Occurrences(contents[i],
                  IF i = 1 THEN 0 ELSE End(contents[i - 1], Positions[i - 1]), payload)
  <2>1. stack[i] \in Frames /\ stack[i].call \in Calls /\ Positions[i] = stack[i].position
    <3>1. stack[i] \in Frames
      BY <1>1
    <3>2. i \in DOMAIN stack
      BY <1>1
    <3> QED BY <3>1, <3>2 DEF Frames, Positions
  <2>2. stack[i].call = [index |-> i, prevEnd |-> EndBefore(stack, i)] /\ stack[i].position \in Occ(stack[i].call)
    BY <1>1 DEF Places
  <2>3. stack[i].call.index = i /\ stack[i].call.prevEnd = EndBefore(stack, i)
    BY <2>2
  <2>4. Positions[i] \in 0..Len(payload)
    BY <2>1, <2>2, <2>3, OccIsPositions
  <2>5. EndBefore(stack, i) = IF i = 1 THEN 0 ELSE End(contents[i - 1], Positions[i - 1])
    <3>1. CASE i = 1
      BY <3>1 DEF EndBefore
    <3>2. CASE i # 1
      <4>1. i - 1 \in DOMAIN stack
        BY <1>1, <3>2
      <4> QED BY <3>2, <4>1 DEF EndBefore, Positions
    <3> QED BY <3>1, <3>2
  <2> QED BY <2>1, <2>2, <2>3, <2>4, <2>5 DEF Occ
<1>3. Positions \in [1..n -> 0..Len(payload)]
  <2>1. Positions = [i \in 1..n |-> stack[i].position]
    BY <1>1 DEF Positions
  <2>2. \A i \in 1..n : stack[i].position \in 0..Len(payload)
    BY <1>1, <1>2, <2>1
  <2> QED BY <2>1, <2>2
<1> QED BY <1>2, <1>3 DEF Placements

\* The search finds a placement if there is one, and the placement furthest left: a failure that is
\* remembered, or an occurrence that is left behind, never hides a match (matcher.py,
\* _content_positions and _place).
THEOREM ResultIsFirstHolds == Spec => []ResultIsFirst
<1>1. IInv => ResultIsFirst
  <2> SUFFICES ASSUME IInv PROVE ResultIsFirst
    OBVIOUS
  <2>1. TypeInv /\ Places(stack, call) /\ Passed(stack) /\ FailedCannotFit /\ ModeAgrees
    BY DEF IInv
  <2>2. stack \in Seq(Frames) /\ Len(contents) \in Nat
    BY <2>1 DEF TypeInv
  <2>3. ASSUME mode = "none", NEW f \in Placements(contents, payload) PROVE FALSE
    <3>1. f \in [1..Len(contents) -> Nat] /\ Chain(f, 1, 0)
      BY <2>1, PlacementFits
    <3>2. Fits(1, 0)
      BY <3>1 DEF Fits
    <3>3. call \in failed /\ call.index = 1 /\ call.prevEnd = 0
      <4>1. stack = <<>> /\ Len(stack) = 0 /\ call \in failed
        BY <2>1, <2>3 DEF ModeAgrees
      <4>2. call.index = Len(stack) + 1 /\ call.prevEnd = EndBefore(stack, Len(stack) + 1)
        BY <2>1, <2>2, IndexIsPlace
      <4> QED BY <4>1, <4>2 DEF EndBefore
    <3> QED BY <2>1, <3>2, <3>3 DEF FailedCannotFit
  <2>4. ASSUME mode = "found" PROVE Positions \in Placements(contents, payload)
    BY <2>1, <2>4, StackIsPlacement DEF ModeAgrees
  <2>5. ASSUME mode = "found", NEW f \in Placements(contents, payload), FurtherLeft(f, Positions) PROVE FALSE
    <3>1. f \in [1..Len(contents) -> Nat] /\ Chain(f, 1, 0)
      BY <2>1, PlacementFits
    <3>2. Len(stack) = Len(contents) /\ DOMAIN stack = 1..Len(contents) /\ DOMAIN f = 1..Len(contents)
      BY <2>1, <2>2, <2>5, <3>1 DEF ModeAgrees
    <3>3. PICK i \in 1..Len(contents) : f[i] < Positions[i] /\ \A j \in 1..(i - 1) : f[j] = Positions[j]
      BY <2>5, <3>2 DEF FurtherLeft
    <3>4. stack[i].call = [index |-> i, prevEnd |-> EndBefore(stack, i)] /\ Positions[i] = stack[i].position
      BY <2>1, <3>2 DEF Places, Positions
    <3>5. EndBefore(stack, i) = IF i = 1 THEN 0 ELSE End(contents[i - 1], f[i - 1])
      <4>1. CASE i = 1
        BY <4>1 DEF EndBefore
      <4>2. CASE i # 1
        <5>1. i - 1 \in 1..(i - 1) /\ i - 1 \in DOMAIN stack
          BY <2>2, <3>2, <4>2
        <5>2. f[i - 1] = stack[i - 1].position
          BY <3>3, <5>1 DEF Positions
        <5> QED BY <4>2, <5>2 DEF EndBefore
      <4> QED BY <4>1, <4>2
    <3>6. f[i] \in Occ(stack[i].call)
      <4>1. f[i] \in Occurrences(contents[i], IF i = 1 THEN 0 ELSE End(contents[i - 1], f[i - 1]), payload)
        BY <3>1 DEF Chain
      <4>2. stack[i].call.index = i /\ stack[i].call.prevEnd = EndBefore(stack, i)
        BY <3>4
      <4> QED BY <3>5, <4>1, <4>2 DEF Occ
    <3>7. ~Fits(i + 1, End(contents[i], f[i]))
      BY <2>1, <3>2, <3>3, <3>4, <3>6 DEF Passed
    <3>8. Fits(i + 1, End(contents[i], f[i]))
      BY <2>2, <3>1, RestOfChain
    <3> QED BY <3>7, <3>8
  <2> QED BY <2>3, <2>4, <2>5 DEF ResultIsFirst
<1> QED BY <1>1, Invariance, PTL
===============================================================================
