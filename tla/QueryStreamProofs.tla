--------------------------- MODULE QueryStreamProofs ---------------------------
(***************************************************************************)
(* Proofs about QueryStream, for any retry budget and any room on the      *)
(* connection. The two loops come first: what Split makes of a beginning   *)
(* of the frames of some events, and what StagesIn makes of parts that     *)
(* begin with stages. Then the inductive invariant: where the backend      *)
(* stands decides what it has yielded, and what the relay has not told yet *)
(* is, in frames, what is in its buffer and on the wire. Then the          *)
(* properties and the stream as StreamContract.                            *)
(***************************************************************************)
EXTENDS QueryStream, WellFoundedInduction, SequenceTheorems, TLAPS

-----------------------------------------------------------------------------
(* Induction on numbers, for sets instead of predicates.                   *)

LEMMA Induction ==
  ASSUME NEW E, 0 \in E, \A n \in Nat : n \in E => n + 1 \in E
  PROVE  Nat \subseteq E
<1> SUFFICES ASSUME Nat \ E # {} PROVE FALSE
  OBVIOUS
<1>1. PICK m \in Nat \ E : \A n \in Nat \ E : <<n, m>> \notin OpToRel(<, Nat)
  BY NatLessThanWellFounded, WFMin
<1>2. \A n \in Nat \ E : ~ (n < m)
  BY <1>1 DEF OpToRel
<1>3. m # 0 /\ m \in Nat
  OBVIOUS
<1>4. m - 1 \in Nat /\ m - 1 < m /\ (m - 1) + 1 = m
  BY <1>3
<1>5. m - 1 \in E
  BY <1>2, <1>4
<1> QED
  BY <1>4, <1>5

-----------------------------------------------------------------------------
(* Sequences.                                                              *)

LEMMA OneMore ==
  ASSUME NEW X, NEW s \in Seq(X), NEW a \in Nat \ {0}, NEW b \in Nat,
         a <= b + 1, b < Len(s)
  PROVE  Append(SubSeq(s, a, b), s[b + 1]) = SubSeq(s, a, b + 1)
<1>1. a \in 1..Len(s) /\ b + 1 \in a..Len(s) /\ (b + 1) - 1 = b
  OBVIOUS
<1>2. SubSeq(s, a, b + 1) = SubSeq(s, a, b) \o <<s[b + 1]>>
  BY <1>1, SubSeqRecursiveSecond
<1>3. \A i \in a..b : s[i] \in X
  BY <1>1
<1>4. SubSeq(s, a, b) \in Seq(X)
  BY <1>3, SubSeqProperties
<1>5. s[b + 1] \in X
  BY <1>1
<1> QED
  BY <1>2, <1>4, <1>5, AppendIsConcat

\* What SubSeq is, for a part of a sequence that may be empty.
LEMMA Part ==
  ASSUME NEW X, NEW s \in Seq(X), NEW a \in Nat \ {0}, NEW b \in Nat,
         a <= b + 1, b <= Len(s)
  PROVE  /\ SubSeq(s, a, b) \in Seq(X)
         /\ Len(SubSeq(s, a, b)) = b + 1 - a
         /\ \A i \in 1..(b + 1 - a) : SubSeq(s, a, b)[i] = s[a + i - 1]
<1>1. \A i \in a..b : s[i] \in X
  OBVIOUS
<1>2. b - a + 1 = b + 1 - a /\ (a <= b \/ b + 1 - a = 0)
  OBVIOUS
<1> QED
  BY <1>1, <1>2, SubSeqProperties

LEMMA Rest ==
  ASSUME NEW X, NEW s \in Seq(X), NEW n \in 0..Len(s)
  PROVE  /\ SubSeq(s, n + 1, Len(s)) \in Seq(X)
         /\ Len(SubSeq(s, n + 1, Len(s))) = Len(s) - n
         /\ \A i \in 1..(Len(s) - n) : SubSeq(s, n + 1, Len(s))[i] = s[n + i]
<1> DEFINE a == n + 1
           rest == SubSeq(s, a, Len(s))
<1>1. n \in Nat /\ Len(s) \in Nat /\ n <= Len(s)
  OBVIOUS
<1>2. a \in Nat \ {0} /\ a <= Len(s) + 1 /\ Len(s) <= Len(s) /\ Len(s) + 1 - a = Len(s) - n
  BY <1>1
<1>3. \A i \in 1..(Len(s) - n) : a + i - 1 = n + i
  BY <1>1
<1> HIDE DEF a
<1>4. /\ rest \in Seq(X) /\ Len(rest) = Len(s) + 1 - a
      /\ \A i \in 1..(Len(s) + 1 - a) : rest[i] = s[a + i - 1]
  BY <1>1, <1>2, Part
<1> HIDE DEF rest
<1>5. rest \in Seq(X) /\ Len(rest) = Len(s) - n /\ \A i \in 1..(Len(s) - n) : rest[i] = s[n + i]
  BY <1>2, <1>3, <1>4
<1> QED
  BY <1>5 DEF rest, a

LEMMA Joined ==
  ASSUME NEW X, NEW s \in Seq(X), NEW t \in Seq(X)
  PROVE  /\ s \o t \in Seq(X)
         /\ Len(s \o t) = Len(s) + Len(t)
         /\ \A i \in 1..Len(s) : (s \o t)[i] = s[i]
         /\ \A i \in 1..Len(t) : (s \o t)[Len(s) + i] = t[i]
<1> DEFINE both == s \o t
<1>1. /\ both \in Seq(X)
      /\ Len(both) = Len(s) + Len(t)
      /\ \A i \in 1..Len(s) + Len(t) : both[i] = IF i <= Len(s) THEN s[i] ELSE t[i - Len(s)]
  BY ConcatProperties, Zenon
<1> HIDE DEF both
<1>2. Len(s) \in Nat /\ Len(t) \in Nat
  OBVIOUS
<1>3. \A i \in 1..Len(s) : both[i] = s[i]
  BY <1>1, <1>2
<1>4. ASSUME NEW i \in 1..Len(t) PROVE both[Len(s) + i] = t[i]
  <2>1. Len(s) + i \in 1..Len(s) + Len(t) /\ ~ (Len(s) + i <= Len(s)) /\ (Len(s) + i) - Len(s) = i
    BY <1>2
  <2> QED
    BY <1>1, <2>1
<1> QED
  BY <1>1, <1>3, <1>4 DEF both

-----------------------------------------------------------------------------
(* The loops.                                                              *)

\* f is the loop of Split over the first m tokens, and of StagesIn over the
\* first m parts.
IsSplit(f, text, m) ==
  f = [n \in 0..m |-> IF n = 0 THEN [events |-> <<>>, rest |-> <<>>]
                      ELSE Cut(f[n - 1], text[n])]

IsStages(f, list, m) ==
  f = [n \in 0..m |-> IF n = 0 THEN <<>>
                      ELSE IF list[n] \in Stages THEN Append(f[n - 1], list[n])
                      ELSE f[n - 1]]

LEMMA SplitExists ==
  ASSUME NEW text, NEW m \in Nat
  PROVE  \E f : IsSplit(f, text, m)
<1> DEFINE E == {k \in Nat : \E f : IsSplit(f, text, k)}
<1>1. 0 \in E
  <2> DEFINE f0 == [n \in 0..0 |-> [events |-> <<>>, rest |-> <<>>]]
  <2>1. \A n \in 0..0 : n = 0
    OBVIOUS
  <2>2. IsSplit(f0, text, 0)
    BY <2>1 DEF IsSplit
  <2> QED
    BY <2>2
<1>2. ASSUME NEW k \in Nat, k \in E PROVE k + 1 \in E
  <2>1. PICK f : IsSplit(f, text, k)
    BY <1>2
  <2> DEFINE h == [n \in 0..(k + 1) |-> IF n <= k THEN f[n] ELSE Cut(f[k], text[k + 1])]
  <2>2. ASSUME NEW n \in 0..(k + 1)
        PROVE  h[n] = IF n = 0 THEN [events |-> <<>>, rest |-> <<>>]
                      ELSE Cut(h[n - 1], text[n])
    <3>1. CASE n = k + 1
      <4>1. n - 1 = k /\ h[n - 1] = f[k] /\ n # 0 /\ ~ (n <= k)
        BY <3>1
      <4> QED
        BY <3>1, <4>1
    <3>2. CASE n # k + 1
      <4>1. n \in 0..k /\ h[n] = f[n]
        BY <3>2
      <4>2. n # 0 => n - 1 \in 0..k /\ h[n - 1] = f[n - 1]
        BY <4>1
      <4>3. f[n] = IF n = 0 THEN [events |-> <<>>, rest |-> <<>>]
                   ELSE Cut(f[n - 1], text[n])
        BY <2>1, <4>1 DEF IsSplit
      <4> QED
        BY <4>1, <4>2, <4>3
    <3> QED
      BY <3>1, <3>2
  <2>3. IsSplit(h, text, k + 1)
    BY <2>2 DEF IsSplit
  <2> QED
    BY <2>3
<1> HIDE DEF E
<1>3. m \in E
  BY <1>1, <1>2, Induction
<1> QED
  BY <1>3 DEF E

LEMMA StagesExist ==
  ASSUME NEW list, NEW m \in Nat
  PROVE  \E f : IsStages(f, list, m)
<1> DEFINE E == {k \in Nat : \E f : IsStages(f, list, k)}
<1>1. 0 \in E
  <2> DEFINE f0 == [n \in 0..0 |-> <<>>]
  <2>1. \A n \in 0..0 : n = 0
    OBVIOUS
  <2>2. IsStages(f0, list, 0)
    BY <2>1 DEF IsStages
  <2> QED
    BY <2>2
<1>2. ASSUME NEW k \in Nat, k \in E PROVE k + 1 \in E
  <2>1. PICK f : IsStages(f, list, k)
    BY <1>2
  <2> DEFINE last == IF list[k + 1] \in Stages THEN Append(f[k], list[k + 1]) ELSE f[k]
             h == [n \in 0..(k + 1) |-> IF n <= k THEN f[n] ELSE last]
  <2>2. ASSUME NEW n \in 0..(k + 1)
        PROVE  h[n] = IF n = 0 THEN <<>>
                      ELSE IF list[n] \in Stages THEN Append(h[n - 1], list[n])
                      ELSE h[n - 1]
    <3>1. CASE n = k + 1
      <4>1. n - 1 = k /\ h[n - 1] = f[k] /\ n # 0 /\ ~ (n <= k)
        BY <3>1
      <4> QED
        BY <3>1, <4>1
    <3>2. CASE n # k + 1
      <4>1. n \in 0..k /\ h[n] = f[n]
        BY <3>2
      <4>2. n # 0 => n - 1 \in 0..k /\ h[n - 1] = f[n - 1]
        BY <4>1
      <4>3. f[n] = IF n = 0 THEN <<>>
                   ELSE IF list[n] \in Stages THEN Append(f[n - 1], list[n])
                   ELSE f[n - 1]
        BY <2>1, <4>1 DEF IsStages
      <4> QED
        BY <4>1, <4>2, <4>3
    <3> QED
      BY <3>1, <3>2
  <2>3. IsStages(h, list, k + 1)
    BY <2>2 DEF IsStages
  <2> QED
    BY <2>3
<1> HIDE DEF E
<1>3. m \in E
  BY <1>1, <1>2, Induction
<1> QED
  BY <1>3 DEF E

-----------------------------------------------------------------------------
(* The frames of some events.                                              *)

\* The text is the frames of the events.
IsFrames(text, events) ==
  /\ Len(text) = 4 * Len(events)
  /\ \A i \in 1..Len(events) :
       /\ text[4 * i - 3] = Data /\ text[4 * i - 2] = events[i]
       /\ text[4 * i - 1] = NL /\ text[4 * i] = NL

LEMMA EventTokens ==
  /\ Events \subseteq Tokens
  /\ \A event \in Events : event # NL
  /\ Data # NL
  BY Zenon DEF Events, Stages, Tokens, NL, Data

LEMMA OneFrameMore ==
  ASSUME NEW w \in Seq(Tokens), NEW events \in Seq(Events), NEW event \in Events,
         IsFrames(w, events)
  PROVE  /\ w \o Frame(event) \in Seq(Tokens)
         /\ IsFrames(w \o Frame(event), Append(events, event))
<1> DEFINE frame == Frame(event)
           longer == w \o frame
           more == Append(events, event)
<1>1. /\ frame \in Seq(Tokens) /\ Len(frame) = 4
      /\ frame[1] = Data /\ frame[2] = event /\ frame[3] = NL /\ frame[4] = NL
  <2>1. Data \in Tokens /\ event \in Tokens /\ NL \in Tokens
    BY EventTokens DEF Tokens
  <2>2. frame \in Seq(Tokens)
    <3>1. \A a, b, c, d \in Tokens : <<a, b, c, d>> \in Seq(Tokens)
      OBVIOUS
    <3> QED
      BY <2>1, <3>1 DEF Frame
  <2>3. Len(frame) = 4
    BY DEF Frame
  <2>4. frame[1] = Data /\ frame[2] = event /\ frame[3] = NL /\ frame[4] = NL
    BY DEF Frame
  <2> QED
    BY <2>2, <2>3, <2>4
<1> HIDE DEF frame
<1>2. /\ longer \in Seq(Tokens) /\ Len(longer) = Len(w) + 4
      /\ \A i \in 1..Len(w) : longer[i] = w[i]
      /\ longer[Len(w) + 1] = frame[1] /\ longer[Len(w) + 2] = frame[2]
      /\ longer[Len(w) + 3] = frame[3] /\ longer[Len(w) + 4] = frame[4]
  <2>1. longer \in Seq(Tokens) /\ Len(longer) = Len(w) + Len(frame)
    BY <1>1, Joined, Zenon
  <2>2. \A i \in 1..Len(w) : longer[i] = w[i]
    BY <1>1, Joined, ZenonT(40)
  <2>3. \A i \in 1..Len(frame) : longer[Len(w) + i] = frame[i]
    <3>1. \A t \in Seq(Tokens) : \A i \in 1..Len(t) : (w \o t)[Len(w) + i] = t[i]
      BY Joined
    <3> QED
      BY <1>1, <3>1
  <2> HIDE DEF longer
  <2>4. 1..Len(frame) = 1..4
    BY <1>1
  <2>5. Len(longer) = Len(w) + 4
    BY <1>1, <2>1
  <2> QED
    BY <2>1, <2>2, <2>3, <2>4, <2>5
<1> HIDE DEF longer
<1>3. /\ Len(more) = Len(events) + 1 /\ more[Len(events) + 1] = event
      /\ \A i \in 1..Len(events) : more[i] = events[i]
  OBVIOUS
<1> HIDE DEF more
<1>4. Len(w) = 4 * Len(events) /\ Len(events) \in Nat
  <2>1. Len(w) = 4 * Len(events)
    BY DEF IsFrames
  <2> QED
    BY <2>1
<1>5. ASSUME NEW i \in 1..Len(more)
      PROVE  /\ longer[4 * i - 3] = Data /\ longer[4 * i - 2] = more[i]
             /\ longer[4 * i - 1] = NL /\ longer[4 * i] = NL
  <2>1. CASE i = Len(events) + 1
    <3>1. /\ 4 * i - 3 = Len(w) + 1 /\ 4 * i - 2 = Len(w) + 2
          /\ 4 * i - 1 = Len(w) + 3 /\ 4 * i = Len(w) + 4
      BY <1>4, <2>1
    <3> QED
      BY <1>1, <1>2, <1>3, <2>1, <3>1
  <2>2. CASE i # Len(events) + 1
    <3>1. i \in 1..Len(events)
      BY <1>3, <1>4, <2>2
    <3>2. /\ 4 * i - 3 \in 1..Len(w) /\ 4 * i - 2 \in 1..Len(w)
          /\ 4 * i - 1 \in 1..Len(w) /\ 4 * i \in 1..Len(w)
      BY <1>4, <3>1
    <3>3. /\ w[4 * i - 3] = Data /\ w[4 * i - 2] = events[i]
          /\ w[4 * i - 1] = NL /\ w[4 * i] = NL
      BY <3>1 DEF IsFrames
    <3> QED
      BY <1>2, <1>3, <3>1, <3>2, <3>3
  <2> QED
    BY <2>1, <2>2
<1>6. IsFrames(longer, more)
  <2>1. Len(longer) = 4 * Len(more)
    BY <1>2, <1>3, <1>4
  <2> QED
    BY <1>5, <2>1 DEF IsFrames
<1> QED
  BY <1>2, <1>6 DEF longer, more, frame

LEMMA FramesLeft ==
  ASSUME NEW w \in Seq(Tokens), NEW events \in Seq(Events), IsFrames(w, events),
         NEW q \in 0..Len(events)
  PROVE  IsFrames(SubSeq(w, 4 * q + 1, Len(w)), SubSeq(events, q + 1, Len(events)))
<1> DEFINE left == SubSeq(w, 4 * q + 1, Len(w))
           due == SubSeq(events, q + 1, Len(events))
<1>1. Len(w) = 4 * Len(events) /\ Len(events) \in Nat /\ q \in Nat /\ q <= Len(events)
  <2>1. Len(w) = 4 * Len(events)
    BY DEF IsFrames
  <2> QED
    BY <2>1
<1>2. /\ Len(left) = Len(w) - 4 * q
      /\ \A i \in 1..(Len(w) - 4 * q) : left[i] = w[4 * q + i]
  <2>1. 4 * q \in 0..Len(w)
    BY <1>1
  <2> QED
    BY <2>1, Rest
<1>3. /\ Len(due) = Len(events) - q
      /\ \A i \in 1..(Len(events) - q) : due[i] = events[q + i]
  BY Rest
<1> HIDE DEF left, due
<1>4. ASSUME NEW i \in 1..(Len(events) - q)
      PROVE  /\ left[4 * i - 3] = Data /\ left[4 * i - 2] = due[i]
             /\ left[4 * i - 1] = NL /\ left[4 * i] = NL
  <2>1. q + i \in 1..Len(events)
    BY <1>1
  <2>2. /\ w[4 * (q + i) - 3] = Data /\ w[4 * (q + i) - 2] = events[q + i]
        /\ w[4 * (q + i) - 1] = NL /\ w[4 * (q + i)] = NL
    BY <2>1 DEF IsFrames
  <2>3. /\ 4 * i - 3 \in 1..(Len(w) - 4 * q) /\ 4 * i - 2 \in 1..(Len(w) - 4 * q)
        /\ 4 * i - 1 \in 1..(Len(w) - 4 * q) /\ 4 * i \in 1..(Len(w) - 4 * q)
    BY <1>1
  <2>4. /\ 4 * q + (4 * i - 3) = 4 * (q + i) - 3 /\ 4 * q + (4 * i - 2) = 4 * (q + i) - 2
        /\ 4 * q + (4 * i - 1) = 4 * (q + i) - 1 /\ 4 * q + 4 * i = 4 * (q + i)
    BY <1>1
  <2>5. /\ left[4 * i - 3] = w[4 * (q + i) - 3] /\ left[4 * i - 2] = w[4 * (q + i) - 2]
        /\ left[4 * i - 1] = w[4 * (q + i) - 1] /\ left[4 * i] = w[4 * (q + i)]
    BY <1>2, <2>3, <2>4
  <2> QED
    BY <1>3, <2>2, <2>5
<1>5. Len(left) = 4 * Len(due)
  BY <1>1, <1>2, <1>3
<1>6. IsFrames(left, due)
  BY <1>3, <1>4, <1>5 DEF IsFrames
<1> QED
  BY <1>6 DEF left, due

\* A token goes to the rest, unless it ends a frame.
LEMMA CutWithin ==
  ASSUME NEW events, NEW rest, NEW token,
         token = NL => rest = <<>> \/ Last(rest) # NL
  PROVE  Cut([events |-> events, rest |-> rest], token)
           = [events |-> events, rest |-> Append(rest, token)]
BY DEF Cut

LEMMA CutAtTheEnd ==
  ASSUME NEW events \in Seq(Events), NEW rest \in Seq(Tokens), Len(rest) = 3,
         rest[1] = Data, rest[2] \in Events, rest[3] = NL
  PROVE  Cut([events |-> events, rest |-> rest], NL)
           = [events |-> Append(events, rest[2]), rest |-> <<>>]
<1> DEFINE split == [events |-> events, rest |-> rest]
<1>1. split.rest = rest /\ split.events = events
  OBVIOUS
<1>2. rest # <<>> /\ Last(rest) = NL
  BY DEF Last
<1>3. Front(rest) = SubSeq(rest, 1, 2)
  BY DEF Front
<1>4. \A a \in Nat \ {0}, b \in Nat : a <= b + 1 /\ b <= Len(rest) =>
        /\ Len(SubSeq(rest, a, b)) = b + 1 - a
        /\ \A i \in 1..(b + 1 - a) : SubSeq(rest, a, b)[i] = rest[a + i - 1]
  BY Part
<1>5. /\ Len(SubSeq(rest, 1, 2)) = 2
      /\ \A i \in 1..2 : SubSeq(rest, 1, 2)[i] = rest[i]
  BY <1>4
<1>6. Len(Front(rest)) = 2 /\ Front(rest)[1] = Data /\ Front(rest)[2] = rest[2]
  BY <1>3, <1>5
<1> HIDE DEF split
<1>7. Cut(split, NL) = [events |-> Append(events, rest[2]), rest |-> <<>>]
  BY <1>1, <1>2, <1>6 DEF Cut
<1> QED
  BY <1>7 DEF split

\* Of the first m tokens of the frames of some events, Split makes the events
\* whose frames are complete, and leaves the beginning of the next frame.
LEMMA SplitFrames ==
  ASSUME NEW w \in Seq(Tokens), NEW events \in Seq(Events), IsFrames(w, events),
         NEW m \in 0..Len(w)
  PROVE  \E q \in 0..Len(events) :
           /\ 4 * q <= m /\ m < 4 * q + 4
           /\ Split(SubSeq(w, 1, m))
                = [events |-> SubSeq(events, 1, q), rest |-> SubSeq(w, 4 * q + 1, m)]
<1> DEFINE text == SubSeq(w, 1, m)
           split == CHOOSE f : IsSplit(f, text, m)
           Complete(k, q) ==
             /\ 4 * q <= k /\ k < 4 * q + 4
             /\ split[k] = [events |-> SubSeq(events, 1, q), rest |-> SubSeq(w, 4 * q + 1, k)]
           E == {k \in Nat : k <= m => \E q \in 0..Len(events) : Complete(k, q)}
<1>1. Len(w) = 4 * Len(events)
  BY DEF IsFrames
<1>2. Len(events) \in Nat /\ m \in Nat /\ m <= Len(w)
  BY <1>1
<1>3. Len(text) = m /\ \A i \in 1..m : text[i] = w[i]
  BY <1>2, Part
<1> HIDE DEF text
<1>4. IsSplit(split, text, m)
  BY <1>2, SplitExists
<1>5. Split(text) = split[m]
  BY <1>3 DEF Split, IsSplit, split
<1> HIDE DEF split, Complete
<1>6. 0 \in E
  <2>1. split[0] = [events |-> <<>>, rest |-> <<>>]
    BY <1>2, <1>4 DEF IsSplit
  <2>2. SubSeq(events, 1, 0) = <<>> /\ SubSeq(w, 1, 0) = <<>>
    BY SubSeqEmpty
  <2>3. 4 * 0 + 1 = 1 /\ 4 * 0 <= 0 /\ 0 < 4 * 0 + 4 /\ 0 \in 0..Len(events)
    BY <1>2
  <2>4. Complete(0, 0)
    BY <2>1, <2>2, <2>3 DEF Complete
  <2> QED
    BY <2>3, <2>4
<1>7. ASSUME NEW k \in Nat, k \in E, k + 1 <= m
      PROVE  \E q \in 0..Len(events) : Complete(k + 1, q)
  <2>1. PICK q \in 0..Len(events) : Complete(k, q)
    BY <1>2, <1>7
  <2> DEFINE rest == SubSeq(w, 4 * q + 1, k)
             token == w[k + 1]
  <2>2. split[k + 1] = Cut([events |-> SubSeq(events, 1, q), rest |-> rest], token)
    <3>1. k + 1 \in 0..m /\ k + 1 # 0 /\ (k + 1) - 1 = k /\ k + 1 \in 1..m
      BY <1>2, <1>7
    <3>2. split[k + 1] = Cut(split[k], text[k + 1])
      BY <1>4, <3>1 DEF IsSplit
    <3> QED
      BY <1>3, <2>1, <3>1, <3>2 DEF Complete
  <2>3. q \in Nat /\ q <= Len(events) /\ 4 * q <= k /\ k < 4 * q + 4
    BY <1>2, <2>1 DEF Complete
  <2>4. q + 1 \in 1..Len(events)
    BY <1>1, <1>2, <1>7, <2>3
  <2>5. /\ w[4 * q + 1] = Data /\ w[4 * q + 2] = events[q + 1]
        /\ w[4 * q + 3] = NL /\ w[4 * q + 4] = NL
    <3>1. /\ 4 * (q + 1) - 3 = 4 * q + 1 /\ 4 * (q + 1) - 2 = 4 * q + 2
          /\ 4 * (q + 1) - 1 = 4 * q + 3 /\ 4 * (q + 1) = 4 * q + 4
      BY <2>3
    <3>2. /\ w[4 * (q + 1) - 3] = Data /\ w[4 * (q + 1) - 2] = events[q + 1]
          /\ w[4 * (q + 1) - 1] = NL /\ w[4 * (q + 1)] = NL
      BY <2>4 DEF IsFrames
    <3> QED
      BY <3>1, <3>2
  <2>6. /\ rest \in Seq(Tokens) /\ Len(rest) = k - 4 * q
        /\ \A i \in 1..(k - 4 * q) : rest[i] = w[4 * q + i]
    <3>1. /\ 4 * q + 1 \in Nat \ {0} /\ 4 * q + 1 <= k + 1 /\ k <= Len(w)
          /\ (k + 1) - (4 * q + 1) = k - 4 * q
          /\ \A i \in 1..(k - 4 * q) : (4 * q + 1) + i - 1 = 4 * q + i
      BY <1>2, <1>7, <2>3
    <3>2. \A a \in Nat \ {0}, b \in Nat : a <= b + 1 /\ b <= Len(w) =>
            /\ SubSeq(w, a, b) \in Seq(Tokens)
            /\ Len(SubSeq(w, a, b)) = b + 1 - a
            /\ \A i \in 1..(b + 1 - a) : SubSeq(w, a, b)[i] = w[a + i - 1]
      BY Part
    <3>3. /\ rest \in Seq(Tokens) /\ Len(rest) = (k + 1) - (4 * q + 1)
          /\ \A i \in 1..((k + 1) - (4 * q + 1)) : rest[i] = w[(4 * q + 1) + i - 1]
      BY <3>1, <3>2
    <3> HIDE DEF rest
    <3> QED
      BY <3>1, <3>3
  <2>7. Append(rest, token) = SubSeq(w, 4 * q + 1, k + 1)
    <3>1. \A a \in Nat \ {0}, b \in Nat : a <= b + 1 /\ b < Len(w) =>
            Append(SubSeq(w, a, b), w[b + 1]) = SubSeq(w, a, b + 1)
      BY OneMore
    <3>2. 4 * q + 1 \in Nat \ {0} /\ 4 * q + 1 <= k + 1 /\ k < Len(w)
      BY <1>2, <1>7, <2>3
    <3> QED
      BY <3>1, <3>2
  <2> HIDE DEF rest, token
  <2>8. CASE k # 4 * q + 3
    <3>1. token = NL => rest = <<>> \/ Last(rest) # NL
      <4>1. CASE k = 4 * q
        <5>1. rest = <<>>
          BY <2>3, <2>6, <4>1
        <5> QED
          BY <5>1
      <4>2. CASE k = 4 * q + 1
        BY <2>4, <2>5, <4>2, EventTokens DEF token
      <4>3. CASE k = 4 * q + 2
        <5>1. Len(rest) = 2 /\ rest[2] = events[q + 1]
          BY <2>3, <2>5, <2>6, <4>3
        <5>2. events[q + 1] # NL
          BY <2>4, EventTokens
        <5> QED
          BY <5>1, <5>2 DEF Last
      <4> QED
        BY <2>3, <2>8, <4>1, <4>2, <4>3
    <3>2. split[k + 1] = [events |-> SubSeq(events, 1, q), rest |-> Append(rest, token)]
      BY <2>2, <3>1, CutWithin
    <3>3. Complete(k + 1, q)
      BY <2>3, <2>7, <2>8, <3>2 DEF Complete
    <3> QED
      BY <3>3
  <2>9. CASE k = 4 * q + 3
    <3>1. /\ Len(rest) = 3 /\ rest[1] = Data /\ rest[2] = events[q + 1] /\ rest[3] = NL
          /\ token = NL
      BY <2>3, <2>5, <2>6, <2>9 DEF token
    <3>2. SubSeq(events, 1, q) \in Seq(Events)
      BY <1>2, <2>3, Part
    <3>3. events[q + 1] \in Events
      BY <2>4
    <3>4. split[k + 1] = [events |-> Append(SubSeq(events, 1, q), events[q + 1]), rest |-> <<>>]
      BY <2>2, <2>6, <3>1, <3>2, <3>3, CutAtTheEnd
    <3>5. Append(SubSeq(events, 1, q), events[q + 1]) = SubSeq(events, 1, q + 1)
      BY <1>2, <2>3, <2>4, OneMore
    <3>6. SubSeq(w, 4 * (q + 1) + 1, k + 1) = <<>>
      BY <1>2, <2>3, <2>9, SubSeqEmpty
    <3>7. 4 * (q + 1) <= k + 1 /\ k + 1 < 4 * (q + 1) + 4
      BY <2>3, <2>9
    <3>8. Complete(k + 1, q + 1)
      BY <3>4, <3>5, <3>6, <3>7 DEF Complete
    <3> QED
      BY <2>4, <3>8
  <2> QED
    BY <2>8, <2>9
<1>8. \A k \in Nat : k \in E => k + 1 \in E
  BY <1>7
<1> HIDE DEF E
<1>9. m \in E
  BY <1>2, <1>6, <1>8, Induction
<1>10. \E q \in 0..Len(events) : Complete(m, q)
  BY <1>2, <1>9 DEF E
<1> QED
  BY <1>5, <1>10 DEF text, Complete

\* Of a list that begins with stages and has none after them, StagesIn makes
\* that beginning.
LEMMA LeadingStages ==
  ASSUME NEW X, NEW list \in Seq(X), NEW k \in 0..Len(list),
         \A i \in 1..Len(list) : list[i] \in Stages <=> i <= k
  PROVE  StagesIn(list) = SubSeq(list, 1, k)
<1> DEFINE stages == CHOOSE f : IsStages(f, list, Len(list))
           upTo(n) == IF n <= k THEN n ELSE k
           E == {n \in Nat : n <= Len(list) => stages[n] = SubSeq(list, 1, upTo(n))}
<1>1. Len(list) \in Nat /\ k \in Nat /\ k <= Len(list)
  OBVIOUS
<1>2. IsStages(stages, list, Len(list))
  BY <1>1, StagesExist
<1>3. StagesIn(list) = stages[Len(list)]
  BY DEF StagesIn, IsStages, stages
<1> HIDE DEF stages
<1>4. 0 \in E
  <2>1. stages[0] = <<>>
    BY <1>1, <1>2 DEF IsStages
  <2>2. upTo(0) = 0 /\ SubSeq(list, 1, 0) = <<>>
    BY <1>1, SubSeqEmpty
  <2> QED
    BY <2>1, <2>2
<1>5. ASSUME NEW n \in Nat, n \in E, n + 1 <= Len(list)
      PROVE  stages[n + 1] = SubSeq(list, 1, upTo(n + 1))
  <2>1. n + 1 \in 1..Len(list) /\ n + 1 \in 0..Len(list) /\ n + 1 # 0 /\ (n + 1) - 1 = n
    BY <1>1, <1>5
  <2>2. stages[n] = SubSeq(list, 1, upTo(n))
    BY <1>1, <1>5
  <2>3. stages[n + 1] = IF list[n + 1] \in Stages THEN Append(stages[n], list[n + 1])
                        ELSE stages[n]
    BY <1>2, <2>1 DEF IsStages
  <2>4. CASE n + 1 <= k
    <3>1. upTo(n) = n /\ upTo(n + 1) = n + 1 /\ list[n + 1] \in Stages
      BY <1>1, <2>1, <2>4
    <3>2. Append(SubSeq(list, 1, n), list[n + 1]) = SubSeq(list, 1, n + 1)
      BY <1>1, <1>5, OneMore
    <3> QED
      BY <2>2, <2>3, <3>1, <3>2
  <2>5. CASE ~ (n + 1 <= k)
    <3>1. upTo(n) = upTo(n + 1) /\ list[n + 1] \notin Stages
      BY <1>1, <2>1, <2>5
    <3> QED
      BY <2>2, <2>3, <3>1
  <2> QED
    BY <2>4, <2>5
<1>6. \A n \in Nat : n \in E => n + 1 \in E
  BY <1>5
<1> HIDE DEF E
<1>7. Len(list) \in E
  BY <1>1, <1>4, <1>6, Induction
<1>8. upTo(Len(list)) = k
  BY <1>1
<1> QED
  BY <1>1, <1>3, <1>7, <1>8 DEF E

-----------------------------------------------------------------------------
(* The inductive invariant.                                                *)

\* The events were yielded along the edges of the graph, and an event that is
\* no stage is the last.
Path ==
  /\ \A i \in 1..Len(emitted) : i < Len(emitted) => emitted[i] \in Stages
  /\ Len(emitted) > 0 => emitted[1] \in {"check_cache", "error"}
  /\ \A i \in 2..Len(emitted) :
       /\ emitted[i] \in Stages => emitted[i] \in Successors(emitted[i - 1])
       /\ emitted[i] = "result" => "END" \in Successors(emitted[i - 1])

\* Where the graph is, after what was yielded.
Standing ==
  /\ backend = "idle" => emitted = <<>> /\ node = "check_cache"
  /\ backend # "ended" => \A i \in 1..Len(emitted) : emitted[i] \in Stages
  /\ backend = "running" =>
       /\ node \in Stages
       /\ Len(emitted) = 0 => node = "check_cache"
       /\ Len(emitted) > 0 => node \in Successors(emitted[Len(emitted)])
  /\ backend = "result" =>
       /\ node = "END"
       /\ Len(emitted) > 0 /\ "END" \in Successors(emitted[Len(emitted)])

\* What the graph has written, at its last node and at its end.
Written ==
  /\ node = "write_question" => "answer" \in stores
  /\ node = "END" => cached \/ ("answer" \in stores /\ ("question" \in stores \/ lost))
  /\ \A i \in 1..Len(emitted) : emitted[i] = "result" => node = "END"

\* The halves start and end together.
Together ==
  /\ relay \in {"new", "refused"} => backend = "idle" /\ parts = <<>>
  /\ relay = "new" => conn = "open" /\ buffer = <<>> /\ wire = <<>>
  /\ relay = "ended" /\ conn = "open" => backend \in {"idle", "ended"}
  /\ conn = "left" => relay = "ended"
  /\ hasResult <=> \E i \in 1..Len(parts) : parts[i] = "text"

\* While the relay reads an open connection, what it has not told yet is, in
\* frames, in its buffer and on the wire.
Flow ==
  relay = "reading" /\ conn = "open" =>
    /\ Len(buffer) < 4
    /\ IsFrames(buffer \o wire, SubSeq(emitted, Len(parts) + 1, Len(emitted)))

\* The parts are those of the first k events, and an error of the relay's own.
ToldOf(k) ==
  /\ \A i \in 1..k : parts[i] = PartOf(emitted[i])
  /\ \/ Len(parts) = k
     \/ relay = "ended" /\ Len(parts) = k + 1 /\ parts[k + 1] = "error"
  /\ relay = "ended" /\ conn = "open" => k = Len(emitted)

Telling == \E k \in 0..Len(emitted) : ToldOf(k)

IInv == TypeOK /\ Path /\ Standing /\ Written /\ Together /\ Flow /\ Telling

-----------------------------------------------------------------------------
(* What the definitions of the model give.                                 *)

Messages == Stages \cup {"text", "error"}

LEMMA Names ==
  /\ "END" \notin Stages /\ "result" \notin Stages
  /\ "error" \notin Stages /\ "text" \notin Stages
  /\ Stages \subseteq Events /\ "result" \in Events /\ "error" \in Events
  /\ \A event \in Events : event \in Stages \/ event = "result" \/ event = "error"
  BY DEF Events, Stages

LEMMA PartOfEvent ==
  ASSUME NEW event \in Events
  PROVE  /\ PartOf(event) \in Messages
         /\ PartOf(event) = "text" <=> event = "result"
         /\ PartOf(event) = "error" <=> event = "error"
         /\ PartOf(event) \in Stages <=> event \in Stages
         /\ event \in Stages => PartOf(event) = event
BY Names DEF PartOf, Messages

LEMMA PartsTyped ==
  ASSUME NEW events \in Seq(Events)
  PROVE  /\ PartsOf(events) \in Seq(Messages)
         /\ Len(PartsOf(events)) = Len(events)
         /\ \A i \in 1..Len(events) : PartsOf(events)[i] = PartOf(events[i])
<1> DEFINE list == PartsOf(events)
<1>1. Len(events) \in Nat /\ DOMAIN events = 1..Len(events)
  OBVIOUS
<1>2. \A i \in 1..Len(events) : events[i] \in Events
  OBVIOUS
<1>3. \A i \in 1..Len(events) : PartOf(events[i]) \in Messages
  BY <1>2, PartOfEvent
<1>4. list = [i \in 1..Len(events) |-> PartOf(events[i])]
  BY <1>1 DEF PartsOf
<1>5. list \in [1..Len(events) -> Messages]
  BY <1>3, <1>4
<1>6. list \in Seq(Messages) /\ Len(list) = Len(events)
  BY <1>1, <1>5
<1> QED
  BY <1>4, <1>6

LEMMA Edges ==
  ASSUME NEW stage \in Stages
  PROVE  /\ Successors(stage) \subseteq Stages \cup {"END"}
         /\ "write_question" \in Successors(stage) => stage = "write_cache"
         /\ "END" \in Successors(stage) => stage \in {"check_cache", "write_question"}
BY DEF Stages, Successors

\* A read takes the first tokens of what is under way, and leaves the others.
LEMMA ReadMore ==
  ASSUME NEW X, NEW b \in Seq(X), NEW v \in Seq(X), NEW n \in 0..Len(v)
  PROVE  /\ b \o SubSeq(v, 1, n) = SubSeq(b \o v, 1, Len(b) + n)
         /\ SubSeq(v, n + 1, Len(v)) = SubSeq(b \o v, Len(b) + n + 1, Len(b \o v))
<1> DEFINE w == b \o v
           read == SubSeq(v, 1, n)
           left == SubSeq(v, n + 1, Len(v))
           m == Len(b) + n
           upTo == SubSeq(w, 1, m)
           from == SubSeq(w, m + 1, Len(w))
<1>1. Len(b) \in Nat /\ Len(v) \in Nat /\ n \in Nat /\ n <= Len(v)
  OBVIOUS
<1>2. /\ w \in Seq(X) /\ Len(w) = Len(b) + Len(v)
      /\ \A i \in 1..Len(b) : w[i] = b[i]
      /\ \A i \in 1..Len(v) : w[Len(b) + i] = v[i]
  BY Joined
<1> HIDE DEF w
<1>3. /\ m \in Nat /\ m <= Len(w) /\ m + 1 \in Nat \ {0} /\ n + 1 \in Nat \ {0}
      /\ m + 1 <= Len(w) + 1 /\ n + 1 <= Len(v) + 1 /\ Len(w) \in Nat
      /\ 1 <= n + 1 /\ 1 <= m + 1 /\ 1 \in Nat \ {0}
  BY <1>1, <1>2
<1>4. \A s \in Seq(X), a \in Nat \ {0}, c \in Nat : a <= c + 1 /\ c <= Len(s) =>
        /\ SubSeq(s, a, c) \in Seq(X)
        /\ Len(SubSeq(s, a, c)) = c + 1 - a
        /\ \A i \in 1..(c + 1 - a) : SubSeq(s, a, c)[i] = s[a + i - 1]
  BY Part
<1>5. read \in Seq(X) /\ Len(read) = n /\ \A i \in 1..n : read[i] = v[i]
  BY <1>1, <1>3, <1>4
<1>6. /\ left \in Seq(X) /\ Len(left) = Len(v) - n
      /\ \A i \in 1..(Len(v) - n) : left[i] = v[n + i]
  BY Rest, Zenon
<1>7. upTo \in Seq(X) /\ Len(upTo) = m /\ \A i \in 1..m : upTo[i] = w[i]
  BY <1>1, <1>2, <1>3, <1>4
<1>8. /\ from \in Seq(X) /\ Len(from) = Len(w) - m
      /\ \A i \in 1..(Len(w) - m) : from[i] = w[m + i]
  BY <1>1, <1>2, <1>3, <1>4
<1> HIDE DEF read, left, upTo, from
<1> DEFINE both == b \o read
<1>9. both = upTo
  <2>1. /\ both \in Seq(X) /\ Len(both) = Len(b) + Len(read)
        /\ \A i \in 1..Len(b) : both[i] = b[i]
        /\ \A i \in 1..Len(read) : both[Len(b) + i] = read[i]
    <3>1. \A t \in Seq(X) : /\ b \o t \in Seq(X) /\ Len(b \o t) = Len(b) + Len(t)
                            /\ \A i \in 1..Len(b) : (b \o t)[i] = b[i]
                            /\ \A i \in 1..Len(t) : (b \o t)[Len(b) + i] = t[i]
      BY Joined
    <3> QED
      BY <1>5, <3>1
  <2> HIDE DEF both
  <2>2. ASSUME NEW i \in 1..m PROVE both[i] = upTo[i]
    <3>1. CASE i <= Len(b)
      BY <1>1, <1>2, <1>7, <2>1, <3>1
    <3>2. CASE ~ (i <= Len(b))
      <4>1. i - Len(b) \in 1..n /\ Len(b) + (i - Len(b)) = i /\ i - Len(b) \in 1..Len(v)
        BY <1>1, <3>2
      <4>2. both[i] = read[i - Len(b)] /\ w[i] = v[i - Len(b)]
        BY <1>2, <1>5, <2>1, <4>1
      <4> QED
        BY <1>5, <1>7, <4>1, <4>2
    <3> QED
      BY <3>1, <3>2
  <2>3. Len(both) = m
    BY <1>5, <2>1
  <2> QED
    BY <1>7, <2>1, <2>2, <2>3, SeqEqual
<1>10. left = from
  <2>1. Len(w) - m = Len(v) - n
    BY <1>1, <1>2
  <2>2. ASSUME NEW i \in 1..(Len(v) - n) PROVE left[i] = from[i]
    <3>1. n + i \in 1..Len(v) /\ m + i = Len(b) + (n + i)
      BY <1>1
    <3> QED
      BY <1>2, <1>6, <1>8, <2>1, <3>1
  <2> QED
    BY <1>6, <1>8, <2>1, <2>2, SeqEqual
<1> QED
  BY <1>9, <1>10 DEF both, read, left, upTo, from, w

-----------------------------------------------------------------------------
(* The backend.                                                            *)

\* The types of what an event adds, and what else follows from the event alone.
LEMMA YieldAdds ==
  ASSUME TypeOK, NEW event \in Events, Yield(event), UNCHANGED conn
  PROVE  /\ emitted' \in Seq(Events) /\ Len(emitted) \in Nat
         /\ Len(emitted') = Len(emitted) + 1 /\ emitted'[Len(emitted) + 1] = event
         /\ \A i \in 1..Len(emitted) : emitted'[i] = emitted[i]
         /\ wire' \in Seq(Tokens) /\ Len(wire') <= Window
<1>1. emitted \in Seq(Events) /\ wire \in Seq(Tokens) /\ Len(wire) <= Window
  BY DEF TypeOK
<1>2. emitted' = Append(emitted, event)
  BY DEF Yield
<1>3. /\ emitted' \in Seq(Events) /\ Len(emitted) \in Nat
      /\ Len(emitted') = Len(emitted) + 1 /\ emitted'[Len(emitted) + 1] = event
      /\ \A i \in 1..Len(emitted) : emitted'[i] = emitted[i]
  BY <1>1, <1>2, AppendProperties
<1>4. Frame(event) \in Seq(Tokens)
  <2>1. \A a, b, c, d \in Tokens : <<a, b, c, d>> \in Seq(Tokens)
    OBVIOUS
  <2>2. Data \in Tokens /\ event \in Tokens /\ NL \in Tokens
    BY EventTokens DEF Tokens
  <2> QED
    BY <2>1, <2>2 DEF Frame
<1>5. CASE conn = "open"
  <2> DEFINE frame == Frame(event)
  <2>1. wire' = wire \o frame /\ Len(wire) + Len(frame) <= Window
    BY <1>5 DEF Yield
  <2> HIDE DEF frame
  <2>2. \A t \in Seq(Tokens) : wire \o t \in Seq(Tokens) /\ Len(wire \o t) = Len(wire) + Len(t)
    BY <1>1, Joined
  <2>3. wire' \in Seq(Tokens) /\ Len(wire') <= Window
    BY <1>4, <2>1, <2>2 DEF frame
  <2> QED
    BY <1>3, <2>3
<1>6. CASE conn # "open"
  <2>1. wire' = wire
    BY <1>6 DEF Yield
  <2> QED
    BY <1>1, <1>3, <2>1
<1> QED
  BY <1>5, <1>6

\* Whatever the backend yields, the relay has it before it or nobody reads it.
LEMMA YieldFlows ==
  ASSUME IInv, NEW event \in Events, Yield(event), UNCHANGED <<conn, relayVars>>,
         backend \in {"running", "result", "failed"}
  PROVE  Flow' /\ Telling'
<1>1. /\ emitted' \in Seq(Events) /\ Len(emitted) \in Nat
      /\ Len(emitted') = Len(emitted) + 1 /\ emitted'[Len(emitted) + 1] = event
      /\ \A i \in 1..Len(emitted) : emitted'[i] = emitted[i]
  BY YieldAdds DEF IInv
<1>2. /\ conn' = conn /\ relay' = relay /\ buffer' = buffer /\ parts' = parts
  BY DEF relayVars
<1>3. PICK k \in 0..Len(emitted) : ToldOf(k)
  BY DEF IInv, Telling
<1>4. ~ (relay = "ended" /\ conn = "open")
  BY DEF IInv, Together
<1>5. Telling'
  <2>1. k \in 0..Len(emitted')
    BY <1>1
  <2>2. \A i \in 1..k : parts'[i] = PartOf(emitted'[i])
    BY <1>1, <1>2, <1>3 DEF ToldOf
  <2>3. \/ Len(parts') = k
        \/ relay' = "ended" /\ Len(parts') = k + 1 /\ parts'[k + 1] = "error"
    BY <1>2, <1>3 DEF ToldOf
  <2>4. (ToldOf(k))'
    BY <1>2, <1>4, <2>2, <2>3 DEF ToldOf
  <2> QED
    BY <2>1, <2>4 DEF Telling
<1>6. ASSUME relay = "reading", conn = "open"
      PROVE  IsFrames(buffer \o wire', SubSeq(emitted', Len(parts) + 1, Len(emitted')))
  <2> DEFINE w == buffer \o wire
             a == Len(parts) + 1
             due == SubSeq(emitted, a, Len(emitted))
             dueNow == SubSeq(emitted', a, Len(emitted'))
  <2>1. buffer \in Seq(Tokens) /\ wire \in Seq(Tokens) /\ emitted \in Seq(Events)
    BY DEF IInv, TypeOK
  <2>2. IsFrames(w, due)
    BY <1>6 DEF IInv, Flow
  <2>3. Len(parts) = k
    BY <1>3, <1>6 DEF ToldOf
  <2>4. a \in Nat \ {0} /\ a <= Len(emitted) + 1
    BY <1>1, <2>3
  <2>5. w \in Seq(Tokens)
    BY <2>1, Joined
  <2>6. due \in Seq(Events)
    <3> HIDE DEF a
    <3> QED
      BY <1>1, <2>1, <2>4, Part
  <2>7. dueNow = Append(due, event)
    <3> HIDE DEF a
    <3>1. SubSeq(emitted', a, Len(emitted)) = due
      BY <1>1, <2>1, <2>4
    <3>2. Append(SubSeq(emitted', a, Len(emitted)), emitted'[Len(emitted) + 1])
            = SubSeq(emitted', a, Len(emitted) + 1)
      BY <1>1, <2>4, OneMore
    <3> QED
      BY <1>1, <3>1, <3>2
  <2>8. buffer \o wire' = w \o Frame(event)
    <3>1. wire' = wire \o Frame(event)
      BY <1>6 DEF Yield
    <3>2. Frame(event) \in Seq(Tokens)
      <4>1. \A b, c, d, e \in Tokens : <<b, c, d, e>> \in Seq(Tokens)
        OBVIOUS
      <4>2. Data \in Tokens /\ event \in Tokens /\ NL \in Tokens
        BY EventTokens DEF Tokens
      <4> QED
        BY <4>1, <4>2 DEF Frame
    <3> QED
      BY <2>1, <3>1, <3>2, ConcatAssociative
  <2> HIDE DEF w, due, dueNow
  <2>9. IsFrames(w \o Frame(event), Append(due, event))
    BY <2>2, <2>5, <2>6, OneFrameMore
  <2> QED
    BY <2>7, <2>8, <2>9 DEF dueNow, a
<1>7. Flow'
  <2>1. relay = "reading" /\ conn = "open" => Len(buffer) < 4
    BY DEF IInv, Flow
  <2> QED
    BY <1>2, <1>6, <2>1 DEF Flow
<1> QED
  BY <1>5, <1>7

\* A step that leaves the connection, the relay and the events alone.
LEMMA NothingFlows ==
  ASSUME Flow, Telling, UNCHANGED <<emitted, conn, wire, relay, buffer, parts>>
  PROVE  Flow' /\ Telling'
<1>1. Flow'
  BY DEF Flow
<1>2. PICK k \in 0..Len(emitted) : ToldOf(k)
  BY DEF Telling
<1>3. (ToldOf(k))'
  BY <1>2 DEF ToldOf
<1> QED
  BY <1>1, <1>2, <1>3 DEF Telling

LEMMA WhatANodeLeaves ==
  ASSUME TypeOK, NEW done \in BOOLEAN, Effect(done)
  PROVE  /\ stores \subseteq stores' /\ stores' \subseteq {"answer", "question"}
         /\ lost' \in BOOLEAN
         /\ node = "write_cache" /\ done => "answer" \in stores'
         /\ node = "write_question" => "question" \in stores' \/ lost'
<1>1. stores \subseteq {"answer", "question"}
  BY DEF TypeOK
<1>2. stores \subseteq stores' /\ stores' \subseteq {"answer", "question"}
  BY <1>1 DEF Effect
<1>3. lost' \in BOOLEAN
  BY DEF Effect
<1>4. node = "write_cache" /\ done => "answer" \in stores'
  BY DEF Effect
<1>5. ASSUME node = "write_question" PROVE "question" \in stores' \/ lost'
  <2>1. CASE done
    BY <1>5, <2>1 DEF Effect
  <2>2. CASE ~done
    BY <1>5, <2>2 DEF Effect
  <2> QED
    BY <2>1, <2>2
<1> QED
  BY <1>2, <1>3, <1>4, <1>5

LEMMA NodeDoneInv ==
  ASSUME IInv, NodeDone
  PROVE  IInv'
<1> USE DEF IInv
<1>1. /\ backend = "running" /\ Yield(node)
      /\ conn' = conn /\ relay' = relay /\ buffer' = buffer
      /\ hasResult' = hasResult /\ parts' = parts
  BY DEF NodeDone, relayVars
<1>2. PICK done \in {TRUE, node # "write_question"} : Effect(done)
  BY DEF NodeDone
<1>3. PICK next \in Successors(node) :
        /\ node = "validator" /\ next = "refiner" => MayRetry
        /\ node' = next
        /\ retry_count' = IF node = "validator" /\ next = "refiner"
                          THEN retry_count + 1 ELSE retry_count
        /\ cached' = (cached \/ (node = "check_cache" /\ next = "END"))
        /\ backend' = IF next = "END" THEN "result" ELSE "running"
  BY DEF NodeDone
<1>4. node \in Stages /\ node \in Events /\ node # "END"
  BY <1>1, Names DEF Standing
<1>5. /\ emitted' \in Seq(Events) /\ Len(emitted) \in Nat
      /\ Len(emitted') = Len(emitted) + 1 /\ emitted'[Len(emitted) + 1] = node
      /\ \A i \in 1..Len(emitted) : emitted'[i] = emitted[i]
      /\ wire' \in Seq(Tokens) /\ Len(wire') <= Window
  BY <1>1, <1>4, YieldAdds
<1>6. done \in BOOLEAN /\ (node # "write_question" => done)
  BY <1>2
<1>7. /\ stores \subseteq stores' /\ stores' \subseteq {"answer", "question"}
      /\ lost' \in BOOLEAN
      /\ node = "write_cache" => "answer" \in stores'
      /\ node = "write_question" => "question" \in stores' \/ lost'
  BY <1>2, <1>6, WhatANodeLeaves
<1>8. TypeOK'
  <2>1. backend' \in {"idle", "running", "result", "failed", "ended", "stopped"}
    BY <1>3
  <2>2. node' \in Stages \cup {"END"}
    BY <1>3, <1>4, Edges
  <2>3. retry_count' \in 0..MaxRetries
    BY <1>3, StreamAssumption DEF TypeOK, MayRetry
  <2>4. cached' \in BOOLEAN
    BY <1>3 DEF TypeOK
  <2>5. hasResult' \in BOOLEAN /\ conn' \in {"open", "lost", "left"}
    BY <1>1 DEF TypeOK
  <2>6. /\ relay' \in {"new", "reading", "ended", "refused"}
        /\ buffer' \in Seq(Tokens) /\ parts' \in Seq(Stages \cup {"text", "error"})
    BY <1>1 DEF TypeOK
  <2> QED
    BY <1>5, <1>7, <2>1, <2>2, <2>3, <2>4, <2>5, <2>6 DEF TypeOK
<1>9. \A i \in 1..Len(emitted) : emitted[i] \in Stages
  BY <1>1 DEF Standing
<1>10. \A i \in 1..Len(emitted') : emitted'[i] \in Stages
  BY <1>4, <1>5, <1>9
<1>11. Path'
  <2>1. \A i \in 1..Len(emitted') : i < Len(emitted') => emitted'[i] \in Stages
    BY <1>10
  <2>2. emitted'[1] \in {"check_cache", "error"}
    <3>1. CASE Len(emitted) = 0
      BY <1>1, <1>5, <3>1 DEF Standing
    <3>2. CASE Len(emitted) # 0
      BY <1>5, <3>2 DEF Path
    <3> QED
      BY <3>1, <3>2
  <2>3. ASSUME NEW i \in 2..Len(emitted')
        PROVE  /\ emitted'[i] \in Stages => emitted'[i] \in Successors(emitted'[i - 1])
               /\ emitted'[i] = "result" => "END" \in Successors(emitted'[i - 1])
    <3>1. emitted'[i] # "result"
      BY <1>10, Names
    <3>2. CASE i = Len(emitted) + 1
      <4>1. Len(emitted) > 0 /\ i - 1 = Len(emitted) /\ Len(emitted) \in 1..Len(emitted)
        BY <1>5, <3>2
      <4>2. node \in Successors(emitted[Len(emitted)])
        BY <1>1, <4>1 DEF Standing
      <4> QED
        BY <1>5, <3>1, <3>2, <4>1, <4>2
    <3>3. CASE i # Len(emitted) + 1
      <4>1. i \in 2..Len(emitted) /\ i - 1 \in 1..Len(emitted) /\ i \in 1..Len(emitted)
        BY <1>5, <3>3
      <4>2. emitted[i] \in Stages => emitted[i] \in Successors(emitted[i - 1])
        BY <4>1 DEF Path
      <4> QED
        BY <1>5, <3>1, <4>1, <4>2
    <3> QED
      BY <3>2, <3>3
  <2> QED
    BY <2>1, <2>2, <2>3 DEF Path
<1>12. Standing'
  <2>1. backend' \in {"running", "result"}
    BY <1>3
  <2>2. backend' = "running" => node' \in Stages
    BY <1>3, <1>4, Edges
  <2>3. Len(emitted') > 0 /\ emitted'[Len(emitted')] = node /\ node' \in Successors(node)
    BY <1>3, <1>5
  <2>4. backend' = "result" => node' = "END"
    BY <1>3
  <2> QED
    BY <1>10, <2>1, <2>2, <2>3, <2>4 DEF Standing
<1>13. Written'
  <2>1. node' = "write_question" => "answer" \in stores'
    BY <1>3, <1>4, <1>7, Edges
  <2>2. node' = "END" => cached' \/ ("answer" \in stores' /\ ("question" \in stores' \/ lost'))
    <3>1. node = "write_question" => "answer" \in stores'
      BY <1>7 DEF Written
    <3>2. node' = "END" => node \in {"check_cache", "write_question"}
      BY <1>3, <1>4, Edges
    <3>3. node' = "END" /\ node = "check_cache" => cached'
      BY <1>3
    <3> QED
      BY <1>7, <3>1, <3>2, <3>3
  <2>3. \A i \in 1..Len(emitted') : emitted'[i] # "result"
    BY <1>10, Names
  <2> QED
    BY <2>1, <2>2, <2>3 DEF Written
<1>14. Together'
  <2>1. relay \notin {"new", "refused"} /\ ~ (relay = "ended" /\ conn = "open")
    BY <1>1 DEF Together
  <2>2. conn = "left" => relay = "ended"
    BY DEF Together
  <2>3. hasResult <=> \E i \in 1..Len(parts) : parts[i] = "text"
    BY DEF Together
  <2> QED
    BY <1>1, <2>1, <2>2, <2>3 DEF Together
<1>15. Flow' /\ Telling'
  BY <1>1, <1>4, YieldFlows DEF relayVars
<1> QED
  BY <1>8, <1>11, <1>12, <1>13, <1>14, <1>15

\* The last event of the backend.
LEMMA YieldLastInv ==
  ASSUME IInv, YieldResult \/ YieldError
  PROVE  IInv'
<1> USE DEF IInv
<1> DEFINE event == IF backend = "result" THEN "result" ELSE "error"
<1>1. /\ backend \in {"result", "failed"} /\ Yield(event) /\ backend' = "ended"
      /\ node' = node /\ retry_count' = retry_count /\ cached' = cached
      /\ stores' = stores /\ lost' = lost
      /\ conn' = conn /\ relay' = relay /\ buffer' = buffer
      /\ hasResult' = hasResult /\ parts' = parts
  <2>1. CASE YieldResult
    BY <2>1 DEF YieldResult, relayVars
  <2>2. CASE YieldError
    BY <2>2 DEF YieldError, relayVars
  <2> QED
    BY <2>1, <2>2
<1>2. /\ event \in {"result", "error"} /\ event \in Events /\ event \notin Stages
      /\ event = "result" <=> backend = "result"
  BY Names
<1> HIDE DEF event
<1>3. /\ emitted' \in Seq(Events) /\ Len(emitted) \in Nat
      /\ Len(emitted') = Len(emitted) + 1 /\ emitted'[Len(emitted) + 1] = event
      /\ \A i \in 1..Len(emitted) : emitted'[i] = emitted[i]
      /\ wire' \in Seq(Tokens) /\ Len(wire') <= Window
  BY <1>1, <1>2, YieldAdds
<1>4. TypeOK'
  BY <1>1, <1>3 DEF TypeOK
<1>5. \A i \in 1..Len(emitted) : emitted[i] \in Stages
  BY <1>1 DEF Standing
<1>6. Path'
  <2>1. \A i \in 1..Len(emitted') : i < Len(emitted') => emitted'[i] \in Stages
    BY <1>3, <1>5
  <2>2. event = "result" => Len(emitted) > 0 /\ "END" \in Successors(emitted[Len(emitted)])
    BY <1>2 DEF Standing
  <2>3. emitted'[1] \in {"check_cache", "error"}
    <3>1. CASE Len(emitted) = 0
      BY <1>2, <1>3, <2>2, <3>1
    <3>2. CASE Len(emitted) # 0
      BY <1>3, <3>2 DEF Path
    <3> QED
      BY <3>1, <3>2
  <2>4. ASSUME NEW i \in 2..Len(emitted')
        PROVE  /\ emitted'[i] \in Stages => emitted'[i] \in Successors(emitted'[i - 1])
               /\ emitted'[i] = "result" => "END" \in Successors(emitted'[i - 1])
    <3>1. CASE i = Len(emitted) + 1
      <4>1. i - 1 = Len(emitted) /\ Len(emitted) \in 1..Len(emitted)
        BY <1>3, <3>1
      <4> QED
        BY <1>2, <1>3, <2>2, <3>1, <4>1
    <3>2. CASE i # Len(emitted) + 1
      <4>1. i \in 2..Len(emitted) /\ i - 1 \in 1..Len(emitted) /\ i \in 1..Len(emitted)
        BY <1>3, <3>2
      <4>2. /\ emitted[i] \in Stages => emitted[i] \in Successors(emitted[i - 1])
            /\ emitted[i] = "result" => "END" \in Successors(emitted[i - 1])
        BY <4>1 DEF Path
      <4> QED
        BY <1>3, <4>1, <4>2
    <3> QED
      BY <3>1, <3>2
  <2> QED
    BY <2>1, <2>3, <2>4 DEF Path
<1>7. Standing'
  BY <1>1 DEF Standing
<1>8. Written'
  <2>1. ASSUME NEW i \in 1..Len(emitted'), emitted'[i] = "result" PROVE node' = "END"
    <3>1. CASE i = Len(emitted) + 1
      BY <1>1, <1>2, <1>3, <2>1, <3>1 DEF Standing
    <3>2. CASE i # Len(emitted) + 1
      <4>1. i \in 1..Len(emitted)
        BY <1>3, <3>2
      <4> QED
        BY <1>3, <1>5, <2>1, <4>1, Names
    <3> QED
      BY <3>1, <3>2
  <2>2. /\ node' = "write_question" => "answer" \in stores'
        /\ node' = "END" => cached' \/ ("answer" \in stores' /\ ("question" \in stores' \/ lost'))
    BY <1>1 DEF Written
  <2> QED
    BY <2>1, <2>2 DEF Written
<1>9. Together'
  <2>1. relay \notin {"new", "refused"} /\ ~ (relay = "ended" /\ conn = "open")
    BY <1>1 DEF Together
  <2>2. conn = "left" => relay = "ended"
    BY DEF Together
  <2>3. hasResult <=> \E i \in 1..Len(parts) : parts[i] = "text"
    BY DEF Together
  <2> QED
    BY <1>1, <2>1, <2>2, <2>3 DEF Together
<1>10. Flow' /\ Telling'
  BY <1>1, <1>2, YieldFlows DEF relayVars
<1> QED
  BY <1>4, <1>6, <1>7, <1>8, <1>9, <1>10

\* The steps that end the backend without an event.
LEMMA FailsInv ==
  ASSUME IInv, NodeRaises \/ Cancelled \/ Crash
  PROVE  IInv'
<1> USE DEF IInv
<1>1. /\ backend \in {"running", "result", "failed"} /\ backend' \in {"failed", "stopped"}
      /\ node' = node /\ retry_count' = retry_count /\ cached' = cached
      /\ emitted' = emitted /\ relay' = relay /\ buffer' = buffer
      /\ hasResult' = hasResult /\ parts' = parts
      /\ backend # "running" => stores' = stores /\ lost' = lost
  BY DEF NodeRaises, Cancelled, Crash, Stops, relayVars
<1>2. backend = "running" => \E done \in BOOLEAN : Effect(done)
  BY DEF NodeRaises, Cancelled, Crash, Stops
<1>3. \/ conn' = conn /\ wire' = wire
      \/ conn' = "lost" /\ wire' = <<>> /\ conn = "open"
  BY DEF NodeRaises, Cancelled, Crash
<1>4. /\ stores \subseteq stores' /\ stores' \subseteq {"answer", "question"}
      /\ lost' \in BOOLEAN
  BY <1>1, <1>2, WhatANodeLeaves DEF TypeOK
<1>5. TypeOK'
  <2>1. wire' \in Seq(Tokens) /\ Len(wire') <= Window
    <3>1. <<>> \in Seq(Tokens) /\ Len(<<>>) = 0 /\ 0 <= Window
      BY StreamAssumption
    <3>2. wire \in Seq(Tokens) /\ Len(wire) <= Window
      BY DEF TypeOK
    <3> QED
      BY <1>3, <3>1, <3>2
  <2>2. conn' \in {"open", "lost", "left"}
    BY <1>3 DEF TypeOK
  <2> QED
    BY <1>1, <1>4, <2>1, <2>2 DEF TypeOK
<1>6. Path'
  BY <1>1 DEF Path
<1>7. Standing'
  BY <1>1 DEF Standing
<1>8. Written'
  <2>1. node = "END" => backend # "running"
    BY Names DEF Standing
  <2> QED
    BY <1>1, <1>4, <2>1 DEF Written
<1>9. Together'
  <2>1. relay \notin {"new", "refused"} /\ ~ (relay = "ended" /\ conn = "open")
    BY <1>1 DEF Together
  <2>2. conn = "left" => relay = "ended"
    BY DEF Together
  <2>3. hasResult <=> \E i \in 1..Len(parts) : parts[i] = "text"
    BY DEF Together
  <2> QED
    BY <1>1, <1>3, <2>1, <2>2, <2>3 DEF Together
<1>10. Flow'
  BY <1>1, <1>3 DEF Flow
<1>11. Telling'
  <2>1. PICK k \in 0..Len(emitted) : ToldOf(k)
    BY DEF Telling
  <2>2. conn' = "open" => conn = "open"
    BY <1>3
  <2>3. (ToldOf(k))'
    BY <1>1, <2>1, <2>2 DEF ToldOf
  <2> QED
    BY <1>1, <2>1, <2>3 DEF Telling
<1> QED
  BY <1>5, <1>6, <1>7, <1>8, <1>9, <1>10, <1>11

-----------------------------------------------------------------------------
(* The relay.                                                              *)

LEMMA InitInv ==
  ASSUME Init
  PROVE  IInv
<1> USE DEF Init
<1>1. /\ emitted = <<>> /\ wire = <<>> /\ buffer = <<>> /\ parts = <<>>
      /\ Len(emitted) = 0 /\ Len(wire) = 0 /\ Len(buffer) = 0 /\ Len(parts) = 0
  OBVIOUS
<1>2. TypeOK
  <2>1. \A X : <<>> \in Seq(X)
    BY EmptySeq
  <2>2. node \in Stages /\ 0 \in 0..MaxRetries /\ 0 <= Window
    BY StreamAssumption DEF Stages
  <2>3. retry_count \in 0..MaxRetries /\ Len(wire) <= Window
    BY <1>1, <2>2
  <2>4. emitted \in Seq(Events) /\ wire \in Seq(Tokens) /\ buffer \in Seq(Tokens)
    BY <2>1
  <2>5. parts \in Seq(Stages \cup {"text", "error"})
    BY <2>1
  <2> QED
    BY <2>2, <2>3, <2>4, <2>5 DEF TypeOK
<1>3. Path /\ Standing
  BY <1>1 DEF Path, Standing
<1>4. Written /\ Together
  BY <1>1 DEF Written, Together
<1>5. Flow
  BY DEF Flow
<1>6. 0 \in 0..Len(emitted) /\ ToldOf(0)
  BY <1>1 DEF ToldOf
<1> QED
  BY <1>2, <1>3, <1>4, <1>5, <1>6 DEF IInv, Telling

LEMMA BeginInv ==
  ASSUME IInv, Refuse \/ Fetch
  PROVE  IInv'
<1> USE DEF IInv
<1>1. /\ relay = "new" /\ relay' \in {"reading", "ended", "refused"}
      /\ node' = node /\ retry_count' = retry_count /\ cached' = cached
      /\ stores' = stores /\ lost' = lost /\ emitted' = emitted /\ conn' = conn
      /\ wire' = wire /\ buffer' = buffer /\ hasResult' = hasResult
      /\ backend' = IF relay' = "reading" THEN "running" ELSE backend
      /\ parts' = IF relay' = "ended" THEN <<"error">> ELSE parts
  <2>1. CASE Refuse
    BY <2>1 DEF Refuse, backendVars
  <2>2. CASE Fetch
    BY <2>2 DEF Fetch
  <2> QED
    BY <2>1, <2>2
<1>2. /\ backend = "idle" /\ parts = <<>> /\ conn = "open" /\ buffer = <<>> /\ wire = <<>>
      /\ emitted = <<>> /\ node = "check_cache"
  BY <1>1 DEF Together, Standing
<1>3. /\ Len(emitted) = 0 /\ Len(parts) = 0 /\ Len(buffer) = 0
      /\ Len(<<"error">>) = 1 /\ <<"error">>[1] = "error"
  BY <1>2
<1>4. TypeOK'
  <2>1. <<"error">> \in Seq(Stages \cup {"text", "error"})
    OBVIOUS
  <2> QED
    BY <1>1, <2>1 DEF TypeOK
<1>5. Path'
  BY <1>1 DEF Path
<1>6. Standing'
  <2>1. "check_cache" \in Stages
    BY DEF Stages
  <2> QED
    BY <1>1, <1>2, <1>3, <2>1 DEF Standing
<1>7. Written'
  BY <1>1 DEF Written
<1>8. Together'
  <2>1. ~ hasResult
    BY <1>3 DEF Together
  <2>2. \A i \in 1..Len(parts') : parts'[i] # "text"
    BY <1>1, <1>3
  <2> QED
    BY <1>1, <1>2, <2>1, <2>2 DEF Together
<1>9. Flow'
  <2>1. buffer \o wire = <<>> /\ SubSeq(emitted, 1, 0) = <<>>
    BY <1>2, SubSeqEmpty
  <2>2. IsFrames(<<>>, <<>>)
    BY DEF IsFrames
  <2>3. ASSUME relay' = "reading"
        PROVE  SubSeq(emitted', Len(parts') + 1, Len(emitted')) = <<>>
    <3>1. Len(parts') + 1 = 1 /\ Len(emitted') = 0 /\ emitted' = emitted
      BY <1>1, <1>3, <2>3
    <3> QED
      BY <2>1, <3>1
  <2>4. buffer' \o wire' = <<>>
    BY <1>1, <2>1
  <2>5. ASSUME relay' = "reading"
        PROVE  IsFrames(buffer' \o wire', SubSeq(emitted', Len(parts') + 1, Len(emitted')))
    BY <2>2, <2>3, <2>4, <2>5
  <2>6. Len(buffer') < 4
    BY <1>1, <1>3
  <2> QED
    BY <2>5, <2>6 DEF Flow
<1>10. Telling'
  <2>1. 0 \in 0..Len(emitted') /\ (ToldOf(0))'
    BY <1>1, <1>3 DEF ToldOf
  <2> QED
    BY <2>1 DEF Telling
<1> QED
  BY <1>4, <1>5, <1>6, <1>7, <1>8, <1>9, <1>10

\* What a read makes of what is under way: the parts of the next q events.
LEMMA ReadTakes ==
  ASSUME IInv, Read
  PROVE  /\ relay = "reading" /\ conn = "open"
         /\ Len(parts) \in Nat /\ Len(parts) < Len(emitted)
         /\ \A i \in 1..Len(parts) : parts[i] = PartOf(emitted[i])
         /\ \E q \in 0..(Len(emitted) - Len(parts)) :
              /\ Len(parts') = Len(parts) + q
              /\ parts' \in Seq(Messages)
              /\ \A i \in 1..(Len(parts) + q) : parts'[i] = PartOf(emitted[i])
              /\ buffer' \in Seq(Tokens) /\ wire' \in Seq(Tokens)
              /\ Len(wire') <= Window /\ Len(buffer') < 4
              /\ IsFrames(buffer' \o wire',
                          SubSeq(emitted, Len(parts) + q + 1, Len(emitted)))
              /\ hasResult' <=> hasResult \/ \E i \in 1..q :
                                   emitted[Len(parts) + i] = "result"
<1> USE DEF IInv
<1>1. relay = "reading" /\ conn = "open"
  BY DEF Read
<1> DEFINE w == buffer \o wire
           p == Len(parts)
           due == SubSeq(emitted, p + 1, Len(emitted))
<1>2. PICK n \in 1..Len(wire) :
        /\ wire' = SubSeq(wire, n + 1, Len(wire))
        /\ buffer' = Split(TextRead(n)).rest
        /\ hasResult' = (hasResult \/ "result" \in Range(Split(TextRead(n)).events))
        /\ parts' = parts \o PartsOf(Split(TextRead(n)).events)
  BY DEF Read
<1>3. /\ emitted \in Seq(Events) /\ wire \in Seq(Tokens) /\ buffer \in Seq(Tokens)
      /\ parts \in Seq(Messages) /\ Len(wire) <= Window
  BY DEF TypeOK, Messages
<1>4. PICK k \in 0..Len(emitted) : ToldOf(k)
  BY DEF Telling
<1>5. k = p /\ p \in Nat /\ p <= Len(emitted)
  BY <1>1, <1>4 DEF ToldOf
<1>6. \A i \in 1..p : parts[i] = PartOf(emitted[i])
  BY <1>4, <1>5 DEF ToldOf
<1>7. IsFrames(w, due)
  BY <1>1 DEF Flow
<1>8. w \in Seq(Tokens) /\ Len(w) = Len(buffer) + Len(wire)
  BY <1>3, Joined
<1>9. /\ due \in Seq(Events) /\ Len(due) = Len(emitted) - p
      /\ \A i \in 1..(Len(emitted) - p) : due[i] = emitted[p + i]
  <2>1. p \in 0..Len(emitted)
    BY <1>3, <1>5
  <2> HIDE DEF p
  <2> QED
    BY <1>3, <2>1, Rest
<1> DEFINE m == Len(buffer) + n
<1>10. TextRead(n) = SubSeq(w, 1, m) /\ wire' = SubSeq(w, m + 1, Len(w))
  <2>1. n \in 0..Len(wire)
    BY <1>2
  <2>2. /\ buffer \o SubSeq(wire, 1, n) = SubSeq(w, 1, m)
        /\ SubSeq(wire, n + 1, Len(wire)) = SubSeq(w, m + 1, Len(w))
    BY <1>3, <2>1, ReadMore, Zenon
  <2> QED
    BY <1>2, <2>2, Zenon DEF TextRead
<1>11. m \in 1..Len(w)
  BY <1>2, <1>3, <1>8
<1>12. Len(w) = 4 * Len(due)
  BY <1>7 DEF IsFrames
<1>13. p < Len(emitted)
  BY <1>3, <1>5, <1>9, <1>11, <1>12
<1> HIDE DEF w, due, m
<1>14. PICK q \in 0..Len(due) :
         /\ 4 * q <= m /\ m < 4 * q + 4
         /\ Split(SubSeq(w, 1, m))
              = [events |-> SubSeq(due, 1, q), rest |-> SubSeq(w, 4 * q + 1, m)]
  <2>1. m \in 0..Len(w)
    BY <1>11
  <2> QED
    BY <1>7, <1>8, <1>9, <2>1, SplitFrames
<1> DEFINE events == SubSeq(due, 1, q)
<1>15. /\ buffer' = SubSeq(w, 4 * q + 1, m)
       /\ hasResult' = (hasResult \/ "result" \in Range(events))
       /\ parts' = parts \o PartsOf(events)
  <2> HIDE DEF events
  <2>1. Split(TextRead(n)) = [events |-> events, rest |-> SubSeq(w, 4 * q + 1, m)]
    BY <1>10, <1>14 DEF events
  <2>2. /\ Split(TextRead(n)).events = events
        /\ Split(TextRead(n)).rest = SubSeq(w, 4 * q + 1, m)
    <3>1. \A r, a, b : r = [events |-> a, rest |-> b] => r.events = a /\ r.rest = b
      OBVIOUS
    <3> QED
      BY <2>1, <3>1, ZenonT(40)
  <2> QED
    BY <1>2, <2>2, Zenon
<1>16. /\ Len(emitted) \in Nat /\ q \in Nat /\ q <= Len(emitted) - p /\ Len(due) \in Nat
       /\ m \in Nat /\ m <= Len(w) /\ Len(w) \in Nat
  BY <1>3, <1>5, <1>8, <1>9, <1>11
<1>17. events \in Seq(Events) /\ Len(events) = q /\ \A i \in 1..q : events[i] = emitted[p + i]
  <2>1. events \in Seq(Events) /\ Len(events) = q /\ \A i \in 1..q : events[i] = due[i]
    BY <1>9, <1>16, Part
  <2>2. \A i \in 1..q : i \in 1..(Len(emitted) - p)
    <3> HIDE DEF p
    <3> QED
      BY <1>5, <1>16
  <2>3. \A i \in 1..q : due[i] = emitted[p + i]
    BY <1>9, <2>2, Zenon
  <2> HIDE DEF events, p
  <2> QED
    BY <2>1, <2>3, Zenon
<1> HIDE DEF events
<1> DEFINE list == PartsOf(events)
<1>18. list \in Seq(Messages) /\ Len(list) = q /\ \A i \in 1..q : list[i] = PartOf(emitted[p + i])
  BY <1>17, PartsTyped
<1>19. /\ parts' \in Seq(Messages) /\ Len(parts') = p + q
       /\ \A i \in 1..(p + q) : parts'[i] = PartOf(emitted[i])
  <2> HIDE DEF list
  <2>1. parts' = parts \o list
    BY <1>15 DEF list
  <2>2. /\ parts' \in Seq(Messages) /\ Len(parts') = p + q
        /\ \A i \in 1..p : parts'[i] = parts[i]
        /\ \A i \in 1..q : parts'[p + i] = list[i]
    <3>1. \A t \in Seq(Messages) :
            /\ parts \o t \in Seq(Messages) /\ Len(parts \o t) = Len(parts) + Len(t)
            /\ \A i \in 1..Len(parts) : (parts \o t)[i] = parts[i]
            /\ \A i \in 1..Len(t) : (parts \o t)[Len(parts) + i] = t[i]
      BY <1>3, Joined
    <3> QED
      BY <1>18, <2>1, <3>1
  <2> HIDE DEF p
  <2>3. ASSUME NEW i \in 1..(p + q) PROVE parts'[i] = PartOf(emitted[i])
    <3>1. CASE i <= p
      BY <1>5, <1>6, <1>16, <2>2, <3>1
    <3>2. CASE ~ (i <= p)
      <4>1. i - p \in 1..q /\ p + (i - p) = i
        BY <1>5, <1>16, <3>2
      <4> QED
        BY <1>18, <2>2, <4>1
    <3> QED
      BY <3>1, <3>2
  <2> QED
    BY <2>2, <2>3
<1>20. /\ buffer' \in Seq(Tokens) /\ Len(buffer') = m - 4 * q
  <2>1. \A a \in Nat \ {0}, b \in Nat : a <= b + 1 /\ b <= Len(w) =>
          /\ SubSeq(w, a, b) \in Seq(Tokens)
          /\ Len(SubSeq(w, a, b)) = b + 1 - a
    BY <1>8, Part
  <2>2. 4 * q + 1 \in Nat \ {0} /\ 4 * q + 1 <= m + 1 /\ m + 1 - (4 * q + 1) = m - 4 * q
    BY <1>14, <1>16
  <2>3. SubSeq(w, 4 * q + 1, m) \in Seq(Tokens)
    BY <1>16, <2>1, <2>2
  <2>4. \A a \in Nat \ {0} : a <= m + 1 => Len(SubSeq(w, a, m)) = m + 1 - a
    BY <1>16, <2>1
  <2>5. Len(SubSeq(w, 4 * q + 1, m)) = m + 1 - (4 * q + 1)
    BY <2>2, <2>4
  <2> QED
    BY <1>15, <2>2, <2>3, <2>5
<1>21. /\ wire' \in Seq(Tokens) /\ Len(wire') = Len(wire) - n
  <2>1. /\ n + 1 \in Nat \ {0} /\ n + 1 <= Len(wire) + 1 /\ Len(wire) \in Nat
        /\ Len(wire) <= Len(wire) /\ Len(wire) + 1 - (n + 1) = Len(wire) - n
    BY <1>2, <1>3
  <2> QED
    BY <1>2, <1>3, <2>1, Part
<1>22. buffer' \o wire' = SubSeq(w, 4 * q + 1, Len(w))
  <2>1. 4 * q + 1 \in 1..Len(w) + 1 /\ m \in (4 * q + 1) - 1..Len(w) /\ Len(w) \in m..Len(w)
    BY <1>14, <1>16
  <2>2. SubSeq(w, 4 * q + 1, m) \o SubSeq(w, m + 1, Len(w)) = SubSeq(w, 4 * q + 1, Len(w))
    BY <1>8, <2>1, ConcatAdjacentSubSeq, Zenon
  <2> QED
    BY <1>10, <1>15, <2>2
<1>23. SubSeq(due, q + 1, Len(due)) = SubSeq(emitted, p + q + 1, Len(emitted))
  <2> DEFINE left == SubSeq(due, q + 1, Len(due))
             now == SubSeq(emitted, p + q + 1, Len(emitted))
  <2> HIDE DEF p
  <2>1. q \in 0..Len(due) /\ p + q \in 0..Len(emitted) /\ Len(emitted) - (p + q) = Len(due) - q
    BY <1>5, <1>9, <1>16
  <2>2. /\ left \in Seq(Events) /\ Len(left) = Len(due) - q
        /\ \A i \in 1..(Len(due) - q) : left[i] = due[q + i]
    BY <1>9, <2>1, Rest
  <2>3. /\ now \in Seq(Events) /\ Len(now) = Len(emitted) - (p + q)
        /\ \A i \in 1..(Len(emitted) - (p + q)) : now[i] = emitted[(p + q) + i]
    BY <1>3, <2>1, Rest
  <2> HIDE DEF left, now
  <2>4. ASSUME NEW i \in 1..(Len(due) - q) PROVE left[i] = now[i]
    <3>1. q + i \in 1..(Len(emitted) - p) /\ p + (q + i) = (p + q) + i
      BY <1>5, <1>9, <1>16
    <3> QED
      BY <1>9, <2>1, <2>2, <2>3, <3>1
  <2>5. left = now
    BY <2>1, <2>2, <2>3, <2>4, SeqEqual
  <2> QED
    BY <2>5 DEF left, now
<1>24. IsFrames(buffer' \o wire', SubSeq(emitted, p + q + 1, Len(emitted)))
  BY <1>7, <1>8, <1>9, <1>14, <1>22, <1>23, FramesLeft
<1>25. hasResult' <=> hasResult \/ \E i \in 1..q : emitted[p + i] = "result"
  <2>1. Range(events) = {events[i] : i \in 1..q}
    BY <1>17 DEF Range
  <2>2. "result" \in Range(events) <=> \E i \in 1..q : emitted[p + i] = "result"
    BY <1>17, <2>1
  <2> QED
    BY <1>15, <2>2
<1>26. q \in 0..(Len(emitted) - p) /\ Len(wire') <= Window /\ Len(buffer') < 4
  <2>1. n \in Nat /\ Len(wire) \in Nat /\ Window \in Nat
    BY <1>2, <1>3, StreamAssumption
  <2> HIDE DEF p
  <2> QED
    BY <1>3, <1>5, <1>14, <1>16, <1>20, <1>21, <2>1
<1> QED
  BY <1>1, <1>5, <1>6, <1>13, <1>19, <1>20, <1>21, <1>24, <1>25, <1>26

LEMMA ReadInv ==
  ASSUME IInv, Read
  PROVE  IInv'
<1> USE DEF IInv
<1>1. /\ backend' = backend /\ node' = node /\ retry_count' = retry_count
      /\ cached' = cached /\ stores' = stores /\ lost' = lost /\ emitted' = emitted
      /\ conn' = conn /\ relay' = relay
      /\ hasResult' \in BOOLEAN
  <2>1. PICK n \in 1..Len(wire) :
          hasResult' = (hasResult \/ "result" \in Range(Split(TextRead(n)).events))
    BY DEF Read
  <2>2. hasResult' \in BOOLEAN
    BY <2>1, Zenon DEF TypeOK
  <2> QED
    BY <2>2 DEF Read, backendVars
<1> DEFINE p == Len(parts)
<1>2. relay = "reading" /\ conn = "open"
  BY ReadTakes
<1>3. p \in Nat /\ p < Len(emitted) /\ \A i \in 1..p : parts[i] = PartOf(emitted[i])
  BY ReadTakes
<1>4. PICK q \in 0..(Len(emitted) - p) :
        /\ Len(parts') = p + q
        /\ parts' \in Seq(Messages)
        /\ \A i \in 1..(p + q) : parts'[i] = PartOf(emitted[i])
        /\ buffer' \in Seq(Tokens) /\ wire' \in Seq(Tokens)
        /\ Len(wire') <= Window /\ Len(buffer') < 4
        /\ IsFrames(buffer' \o wire', SubSeq(emitted, p + q + 1, Len(emitted)))
        /\ hasResult' <=> hasResult \/ \E i \in 1..q : emitted[p + i] = "result"
  BY ReadTakes, Zenon
<1>5. emitted \in Seq(Events) /\ Len(emitted) \in Nat
  BY DEF TypeOK
<1>6. TypeOK'
  BY <1>1, <1>4 DEF TypeOK, Messages
<1>7. Path'
  BY <1>1 DEF Path
<1>8. Standing'
  BY <1>1 DEF Standing
<1>9. Written'
  BY <1>1 DEF Written
<1>10. Together'
  <2>1. hasResult <=> \E i \in 1..p : parts[i] = "text"
    BY DEF Together
  <2> HIDE DEF p
  <2>2. hasResult <=> \E i \in 1..p : emitted[i] = "result"
    <3>1. \A i \in 1..p : emitted[i] \in Events
      BY <1>3, <1>5
    <3>2. \A i \in 1..p : parts[i] = "text" <=> emitted[i] = "result"
      BY <1>3, <3>1, PartOfEvent
    <3> QED
      BY <2>1, <3>2
  <2>3. hasResult' <=> \E i \in 1..(p + q) : emitted[i] = "result"
    <3>1. ASSUME hasResult' PROVE \E i \in 1..(p + q) : emitted[i] = "result"
      <4>1. CASE hasResult
        <5>1. PICK i \in 1..p : emitted[i] = "result"
          BY <2>2, <4>1
        <5>2. i \in 1..(p + q)
          BY <1>3, <1>4
        <5> QED
          BY <5>1, <5>2
      <4>2. CASE \E i \in 1..q : emitted[p + i] = "result"
        <5>1. PICK i \in 1..q : emitted[p + i] = "result"
          BY <4>2
        <5>2. p + i \in 1..(p + q)
          BY <1>3, <1>4
        <5> QED
          BY <5>1, <5>2
      <4> QED
        BY <1>4, <3>1, <4>1, <4>2
    <3>2. ASSUME NEW i \in 1..(p + q), emitted[i] = "result" PROVE hasResult'
      <4>1. CASE i <= p
        <5>1. i \in 1..p
          BY <1>3, <1>4, <4>1
        <5> QED
          BY <1>4, <2>2, <3>2, <5>1
      <4>2. CASE ~ (i <= p)
        <5>1. i - p \in 1..q /\ p + (i - p) = i
          BY <1>3, <1>4, <4>2
        <5> QED
          BY <1>4, <3>2, <5>1
      <4> QED
        BY <4>1, <4>2
    <3> QED
      BY <3>1, <3>2
  <2>4. \A i \in 1..(p + q) : emitted[i] \in Events
    BY <1>3, <1>4, <1>5
  <2>5. \A i \in 1..(p + q) : parts'[i] = "text" <=> emitted[i] = "result"
    BY <1>4, <2>4, PartOfEvent
  <2>6. hasResult' <=> \E i \in 1..Len(parts') : parts'[i] = "text"
    BY <1>4, <2>3, <2>5
  <2> QED
    BY <1>1, <1>2, <2>6 DEF Together
<1>11. Flow'
  BY <1>1, <1>4 DEF Flow
<1>12. Telling'
  <2>1. PICK k \in 0..Len(emitted) : k = p + q
    BY <1>3, <1>4, <1>5
  <2>2. \A i \in 1..k : parts'[i] = PartOf(emitted'[i])
    <3> HIDE DEF p
    <3> QED
      BY <1>1, <1>4, <2>1
  <2>3. Len(parts') = k
    BY <1>4, <2>1
  <2>4. (ToldOf(k))'
    BY <1>1, <1>2, <2>2, <2>3 DEF ToldOf
  <2> QED
    BY <1>1, <2>4 DEF Telling
<1> QED
  BY <1>6, <1>7, <1>8, <1>9, <1>10, <1>11, <1>12

\* A list and an error after it.
LEMMA ErrorAfter ==
  ASSUME NEW list \in Seq(Messages)
  PROVE  LET longer == Append(list, "error")
         IN /\ longer \in Seq(Messages) /\ Len(list) \in Nat
            /\ Len(longer) = Len(list) + 1
            /\ longer[Len(list) + 1] = "error"
            /\ \A i \in 1..Len(list) : longer[i] = list[i]
            /\ (\E i \in 1..Len(longer) : longer[i] = "text")
                 <=> \E i \in 1..Len(list) : list[i] = "text"
<1> DEFINE longer == Append(list, "error")
<1>1. "error" \in Messages
  BY DEF Messages
<1>2. /\ longer \in Seq(Messages) /\ Len(list) \in Nat
      /\ Len(longer) = Len(list) + 1
      /\ longer[Len(list) + 1] = "error"
      /\ \A i \in 1..Len(list) : longer[i] = list[i]
  BY <1>1, AppendProperties
<1> HIDE DEF longer
<1>3. \A i : i \in 1..Len(longer) <=> i \in 1..Len(list) \/ i = Len(list) + 1
  BY <1>2
<1>4. (\E i \in 1..Len(longer) : longer[i] = "text") <=> \E i \in 1..Len(list) : list[i] = "text"
  BY <1>2, <1>3
<1> QED
  BY <1>2, <1>4 DEF longer

\* The steps that end the relay, or its connection.
LEMMA EndInv ==
  ASSUME IInv, Done \/ ReadRaises \/ Break \/ Leave
  PROVE  IInv'
<1> USE DEF IInv
<1>1. /\ relay = "reading"
      /\ backend' = backend /\ node' = node /\ retry_count' = retry_count
      /\ cached' = cached /\ stores' = stores /\ lost' = lost /\ emitted' = emitted
      /\ buffer' = buffer /\ hasResult' = hasResult
  BY DEF Done, ReadRaises, Break, Leave, backendVars, relayVars
<1>2. /\ \/ conn' = conn /\ wire' = wire
         \/ conn' \in {"lost", "left"} /\ wire' = <<>>
      /\ relay' = "ended" \/ (relay' = "reading" /\ conn' = "lost")
      /\ conn' = "left" => relay' = "ended"
      /\ conn' = "open" => backend = "ended" /\ wire = <<>> /\ conn = "open"
      /\ parts' = parts \/ (relay' = "ended" /\ parts' = Append(parts, "error"))
  <2>1. conn # "left"
    BY <1>1 DEF Together
  <2>2. CASE Done
    BY <2>2 DEF Done
  <2>3. CASE ReadRaises
    BY <2>3 DEF ReadRaises
  <2>4. CASE Break
    BY <2>4 DEF Break, relayVars
  <2>5. CASE Leave
    BY <2>5 DEF Leave
  <2> QED
    BY <2>2, <2>3, <2>4, <2>5
<1>3. /\ emitted \in Seq(Events) /\ wire \in Seq(Tokens) /\ buffer \in Seq(Tokens)
      /\ parts \in Seq(Messages) /\ Len(emitted) \in Nat
  BY DEF TypeOK, Messages
<1>4. parts' \in Seq(Messages)
  BY <1>2, <1>3, ErrorAfter
<1>5. TypeOK'
  <2>1. wire' \in Seq(Tokens) /\ Len(wire') <= Window
    <3>1. <<>> \in Seq(Tokens) /\ Len(<<>>) = 0 /\ 0 <= Window
      BY StreamAssumption
    <3>2. Len(wire) <= Window
      BY DEF TypeOK
    <3> QED
      BY <1>2, <1>3, <3>1, <3>2
  <2>2. /\ conn' \in {"open", "lost", "left"}
        /\ relay' \in {"new", "reading", "ended", "refused"}
    BY <1>2 DEF TypeOK
  <2> QED
    BY <1>1, <1>4, <2>1, <2>2 DEF TypeOK, Messages
<1>6. Path'
  BY <1>1 DEF Path
<1>7. Standing'
  BY <1>1 DEF Standing
<1>8. Written'
  BY <1>1 DEF Written
<1>9. Together'
  <2>1. hasResult <=> \E i \in 1..Len(parts) : parts[i] = "text"
    BY DEF Together
  <2>2. (\E i \in 1..Len(parts') : parts'[i] = "text") <=> \E i \in 1..Len(parts) : parts[i] = "text"
    <3>1. CASE parts' = parts
      BY <3>1
    <3>2. CASE parts' = Append(parts, "error")
      BY <1>3, <3>2, ErrorAfter
    <3> QED
      BY <1>2, <3>1, <3>2
  <2>3. hasResult' <=> \E i \in 1..Len(parts') : parts'[i] = "text"
    BY <1>1, <2>1, <2>2
  <2>4. relay' \notin {"new", "refused"}
    BY <1>2
  <2>5. relay' = "ended" /\ conn' = "open" => backend' \in {"idle", "ended"}
    BY <1>1, <1>2
  <2>6. conn' = "left" => relay' = "ended"
    BY <1>2
  <2> QED
    BY <2>3, <2>4, <2>5, <2>6 DEF Together
<1>10. Flow'
  BY <1>2 DEF Flow
<1>11. Telling'
  <2>1. PICK k \in 0..Len(emitted) : ToldOf(k)
    BY DEF Telling
  <2>2. Len(parts) = k /\ k \in Nat /\ \A i \in 1..k : parts[i] = PartOf(emitted[i])
    BY <1>1, <2>1 DEF ToldOf
  <2>3. conn' = "open" => k = Len(emitted)
    <3> SUFFICES ASSUME conn' = "open" PROVE k = Len(emitted)
      OBVIOUS
    <3> DEFINE due == SubSeq(emitted, Len(parts) + 1, Len(emitted))
    <3>1. Len(buffer) < 4 /\ IsFrames(buffer \o wire, due)
      BY <1>1, <1>2 DEF Flow
    <3>2. buffer \o wire = buffer
      BY <1>2, <1>3, ConcatEmptySeq
    <3>3. Len(buffer) = 4 * Len(due)
      <4> HIDE DEF due
      <4> QED
        BY <3>1, <3>2 DEF IsFrames
    <3>4. Len(due) = Len(emitted) - k
      BY <1>3, <2>1, <2>2, Rest
    <3> HIDE DEF due
    <3> QED
      BY <1>3, <2>1, <2>2, <3>1, <3>3, <3>4
  <2>4. \A i \in 1..k : parts'[i] = PartOf(emitted'[i])
    BY <1>1, <1>2, <1>3, <2>2, ErrorAfter
  <2>5. \/ Len(parts') = k
        \/ relay' = "ended" /\ Len(parts') = k + 1 /\ parts'[k + 1] = "error"
    BY <1>2, <1>3, <2>2, ErrorAfter
  <2>6. (ToldOf(k))'
    BY <1>1, <2>3, <2>4, <2>5 DEF ToldOf
  <2> QED
    BY <1>1, <2>6 DEF Telling
<1> QED
  BY <1>5, <1>6, <1>7, <1>8, <1>9, <1>10, <1>11

-----------------------------------------------------------------------------
(* The invariant is one, and what follows from it.                         *)

LEMMA StutterInv ==
  ASSUME IInv, UNCHANGED vars
  PROVE  IInv'
<1> USE DEF IInv, vars, backendVars, relayVars
<1>1. TypeOK' /\ Path' /\ Standing'
  BY DEF TypeOK, Path, Standing
<1>2. Written' /\ Together'
  BY DEF Written, Together
<1>3. Flow' /\ Telling'
  BY NothingFlows
<1> QED
  BY <1>1, <1>2, <1>3

LEMMA Inductive == Spec => []IInv
<1>1. Init => IInv
  BY InitInv
<1>2. IInv /\ [Next]_vars => IInv'
  <2> SUFFICES ASSUME IInv, [Next]_vars PROVE IInv'
    OBVIOUS
  <2>1. CASE NodeDone
    BY <2>1, NodeDoneInv
  <2>2. CASE YieldResult \/ YieldError
    BY <2>2, YieldLastInv
  <2>3. CASE NodeRaises \/ Cancelled \/ Crash
    BY <2>3, FailsInv
  <2>4. CASE Refuse \/ Fetch
    BY <2>4, BeginInv
  <2>5. CASE Read
    BY <2>5, ReadInv
  <2>6. CASE Done \/ ReadRaises \/ Break \/ Leave
    BY <2>6, EndInv
  <2>7. CASE Over \/ UNCHANGED vars
    BY <2>7, StutterInv DEF Over
  <2> QED
    BY <2>1, <2>2, <2>3, <2>4, <2>5, <2>6, <2>7 DEF Next, Backend, Relay
<1> QED
  BY <1>1, <1>2, PTL DEF Spec

\* The values of the variables: no retry beyond the budget, no more tokens
\* under way than there is room for, and nothing in the buffer but tokens.
THEOREM TypeCorrect == Spec => []TypeOK
<1>1. IInv => TypeOK
  BY DEF IInv
<1> QED
  BY <1>1, Inductive, PTL

LEMMA FaithfulByInv == IInv => RelayIsFaithful
<1> SUFFICES ASSUME IInv PROVE RelayIsFaithful
  OBVIOUS
<1>1. emitted \in Seq(Events) /\ parts \in Seq(Messages) /\ Len(emitted) \in Nat
  BY DEF IInv, TypeOK, Messages
<1>2. PICK k \in 0..Len(emitted) : ToldOf(k)
  BY DEF IInv, Telling
<1> DEFINE told == SubSeq(Said, 1, k)
<1>3. /\ Said \in Seq(Messages) /\ Len(Said) = Len(emitted)
      /\ \A i \in 1..Len(emitted) : Said[i] = PartOf(emitted[i])
  BY <1>1, PartsTyped DEF Said
<1>4. k \in 0..Len(Said) /\ k \in Nat
  BY <1>1, <1>3
<1>5. /\ told \in Seq(Messages) /\ Len(told) = k
      /\ \A i \in 1..k : told[i] = parts[i]
  <2>1. /\ told \in Seq(Messages) /\ Len(told) = k
        /\ \A i \in 1..k : told[i] = Said[i]
    BY <1>3, <1>4, Part
  <2> HIDE DEF told
  <2> QED
    BY <1>1, <1>2, <1>3, <1>4, <2>1 DEF ToldOf
<1>6. told \in Prefixes(Said)
  BY <1>4 DEF Prefixes
<1>7. relay = "ended" /\ conn = "open" => told = Said
  <2>1. k = Len(emitted) => told = Said
    BY <1>3, SubSeqFull
  <2> QED
    BY <1>2, <2>1 DEF ToldOf
<1> HIDE DEF told
<1>8. CASE Len(parts) = k
  <2>1. parts = told
    BY <1>1, <1>5, <1>8, SeqEqual
  <2> QED
    BY <1>6, <1>7, <2>1 DEF RelayIsFaithful
<1>9. CASE Len(parts) # k
  <2>1. relay = "ended" /\ Len(parts) = k + 1 /\ parts[k + 1] = "error"
    BY <1>2, <1>9 DEF ToldOf
  <2> DEFINE longer == Append(told, "error")
  <2>2. /\ longer \in Seq(Messages) /\ Len(longer) = k + 1 /\ longer[k + 1] = "error"
        /\ \A i \in 1..k : longer[i] = told[i]
    BY <1>5, ErrorAfter
  <2> HIDE DEF longer
  <2>3. ASSUME NEW i \in 1..(k + 1) PROVE parts[i] = longer[i]
    <3>1. CASE i = k + 1
      BY <2>1, <2>2, <3>1
    <3>2. CASE i # k + 1
      <4>1. i \in 1..k
        BY <1>4, <3>2
      <4> QED
        BY <1>5, <2>2, <4>1
    <3> QED
      BY <3>1, <3>2
  <2>4. parts = longer
    BY <1>1, <2>1, <2>2, <2>3, SeqEqual
  <2> QED
    BY <1>6, <1>7, <2>1, <2>4 DEF RelayIsFaithful, longer
<1> QED
  BY <1>8, <1>9

\* The relay tells the browser what the backend said, once and in order,
\* however the frames are cut on their way and whenever the connection, the
\* backend or the browser goes away.
THEOREM Faithful == Spec => []RelayIsFaithful
BY Inductive, FaithfulByInv, PTL

LEMMA StoredByInv == IInv => ShownIsStored
<1> SUFFICES ASSUME IInv, "text" \in Range(parts), ~cached
             PROVE  "answer" \in stores /\ ("question" \in stores \/ lost)
  BY DEF ShownIsStored
<1>1. emitted \in Seq(Events) /\ parts \in Seq(Messages) /\ Len(emitted) \in Nat
  BY DEF IInv, TypeOK, Messages
<1>2. PICK k \in 0..Len(emitted) : ToldOf(k)
  BY DEF IInv, Telling
<1>3. PICK i \in 1..Len(parts) : parts[i] = "text"
  BY <1>1 DEF Range
<1>4. i \in 1..k
  BY <1>1, <1>2, <1>3 DEF ToldOf
<1>5. emitted[i] \in Events /\ PartOf(emitted[i]) = "text" /\ i \in 1..Len(emitted)
  BY <1>1, <1>2, <1>3, <1>4 DEF ToldOf
<1>6. emitted[i] = "result"
  BY <1>5, PartOfEvent
<1> QED
  BY <1>5, <1>6 DEF IInv, Written

\* An answer that the browser shows and that was not replayed is in the query
\* cache, and it is in the history or its write failed.
THEOREM Stored == Spec => []ShownIsStored
BY Inductive, StoredByInv, PTL

-----------------------------------------------------------------------------
(* The stream as StreamContract.                                           *)

\* The stages among the parts lead them, and are the first that were yielded.
LEMMA StagesLead ==
  ASSUME IInv
  PROVE  \E j \in 0..Len(emitted) :
           /\ j <= Len(parts)
           /\ \A i \in 1..Len(parts) : parts[i] \in Stages <=> i <= j
           /\ \A i \in 1..j : parts[i] = emitted[i]
           /\ \A i \in 1..Len(parts) : parts[i] = "text" =>
                i = j + 1 /\ i <= Len(emitted) /\ emitted[i] = "result"
<1>1. emitted \in Seq(Events) /\ parts \in Seq(Messages) /\ Len(emitted) \in Nat
  BY DEF IInv, TypeOK, Messages
<1>2. PICK k \in 0..Len(emitted) : ToldOf(k)
  BY DEF IInv, Telling
<1>3. k \in Nat /\ k <= Len(emitted) /\ \A i \in 1..k : emitted[i] \in Events
  BY <1>1, <1>2
<1>4. /\ \A i \in 1..k : parts[i] = PartOf(emitted[i])
      /\ Len(parts) = k \/ (Len(parts) = k + 1 /\ parts[k + 1] = "error")
  BY <1>2 DEF ToldOf
<1>5. \A i \in 1..k : /\ parts[i] \in Stages <=> emitted[i] \in Stages
                      /\ parts[i] = "text" <=> emitted[i] = "result"
                      /\ emitted[i] \in Stages => parts[i] = emitted[i]
  BY <1>3, <1>4, PartOfEvent
<1>6. \A i \in 1..k : i < k => emitted[i] \in Stages
  BY <1>1, <1>3 DEF IInv, Path
<1>7. CASE k > 0 /\ emitted[k] \notin Stages
  <2> DEFINE j == k - 1
  <2>1. j \in 0..Len(emitted) /\ j <= Len(parts) /\ j < k /\ j + 1 = k
    BY <1>3, <1>4, <1>7
  <2>2. \A i \in 1..j : parts[i] = emitted[i]
    BY <1>3, <1>5, <1>6
  <2>3. ASSUME NEW i \in 1..Len(parts)
        PROVE  /\ parts[i] \in Stages <=> i <= j
               /\ parts[i] = "text" => i = j + 1 /\ i <= Len(emitted) /\ emitted[i] = "result"
    <3>1. i <= k \/ (i = k + 1 /\ parts[i] = "error")
      BY <1>3, <1>4
    <3>2. CASE i <= k
      <4>1. i \in 1..k
        BY <1>3, <3>2
      <4>2. parts[i] \in Stages <=> i < k
        BY <1>3, <1>5, <1>6, <1>7, <4>1
      <4>3. i < k => parts[i] # "text"
        BY <4>2, Names
      <4> QED
        BY <1>3, <1>5, <2>1, <4>1, <4>2, <4>3
    <3>3. CASE i = k + 1 /\ parts[i] = "error"
      BY <1>3, <3>3, Names
    <3> QED
      BY <3>1, <3>2, <3>3
  <2> QED
    BY <2>1, <2>2, <2>3
<1>8. CASE ~ (k > 0 /\ emitted[k] \notin Stages)
  <2>1. \A i \in 1..k : emitted[i] \in Stages
    BY <1>3, <1>6, <1>8
  <2>2. k <= Len(parts)
    BY <1>3, <1>4
  <2>3. ASSUME NEW i \in 1..Len(parts)
        PROVE  (parts[i] \in Stages <=> i <= k) /\ parts[i] # "text"
    <3>1. i <= k \/ (i = k + 1 /\ parts[i] = "error")
      BY <1>3, <1>4
    <3>2. CASE i <= k
      <4>1. i \in 1..k
        BY <1>3, <3>2
      <4> QED
        BY <1>5, <2>1, <3>2, <4>1, Names
    <3>3. CASE i = k + 1 /\ parts[i] = "error"
      BY <1>3, <3>3, Names
    <3> QED
      BY <3>1, <3>2, <3>3
  <2> QED
    BY <1>3, <1>5, <2>1, <2>2, <2>3
<1> QED
  BY <1>7, <1>8

LEMMA SameEdges == \A stage : Browser!Successors(stage) = Successors(stage)
BY DEF Browser!Successors, Successors

\* What the browser shows is in the order of the graph, and an answer comes
\* after its last stage.
LEMMA InvShows ==
  IInv => /\ Browser!Ordered(StagesIn(parts))
          /\ "text" \in Range(parts) => Browser!Complete(StagesIn(parts))
<1> SUFFICES ASSUME IInv
             PROVE  /\ Browser!Ordered(StagesIn(parts))
                    /\ "text" \in Range(parts) => Browser!Complete(StagesIn(parts))
  OBVIOUS
<1>1. emitted \in Seq(Events) /\ parts \in Seq(Messages) /\ Len(emitted) \in Nat
  BY DEF IInv, TypeOK, Messages
<1>2. PICK j \in 0..Len(emitted) :
        /\ j <= Len(parts)
        /\ \A i \in 1..Len(parts) : parts[i] \in Stages <=> i <= j
        /\ \A i \in 1..j : parts[i] = emitted[i]
        /\ \A i \in 1..Len(parts) : parts[i] = "text" =>
             i = j + 1 /\ i <= Len(emitted) /\ emitted[i] = "result"
  BY StagesLead
<1> DEFINE s == StagesIn(parts)
<1>3. j \in Nat /\ j \in 0..Len(parts) /\ j <= Len(emitted)
  BY <1>1, <1>2
<1>4. s = SubSeq(parts, 1, j)
  BY <1>1, <1>2, <1>3, LeadingStages
<1> HIDE DEF s
<1>5. s \in Seq(Messages) /\ Len(s) = j /\ \A i \in 1..j : s[i] = emitted[i]
  <2>1. Len(parts) \in Nat /\ j <= Len(parts)
    BY <1>1, <1>2
  <2>2. s \in Seq(Messages) /\ Len(s) = j /\ \A i \in 1..j : s[i] = parts[i]
    BY <1>1, <1>3, <1>4, <2>1, Part
  <2> QED
    BY <1>2, <2>2
<1>6. \A i \in 1..j : emitted[i] \in Stages
  BY <1>2, <1>3, <1>1
<1>7. Browser!Ordered(s)
  <2>1. s # <<>> => Head(s) = "check_cache"
    <3> SUFFICES ASSUME s # <<>> PROVE Head(s) = "check_cache"
      OBVIOUS
    <3>1. j > 0 /\ 1 \in 1..j /\ Head(s) = s[1]
      BY <1>3, <1>5
    <3>2. emitted[1] \in {"check_cache", "error"}
      BY <1>1, <1>3, <3>1 DEF IInv, Path
    <3> QED
      BY <1>5, <1>6, <3>1, <3>2, Names
  <2>2. ASSUME NEW i \in 2..Len(s) PROVE s[i] \in Browser!Successors(s[i - 1])
    <3>1. i \in 2..Len(emitted) /\ i \in 1..j /\ i - 1 \in 1..j
      BY <1>1, <1>3, <1>5
    <3>2. emitted[i] \in Successors(emitted[i - 1])
      BY <1>6, <3>1 DEF IInv, Path
    <3> QED
      BY <1>5, <3>1, <3>2, SameEdges
  <2> QED
    BY <2>1, <2>2 DEF Browser!Ordered
<1>8. ASSUME "text" \in Range(parts) PROVE Browser!Complete(s)
  <2>1. PICK i \in 1..Len(parts) : parts[i] = "text"
    BY <1>1, <1>8 DEF Range
  <2>2. i = j + 1 /\ i <= Len(emitted) /\ emitted[i] = "result"
    BY <1>2, <2>1
  <2>3. emitted[1] # "result"
    BY <1>1, <1>3, <2>2 DEF IInv, Path
  <2>4. i \in 2..Len(emitted) /\ i - 1 = j /\ j \in 1..j
    BY <1>1, <1>3, <2>2, <2>3
  <2>5. "END" \in Successors(emitted[i - 1])
    BY <2>2, <2>4 DEF IInv, Path
  <2>6. s # <<>> /\ s[Len(s)] = emitted[i - 1]
    BY <1>5, <2>4
  <2> QED
    BY <2>5, <2>6, SameEdges DEF Browser!Complete, Browser!Last, Last
<1> QED
  BY <1>7, <1>8 DEF s

\* An error at the end is no stage.
LEMMA ErrorIsNoStage ==
  ASSUME IInv
  PROVE  StagesIn(Append(parts, "error")) = StagesIn(parts)
<1>1. parts \in Seq(Messages) /\ Len(parts) \in Nat
  BY DEF IInv, TypeOK, Messages
<1>2. PICK j \in 0..Len(emitted) :
        /\ j <= Len(parts)
        /\ \A i \in 1..Len(parts) : parts[i] \in Stages <=> i <= j
  BY StagesLead
<1>3. j \in Nat /\ j \in 0..Len(parts)
  BY <1>1, <1>2
<1>4. StagesIn(parts) = SubSeq(parts, 1, j)
  BY <1>1, <1>2, <1>3, LeadingStages
<1> DEFINE longer == Append(parts, "error")
<1>5. /\ longer \in Seq(Messages) /\ Len(longer) = Len(parts) + 1
      /\ longer[Len(parts) + 1] = "error"
      /\ \A i \in 1..Len(parts) : longer[i] = parts[i]
  BY <1>1, ErrorAfter
<1> HIDE DEF longer
<1>6. j \in 0..Len(longer)
  BY <1>1, <1>3, <1>5
<1>7. \A i \in 1..Len(longer) : longer[i] \in Stages <=> i <= j
  <2> SUFFICES ASSUME NEW i \in 1..Len(longer) PROVE longer[i] \in Stages <=> i <= j
    OBVIOUS
  <2>1. CASE i = Len(parts) + 1
    BY <1>1, <1>3, <1>5, <2>1, Names
  <2>2. CASE i # Len(parts) + 1
    <3>1. i \in 1..Len(parts)
      BY <1>1, <1>5, <2>2
    <3> QED
      BY <1>2, <1>5, <3>1
  <2> QED
    BY <2>1, <2>2
<1>8. StagesIn(longer) = SubSeq(longer, 1, j)
  BY <1>5, <1>6, <1>7, LeadingStages
<1>9. SubSeq(longer, 1, j) = SubSeq(parts, 1, j)
  <2>1. /\ SubSeq(longer, 1, j) \in Seq(Messages) /\ Len(SubSeq(longer, 1, j)) = j
        /\ \A i \in 1..j : SubSeq(longer, 1, j)[i] = longer[i]
    BY <1>3, <1>5, <1>6, Part
  <2>2. /\ SubSeq(parts, 1, j) \in Seq(Messages) /\ Len(SubSeq(parts, 1, j)) = j
        /\ \A i \in 1..j : SubSeq(parts, 1, j)[i] = parts[i]
    BY <1>1, <1>3, Part
  <2>3. \A i \in 1..j : SubSeq(longer, 1, j)[i] = SubSeq(parts, 1, j)[i]
    BY <1>1, <1>3, <1>5, <2>1, <2>2
  <2> QED
    BY <2>1, <2>2, <2>3, SeqEqual
<1> QED
  BY <1>4, <1>8, <1>9 DEF longer

\* What is shown is the parts up to the last stage.
ShownLeads ==
  \E j \in 0..Len(parts) :
    /\ StagesIn(parts) = SubSeq(parts, 1, j)
    /\ \A i \in 1..Len(parts) : parts[i] \in Stages <=> i <= j

LEMMA InvLeads == IInv => ShownLeads
<1> SUFFICES ASSUME IInv PROVE ShownLeads
  OBVIOUS
<1>1. parts \in Seq(Messages) /\ Len(parts) \in Nat
  BY DEF IInv, TypeOK, Messages
<1>2. PICK j \in 0..Len(emitted) :
        j <= Len(parts) /\ \A i \in 1..Len(parts) : parts[i] \in Stages <=> i <= j
  BY StagesLead
<1>3. j \in 0..Len(parts)
  BY <1>1, <1>2
<1>4. StagesIn(parts) = SubSeq(parts, 1, j)
  BY <1>1, <1>2, <1>3, LeadingStages
<1> QED
  BY <1>2, <1>3, <1>4 DEF ShownLeads

LEMMA ContractInit == Init => Browser!Init
<1> SUFFICES ASSUME Init PROVE Browser!Init
  OBVIOUS
<1>1. parts = <<>> /\ relay = "new" /\ conn = "open"
  BY DEF Init
<1>2. parts \in Seq(Messages) /\ Len(parts) = 0
  BY <1>1
<1>3. StagesIn(parts) = SubSeq(parts, 1, 0)
  <2>1. 0 \in 0..Len(parts) /\ \A i \in 1..Len(parts) : parts[i] \in Stages <=> i <= 0
    BY <1>2
  <2> QED
    BY <1>2, <2>1, LeadingStages
<1>4. StagesIn(parts) = <<>>
  BY <1>3, SubSeqEmpty
<1>5. Range(parts) = {}
  BY <1>2 DEF Range
<1>6. Outcome = "none"
  BY <1>1, <1>5 DEF Outcome
<1> QED
  BY <1>4, <1>6 DEF Browser!Init

\* What the browser may see of a step: that the stages shown so far stay, and
\* that nothing follows an outcome.
LEMMA ContractStep ==
  ASSUME IInv, IInv', [Next]_vars, ShownLeads, ShownLeads',
         Browser!Ordered(StagesIn(parts')),
         "text" \in Range(parts') => Browser!Complete(StagesIn(parts'))
  PROVE  [Browser!Next]_Browser!vars
<1> DEFINE before == StagesIn(parts)
           after == StagesIn(parts')
<1>1. /\ parts \in Seq(Messages) /\ parts' \in Seq(Messages)
      /\ emitted \in Seq(Events) /\ Len(emitted) \in Nat
      /\ Len(parts) \in Nat /\ Len(parts') \in Nat
  <2>1. parts \in Seq(Messages) /\ emitted \in Seq(Events)
    BY DEF IInv, TypeOK, Messages
  <2>2. parts' \in Seq(Messages)
    BY DEF IInv, TypeOK, Messages
  <2> QED
    BY <2>1, <2>2
<1>2. Outcome' \in {"answer", "error", "left", "none"}
  BY DEF Outcome
<1>3. Outcome' = "answer" => Browser!Complete(after)
  <2>1. Outcome' = "answer" => "text" \in Range(parts')
    BY DEF Outcome
  <2> QED
    BY <2>1
<1>4. \A s \in Seq(Messages) : IsPrefix(s, s)
  BY DEF IsPrefix
<1>5. before \in Seq(Messages)
  <2>1. PICK j \in 0..Len(parts) : before = SubSeq(parts, 1, j)
    BY DEF ShownLeads
  <2>2. j \in Nat /\ j <= Len(parts)
    BY <1>1
  <2> HIDE DEF before
  <2> QED
    BY <1>1, <2>1, <2>2, Part
<1>6. ASSUME Outcome = "none", IsPrefix(before, after)
      PROVE  Browser!Next
  <2>1. Browser!IsPrefix(before, after)
    BY <1>6 DEF Browser!IsPrefix, IsPrefix
  <2> QED
    BY <1>2, <1>3, <1>6, <2>1 DEF Browser!Next, Browser!Show
<1>7. ASSUME after = before, Outcome = "none" \/ Outcome' = Outcome
      PROVE  [Browser!Next]_Browser!vars
  <2>1. CASE Outcome' = Outcome
    BY <1>7, <2>1 DEF Browser!vars
  <2>2. CASE Outcome = "none"
    <3>1. IsPrefix(before, after)
      BY <1>4, <1>5, <1>7
    <3> QED
      BY <1>6, <2>2, <3>1
  <2> QED
    BY <1>7, <2>1, <2>2
<1>8. CASE Backend \/ Crash \/ Over \/ UNCHANGED vars
  <2>1. parts' = parts /\ relay' = relay /\ (conn = "left" <=> conn' = "left")
    <3> USE DEF relayVars
    <3>1. CASE Backend
      BY <3>1 DEF Backend, NodeDone, NodeRaises, YieldResult, YieldError, Cancelled, Stops
    <3>2. CASE Crash
      BY <3>2 DEF Crash, Stops
    <3>3. CASE Over \/ UNCHANGED vars
      BY <3>3 DEF Over, vars
    <3> QED
      BY <1>8, <3>1, <3>2, <3>3
  <2>2. after = before /\ Outcome' = Outcome
    BY <2>1 DEF Outcome
  <2> QED
    BY <1>7, <2>2
<1>9. CASE Refuse \/ Fetch
  <2>1. relay = "new" /\ (parts' = parts \/ parts' = Append(parts, "error"))
    <3>1. relay = "new"
      BY <1>9 DEF Refuse, Fetch
    <3>2. parts = <<>>
      BY <3>1 DEF IInv, Together
    <3>3. parts' = parts \/ parts' = <<"error">>
      BY <1>9 DEF Refuse, Fetch
    <3>4. Append(<<>>, "error") = <<"error">>
      OBVIOUS
    <3> QED
      BY <3>1, <3>2, <3>3, <3>4
  <2>2. Outcome = "none"
    <3>1. parts = <<>> /\ conn = "open"
      BY <2>1 DEF IInv, Together
    <3>2. Range(parts) = {}
      BY <3>1 DEF Range
    <3> QED
      BY <2>1, <3>1, <3>2 DEF Outcome
  <2>3. after = before
    BY <2>1, ErrorIsNoStage
  <2> QED
    BY <1>7, <2>2, <2>3
<1>10. CASE Read
  <2>1. /\ relay = "reading" /\ conn = "open" /\ Len(parts) < Len(emitted)
        /\ \A i \in 1..Len(parts) : parts[i] = PartOf(emitted[i])
    BY <1>10, ReadTakes
  <2>2. \A i \in 1..Len(parts) : emitted[i] \in Stages /\ emitted[i] \in Events
    <3>1. \A i \in 1..Len(emitted) : i < Len(emitted) => emitted[i] \in Stages
      BY DEF IInv, Path
    <3>2. \A i \in 1..Len(parts) : i \in 1..Len(emitted) /\ i < Len(emitted)
      BY <1>1, <2>1
    <3> QED
      BY <1>1, <3>1, <3>2
  <2>3. \A i \in 1..Len(parts) : parts[i] \in Stages
    BY <2>1, <2>2, PartOfEvent
  <2>4. Outcome = "none"
    <3>1. "text" \notin Range(parts) /\ "error" \notin Range(parts)
      BY <1>1, <2>3, Names DEF Range
    <3> QED
      BY <2>1, <3>1 DEF Outcome
  <2>5. before = parts
    <3>1. Len(parts) \in 0..Len(parts) /\ SubSeq(parts, 1, Len(parts)) = parts
      BY <1>1, SubSeqFull
    <3>2. \A i \in 1..Len(parts) : parts[i] \in Stages <=> i <= Len(parts)
      BY <1>1, <2>3
    <3>3. StagesIn(parts) = SubSeq(parts, 1, Len(parts))
      BY <1>1, <3>1, <3>2, LeadingStages
    <3> QED
      BY <3>1, <3>3
  <2>6. Len(parts) <= Len(parts') /\ \A i \in 1..Len(parts) : parts'[i] = parts[i]
    <3> DEFINE p == Len(parts)
    <3>1. PICK q \in 0..(Len(emitted) - p) :
            Len(parts') = p + q /\ \A i \in 1..(p + q) : parts'[i] = PartOf(emitted[i])
      BY <1>10, ReadTakes, Zenon
    <3> HIDE DEF p
    <3>2. q \in Nat /\ p \in Nat
      BY <1>1, <2>1, <3>1 DEF p
    <3>3. \A i \in 1..p : parts'[i] = parts[i]
      BY <2>1, <3>1, <3>2 DEF p
    <3> QED
      BY <3>1, <3>2, <3>3 DEF p
  <2>7. PICK j \in 0..Len(parts') :
          /\ after = SubSeq(parts', 1, j)
          /\ \A i \in 1..Len(parts') : parts'[i] \in Stages <=> i <= j
    BY DEF ShownLeads
  <2> DEFINE p == Len(parts)
  <2>8. p \in Nat /\ p <= j /\ j \in Nat /\ j <= Len(parts')
    <3>1. CASE p = 0
      BY <1>1, <2>7, <3>1
    <3>2. CASE p # 0
      <4>1. p \in 1..Len(parts') /\ p \in 1..p
        BY <1>1, <2>6, <3>2
      <4>2. parts'[p] \in Stages
        BY <2>3, <2>6, <4>1
      <4> QED
        BY <1>1, <2>7, <4>1, <4>2
    <3> QED
      BY <3>1, <3>2
  <2>9. IsPrefix(before, after)
    <3> HIDE DEF after
    <3>1. after \in Seq(Messages) /\ Len(after) = j /\ \A i \in 1..j : after[i] = parts'[i]
      BY <1>1, <2>7, <2>8, Part
    <3> DEFINE front == SubSeq(after, 1, p)
    <3>2. front \in Seq(Messages) /\ Len(front) = p /\ \A i \in 1..p : front[i] = after[i]
      BY <2>8, <3>1, Part
    <3> HIDE DEF front
    <3>3. \A i \in 1..p : front[i] = parts[i]
      <4>1. \A i \in 1..p : i \in 1..j
        BY <2>8
      <4> QED
        BY <2>6, <3>1, <3>2, <4>1
    <3>4. front = parts
      BY <1>1, <3>2, <3>3, SeqEqual
    <3>5. SubSeq(parts, 1, p) = parts
      BY <1>1, SubSeqFull
    <3>6. IsPrefix(parts, after)
      BY <2>8, <3>1, <3>4, <3>5 DEF IsPrefix, front
    <3> QED
      BY <2>5, <3>6
  <2> QED
    BY <1>6, <2>4, <2>9
<1>11. CASE Done \/ ReadRaises \/ Break \/ Leave
  <2>1. /\ relay = "reading" /\ relay' \in {"reading", "ended"}
        /\ parts' = parts \/ parts' = Append(parts, "error")
        /\ "text" \in Range(parts') <=> "text" \in Range(parts)
    <3>1. /\ relay = "reading" /\ relay' \in {"reading", "ended"}
          /\ parts' = parts \/ parts' = Append(parts, "error")
      BY <1>11 DEF Done, ReadRaises, Break, Leave, relayVars
    <3>2. /\ \A s \in Seq(Messages) :
               "text" \in Range(s) <=> \E i \in 1..Len(s) : s[i] = "text"
      BY DEF Range
    <3>3. parts' = Append(parts, "error") =>
            ("text" \in Range(parts') <=> "text" \in Range(parts))
      BY <1>1, <3>2, ErrorAfter
    <3> QED
      BY <3>1, <3>3
  <2>2. after = before
    BY <2>1, ErrorIsNoStage
  <2>3. CASE Outcome = "none"
    BY <1>7, <2>2, <2>3
  <2>4. CASE "text" \in Range(parts)
    <3>1. "text" \in Range(parts')
      BY <2>1, <2>4
    <3>2. Outcome' = Outcome
      BY <2>4, <3>1 DEF Outcome
    <3> QED
      BY <1>7, <2>2, <3>2
  <2>5. CASE "text" \notin Range(parts) /\ "error" \in Range(parts)
    <3>1. "text" \notin Range(parts')
      BY <2>1, <2>5
    <3>2. "error" \in Range(parts')
      <4>1. CASE parts' = parts
        BY <2>5, <4>1
      <4>2. CASE parts' = Append(parts, "error")
        <5>1. Len(parts') \in DOMAIN parts' /\ parts'[Len(parts')] = "error"
          BY <1>1, <4>2, ErrorAfter
        <5> QED
          BY <5>1 DEF Range
      <4> QED
        BY <2>1, <4>1, <4>2
    <3>3. Outcome' = Outcome
      BY <2>5, <3>1, <3>2 DEF Outcome
    <3> QED
      BY <1>7, <2>2, <3>3
  <2>6. conn # "left" /\ relay # "refused"
    BY <2>1 DEF IInv, Together
  <2> QED
    BY <2>3, <2>4, <2>5, <2>6 DEF Outcome
<1> QED
  BY <1>8, <1>9, <1>10, <1>11 DEF Next, Relay

\* What the browser is shown is what StreamContract promises: the stages of
\* the graph in the order of its edges, and then one outcome, which is an
\* answer only after the last stage.
THEOREM ContractRefined == Spec => StreamKept
<1>1. Init => Browser!Init
  BY ContractInit
<1>2. IInv /\ IInv' /\ [Next]_vars => [Browser!Next]_Browser!vars
  <2>1. (IInv => ShownLeads)'
    BY InvLeads, PTL
  <2>2. (IInv => /\ Browser!Ordered(StagesIn(parts))
                 /\ "text" \in Range(parts) => Browser!Complete(StagesIn(parts)))'
    BY InvShows, PTL
  <2> SUFFICES ASSUME IInv, IInv', [Next]_vars PROVE [Browser!Next]_Browser!vars
    OBVIOUS
  <2> QED
    BY <2>1, <2>2, InvLeads, ContractStep
<1> QED
  BY <1>1, <1>2, Inductive, PTL DEF Spec, StreamKept, Browser!Spec
-----------------------------------------------------------------------------
(* Progress of a question: a natural number gets smaller with every step   *)
(* of the backend, of the relay and of the connection between them.        *)

\* How far a node is from the end of the graph, without retries.
NodesLeft(stage) ==
  CASE stage = "check_cache" -> 9 [] stage = "refiner" -> 8
    [] stage = "text_to_cypher" -> 7 [] stage = "text_to_sql" -> 6
    [] stage = "python_executor" -> 5 [] stage = "validator" -> 4
    [] stage = "reflection" -> 3 [] stage = "write_cache" -> 2
    [] stage = "write_question" -> 1 [] OTHER -> 0

\* The steps of the backend; a retry takes the graph 4 nodes back.
BackendLeft(at, stage, retries) ==
  CASE at = "idle" -> 3 + NodesLeft(stage) + 6 * (MaxRetries - retries)
    [] at = "running" -> 2 + NodesLeft(stage) + 6 * (MaxRetries - retries)
    [] at \in {"result", "failed"} -> 1
    [] OTHER -> 0

RelayLeft(at) == CASE at = "new" -> 2 [] at = "reading" -> 1 [] OTHER -> 0
ConnLeft(at) == IF at = "open" THEN 1 ELSE 0

\* An event puts 4 tokens on the wire, so it has to weigh more.
StreamLeft ==
  5 * BackendLeft(backend, node, retry_count) + Len(wire) + RelayLeft(relay)
    + ConnLeft(conn)

LEMMA LeftAreNat ==
  ASSUME TypeOK
  PROVE  /\ BackendLeft(backend, node, retry_count) \in Nat
         /\ RelayLeft(relay) \in Nat /\ ConnLeft(conn) \in Nat
         /\ Len(wire) \in Nat
<1>1. retry_count \in Nat /\ MaxRetries \in Nat /\ MaxRetries - retry_count \in Nat
  BY StreamAssumption DEF TypeOK
<1>2. NodesLeft(node) \in Nat
  BY DEF NodesLeft
<1>3. BackendLeft(backend, node, retry_count) \in Nat
  BY <1>1, <1>2 DEF BackendLeft
<1>4. RelayLeft(relay) \in Nat
  BY DEF RelayLeft
<1>5. ConnLeft(conn) \in Nat
  BY DEF ConnLeft
<1>6. wire \in Seq(Tokens)
  BY DEF TypeOK
<1>7. Len(wire) \in Nat
  BY <1>6
<1> QED
  BY <1>3, <1>4, <1>5, <1>7

\* An edge of the graph leads nearer to its end, the retry edge by one retry.
LEMMA EdgesLeft ==
  ASSUME NEW stage \in Stages, NEW next \in Successors(stage)
  PROVE  \/ NodesLeft(next) < NodesLeft(stage)
         \/ /\ stage = "validator" /\ next = "refiner"
            /\ NodesLeft(next) = NodesLeft(stage) + 4
BY DEF Stages, Successors, NodesLeft

LEMMA YieldLen ==
  ASSUME TypeOK, NEW event \in Events, Yield(event)
  PROVE  Len(wire') <= Len(wire) + 4
<1> DEFINE frame == Frame(event)
<1>1. frame \in Seq(Tokens) /\ Len(frame) = 4
  <2>1. Data \in Tokens /\ event \in Tokens /\ NL \in Tokens
    BY EventTokens DEF Tokens
  <2>2. \A a, b, c, d \in Tokens : <<a, b, c, d>> \in Seq(Tokens)
                                   /\ Len(<<a, b, c, d>>) = 4
    OBVIOUS
  <2> QED
    BY <2>1, <2>2 DEF Frame
<1> HIDE DEF frame
<1>2. wire \in Seq(Tokens) /\ Len(wire) \in Nat
  BY DEF TypeOK
<1>3. Len(wire \o frame) = Len(wire) + 4
  <2>1. \A t \in Seq(Tokens) : Len(wire \o t) = Len(wire) + Len(t)
    BY <1>2, Joined
  <2> QED
    BY <1>1, <2>1
<1>4. wire' = wire \o frame \/ wire' = wire
  BY DEF Yield, frame
<1>5. CASE wire' = wire \o frame
  BY <1>2, <1>3, <1>5
<1>6. CASE wire' = wire
  BY <1>2, <1>6
<1> QED
  BY <1>4, <1>5, <1>6

\* The backend comes nearer to its end, and adds a frame at most.
LEMMA BackendNearer ==
  ASSUME IInv, Backend \/ Crash
  PROVE  /\ BackendLeft(backend', node', retry_count')
              < BackendLeft(backend, node, retry_count)
         /\ Len(wire') <= Len(wire) + 4
         /\ UNCHANGED relay
         /\ UNCHANGED conn \/ (conn = "open" /\ conn' # "open")
<1>1. retry_count \in Nat /\ MaxRetries \in Nat /\ MaxRetries - retry_count \in Nat
  BY StreamAssumption DEF IInv, TypeOK
<1>2. NodesLeft(node) \in Nat /\ NodesLeft(node') \in Nat
  BY DEF NodesLeft
<1>3. wire \in Seq(Tokens) /\ Len(wire) \in Nat
  BY DEF IInv, TypeOK
<1>4. CASE NodeDone
  <2>1. backend = "running" /\ node \in Stages
    BY <1>4 DEF NodeDone, IInv, Standing
  <2>2. PICK next \in Successors(node) :
          /\ node = "validator" /\ next = "refiner" => retry_count < MaxRetries
          /\ node' = next
          /\ retry_count' = IF node = "validator" /\ next = "refiner"
                            THEN retry_count + 1 ELSE retry_count
          /\ backend' = IF next = "END" THEN "result" ELSE "running"
    BY <1>4 DEF NodeDone, MayRetry
  <2>3. \/ NodesLeft(node') < NodesLeft(node) /\ retry_count' = retry_count
        \/ /\ NodesLeft(node') = NodesLeft(node) + 4
           /\ retry_count' = retry_count + 1 /\ retry_count < MaxRetries
    <3>1. \/ NodesLeft(next) < NodesLeft(node)
          \/ /\ node = "validator" /\ next = "refiner"
             /\ NodesLeft(next) = NodesLeft(node) + 4
      BY <2>1, EdgesLeft
    <3>2. CASE node = "validator" /\ next = "refiner"
      <4>1. NodesLeft("refiner") = NodesLeft("validator") + 4
        BY DEF NodesLeft
      <4> QED
        BY <2>2, <3>2, <4>1
    <3>3. CASE ~(node = "validator" /\ next = "refiner")
      BY <2>2, <3>1, <3>3
    <3> QED
      BY <3>2, <3>3
  <2>4. BackendLeft(backend', node', retry_count')
          < BackendLeft(backend, node, retry_count)
    <3>1. BackendLeft(backend, node, retry_count)
            = 2 + NodesLeft(node) + 6 * (MaxRetries - retry_count)
      BY <2>1 DEF BackendLeft
    <3>2. CASE backend' = "result"
      <4>1. BackendLeft(backend', node', retry_count') = 1
        BY <3>2 DEF BackendLeft
      <4> QED
        BY <1>1, <1>2, <3>1, <4>1
    <3>3. CASE backend' = "running"
      <4>1. BackendLeft(backend', node', retry_count')
              = 2 + NodesLeft(node') + 6 * (MaxRetries - retry_count')
        BY <3>3 DEF BackendLeft
      <4> QED
        BY <1>1, <1>2, <2>3, <3>1, <4>1
    <3> QED
      BY <2>2, <3>2, <3>3
  <2>5. node \in Events /\ Yield(node) /\ UNCHANGED <<relay, conn>>
    BY <1>4, <2>1, Names DEF NodeDone, relayVars
  <2> QED
    BY <2>4, <2>5, YieldLen DEF IInv
<1>5. CASE YieldResult \/ YieldError
  <2>1. /\ backend \in {"result", "failed"} /\ backend' = "ended"
        /\ UNCHANGED <<relay, conn>>
    BY <1>5 DEF YieldResult, YieldError, relayVars
  <2>2. PICK event \in Events : Yield(event)
    BY <1>5, Names DEF YieldResult, YieldError
  <2>3. Len(wire') <= Len(wire) + 4
    BY <2>2, YieldLen DEF IInv
  <2>4. /\ BackendLeft(backend, node, retry_count) = 1
        /\ BackendLeft(backend', node', retry_count') = 0
    BY <2>1 DEF BackendLeft
  <2> QED
    BY <2>1, <2>3, <2>4
<1>6. CASE NodeRaises \/ Cancelled \/ Crash
  <2>1. /\ \/ backend = "running" /\ backend' \in {"failed", "stopped"}
           \/ backend \in {"result", "failed"} /\ backend' = "stopped"
        /\ UNCHANGED relay
    BY <1>6 DEF NodeRaises, Cancelled, Crash, Stops, relayVars
  <2>2. BackendLeft(backend', node', retry_count') \in {0, 1}
    BY <2>1 DEF BackendLeft
  <2>3. ASSUME backend = "running"
        PROVE  BackendLeft(backend', node', retry_count')
                 < BackendLeft(backend, node, retry_count)
    <3>1. BackendLeft(backend, node, retry_count)
            = 2 + NodesLeft(node) + 6 * (MaxRetries - retry_count)
      BY <2>3 DEF BackendLeft
    <3> QED
      BY <1>1, <1>2, <2>2, <3>1
  <2>4. ASSUME backend \in {"result", "failed"}
        PROVE  BackendLeft(backend', node', retry_count')
                 < BackendLeft(backend, node, retry_count)
    <3>1. backend' = "stopped"
      BY <2>1, <2>4
    <3>2. /\ BackendLeft(backend, node, retry_count) = 1
          /\ BackendLeft(backend', node', retry_count') = 0
      BY <2>4, <3>1 DEF BackendLeft
    <3> QED
      BY <3>2
  <2>5. /\ wire' = wire \/ wire' = <<>>
        /\ UNCHANGED conn \/ (conn = "open" /\ conn' # "open")
    BY <1>6 DEF NodeRaises, Cancelled, Crash, Stops
  <2>6. Len(wire') <= Len(wire) + 4
    <3>1. Len(wire) <= Len(wire) + 4 /\ 0 <= Len(wire) + 4
      BY <1>3
    <3>2. wire' = <<>> => Len(wire') = 0
      OBVIOUS
    <3> QED
      BY <2>5, <3>1, <3>2
  <2> QED
    BY <2>1, <2>3, <2>4, <2>5, <2>6
<1> QED
  BY <1>4, <1>5, <1>6 DEF Backend

\* What the relay, the network and the browser do leaves no more behind.
LEMMA RelayNearer ==
  ASSUME IInv, Relay \/ Break \/ Leave
  PROVE  /\ BackendLeft(backend', node', retry_count')
              <= BackendLeft(backend, node, retry_count)
         /\ Len(wire') <= Len(wire)
         /\ RelayLeft(relay') <= RelayLeft(relay)
         /\ ConnLeft(conn') <= ConnLeft(conn)
         /\ \/ Len(wire') < Len(wire) \/ RelayLeft(relay') < RelayLeft(relay)
            \/ ConnLeft(conn') < ConnLeft(conn)
<1>1. /\ BackendLeft(backend, node, retry_count) \in Nat
      /\ RelayLeft(relay) \in Nat /\ ConnLeft(conn) \in Nat /\ Len(wire) \in Nat
  BY LeftAreNat DEF IInv
<1>2. /\ wire' = wire => Len(wire') <= Len(wire)
      /\ wire' = <<>> => Len(wire') <= Len(wire)
      /\ conn' = conn => ConnLeft(conn') <= ConnLeft(conn)
      /\ relay' = relay => RelayLeft(relay') <= RelayLeft(relay)
      /\ UNCHANGED <<backend, node, retry_count>> =>
           BackendLeft(backend', node', retry_count')
             <= BackendLeft(backend, node, retry_count)
  <2>1. \A n \in Nat : n <= n /\ 0 <= n
    OBVIOUS
  <2>2. wire' = <<>> => Len(wire') = 0
    OBVIOUS
  <2> QED
    BY <1>1, <2>1, <2>2, Zenon
<1>3. relay = "new" /\ relay' \in {"refused", "reading", "ended"} =>
        /\ RelayLeft(relay') < RelayLeft(relay)
        /\ RelayLeft(relay') <= RelayLeft(relay)
  BY DEF RelayLeft
<1>4. relay = "reading" /\ relay' = "ended" =>
        /\ RelayLeft(relay') < RelayLeft(relay)
        /\ RelayLeft(relay') <= RelayLeft(relay)
  BY DEF RelayLeft
<1>5. conn = "open" /\ conn' \in {"lost", "left"} =>
        /\ ConnLeft(conn') < ConnLeft(conn)
        /\ ConnLeft(conn') <= ConnLeft(conn)
  BY DEF ConnLeft
<1>6. CASE Refuse
  <2>1. /\ relay = "new" /\ relay' \in {"refused", "reading", "ended"}
        /\ UNCHANGED <<backend, node, retry_count, conn, wire>>
    BY <1>6 DEF Refuse, backendVars
  <2> QED
    BY <1>2, <1>3, <2>1, Zenon
<1>7. CASE Fetch
  <2>1. /\ relay = "new" /\ relay' \in {"refused", "reading", "ended"}
        /\ UNCHANGED <<node, retry_count, conn, wire>>
        /\ backend' = "running" \/ backend' = backend
    BY <1>7 DEF Fetch
  <2>2. backend = "idle"
    BY <2>1 DEF IInv, Together
  <2>3. BackendLeft(backend', node', retry_count')
          <= BackendLeft(backend, node, retry_count)
    <3>1. CASE backend' = backend
      BY <1>2, <2>1, <3>1, Zenon
    <3>2. CASE backend' = "running"
      <4>1. /\ BackendLeft(backend, node, retry_count)
                 = 3 + NodesLeft(node) + 6 * (MaxRetries - retry_count)
            /\ BackendLeft(backend', node', retry_count')
                 = 2 + NodesLeft(node) + 6 * (MaxRetries - retry_count)
        BY <2>1, <2>2, <3>2 DEF BackendLeft
      <4>2. retry_count \in Nat /\ MaxRetries \in Nat /\ NodesLeft(node) \in Nat
        BY StreamAssumption DEF IInv, TypeOK, NodesLeft
      <4> QED
        BY <4>1, <4>2
    <3> QED
      BY <2>1, <3>1, <3>2
  <2> QED
    BY <1>2, <1>3, <2>1, <2>3, Zenon
<1>8. CASE Read
  <2>1. UNCHANGED <<backend, node, retry_count, conn, relay>>
    BY <1>8, Zenon DEF Read, backendVars
  <2>2. PICK n \in 1..Len(wire) : wire' = SubSeq(wire, n + 1, Len(wire))
    BY <1>8 DEF Read
  <2>3. wire \in Seq(Tokens)
    BY DEF IInv, TypeOK
  <2>4. Len(SubSeq(wire, n + 1, Len(wire))) = Len(wire) - n
    BY <1>1, <2>3, Rest
  <2>5. Len(wire') < Len(wire) /\ Len(wire') <= Len(wire)
    BY <1>1, <2>2, <2>4
  <2> QED
    BY <1>2, <2>1, <2>5, Zenon
<1>9. CASE Done \/ ReadRaises
  <2>1. /\ relay = "reading" /\ relay' = "ended"
        /\ UNCHANGED <<backend, node, retry_count, conn, wire>>
    BY <1>9 DEF Done, ReadRaises, backendVars
  <2> QED
    BY <1>2, <1>4, <2>1, Zenon
<1>10. CASE Break \/ Leave
  <2>1. /\ conn = "open" /\ conn' \in {"lost", "left"} /\ wire' = <<>>
        /\ relay' = relay \/ (relay = "reading" /\ relay' = "ended")
        /\ UNCHANGED <<backend, node, retry_count>>
    BY <1>10 DEF Break, Leave, backendVars, relayVars
  <2> QED
    BY <1>2, <1>4, <1>5, <2>1, Zenon
<1> QED
  BY <1>6, <1>7, <1>8, <1>9, <1>10 DEF Relay

\* The two ways in which less is left.
LEMMA LessLeft ==
  \A b, w, r, c, b1, w1, r1, c1 \in Nat :
    /\ r1 <= r /\ c1 <= c
    /\ \/ b1 < b /\ w1 <= w + 4
       \/ b1 <= b /\ w1 <= w /\ (w1 < w \/ r1 < r \/ c1 < c)
    => /\ 5 * b1 + w1 + r1 + c1 < 5 * b + w + r + c
       /\ 5 * b1 + w1 + r1 + c1 \in Nat
OBVIOUS

\* No question goes on for ever: every event, token and retry there may be is
\* one less with each step, however the nodes end, the stream is cut, and the
\* connection, the backend or the browser drops out.
THEOREM StreamEndsNearer ==
  Spec => [][StreamLeft' < StreamLeft /\ StreamLeft' \in Nat]_vars
<1>1. ASSUME IInv, TypeOK', Next, vars' # vars
      PROVE  StreamLeft' < StreamLeft /\ StreamLeft' \in Nat
  <2>1. /\ BackendLeft(backend, node, retry_count) \in Nat
        /\ RelayLeft(relay) \in Nat /\ ConnLeft(conn) \in Nat
        /\ Len(wire) \in Nat
    BY <1>1, LeftAreNat DEF IInv
  <2>2. /\ BackendLeft(backend', node', retry_count') \in Nat
        /\ RelayLeft(relay') \in Nat /\ ConnLeft(conn') \in Nat
        /\ Len(wire') \in Nat
    <3>0. retry_count' \in 0..MaxRetries
      BY <1>1 DEF TypeOK
    <3>1. retry_count' \in Nat /\ MaxRetries - retry_count' \in Nat
      <4>1. \A n \in 0..MaxRetries : n \in Nat /\ MaxRetries - n \in Nat
        BY StreamAssumption
      <4> QED
        BY <3>0, <4>1, Zenon
    <3>2. NodesLeft(node') \in Nat
      BY DEF NodesLeft
    <3>3. BackendLeft(backend', node', retry_count') \in Nat
      BY <3>1, <3>2 DEF BackendLeft
    <3>4. RelayLeft(relay') \in Nat /\ ConnLeft(conn') \in Nat
      BY DEF RelayLeft, ConnLeft
    <3>5. wire' \in Seq(Tokens)
      BY <1>1 DEF TypeOK
    <3>6. Len(wire') \in Nat
      BY <3>5
    <3> QED
      BY <3>3, <3>4, <3>6
  <2>3. CASE Backend \/ Crash
    <3>1. /\ BackendLeft(backend', node', retry_count')
               < BackendLeft(backend, node, retry_count)
          /\ Len(wire') <= Len(wire) + 4
          /\ UNCHANGED relay
          /\ UNCHANGED conn \/ (conn = "open" /\ conn' # "open")
      BY <1>1, <2>3, BackendNearer
    <3>2. RelayLeft(relay') <= RelayLeft(relay)
      BY <2>1, <3>1
    <3>3. ConnLeft(conn') <= ConnLeft(conn)
      BY <2>1, <3>1 DEF ConnLeft
    <3> QED
      BY <2>1, <2>2, <3>1, <3>2, <3>3, LessLeft, ZenonT(40) DEF StreamLeft
  <2>4. CASE Relay \/ Break \/ Leave
    <3>1. /\ BackendLeft(backend', node', retry_count')
               <= BackendLeft(backend, node, retry_count)
          /\ Len(wire') <= Len(wire)
          /\ RelayLeft(relay') <= RelayLeft(relay)
          /\ ConnLeft(conn') <= ConnLeft(conn)
          /\ \/ Len(wire') < Len(wire) \/ RelayLeft(relay') < RelayLeft(relay)
             \/ ConnLeft(conn') < ConnLeft(conn)
      BY <1>1, <2>4, RelayNearer
    <3> QED
      BY <2>1, <2>2, <3>1, LessLeft, ZenonT(40) DEF StreamLeft
  <2> QED
    BY <1>1, <2>3, <2>4, Zenon DEF Next, Over
<1>2. IInv /\ IInv' /\ [Next]_vars =>
        [StreamLeft' < StreamLeft /\ StreamLeft' \in Nat]_vars
  BY <1>1 DEF IInv
<1> QED
  BY <1>2, Inductive, PTL DEF Spec
=============================================================================
