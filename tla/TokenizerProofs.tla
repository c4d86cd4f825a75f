---------------------------- MODULE TokenizerProofs ---------------------------
(***************************************************************************)
(* Theorems about Tokenizer, for every set of bytes, patterns, arguments   *)
(* and inputs.                                                             *)
(***************************************************************************)
EXTENDS Tokenizer, SequenceLemmas

-------------------------------------------------------------------------------
(* Spans of a buffer.                                                      *)

LEMMA SpanProperties ==
  ASSUME NEW S, NEW s \in Seq(S), NEW p \in 0..Len(s), NEW q \in p..Len(s)
  PROVE  /\ Span(s, p, q) \in Seq(S)
         /\ Len(Span(s, p, q)) = q - p
         /\ \A i \in 1..q - p : Span(s, p, q)[i] = s[p + i]
<1>1. /\ SubSeq(s, p + 1, q) \in Seq(S)
      /\ Len(SubSeq(s, p + 1, q)) = IF p + 1 <= q THEN q - (p + 1) + 1 ELSE 0
      /\ \A i \in 1..q - (p + 1) + 1 : SubSeq(s, p + 1, q)[i] = s[(p + 1) + i - 1]
  <2>1. \A i \in p + 1..q : s[i] \in S
    BY LenProperties, ElementOfSeq
  <2>2. p + 1 \in Int /\ q \in Int
    BY LenProperties
  <2> QED
    BY <2>1, <2>2, SubSeqProperties
<1>2. Len(s) \in Nat
  BY LenProperties
<1> QED
  BY <1>1, <1>2 DEF Span

LEMMA SpanFull == ASSUME NEW S, NEW s \in Seq(S) PROVE Span(s, 0, Len(s)) = s
  BY SubSeqFull DEF Span

LEMMA SpanEmpty == ASSUME NEW s, NEW p \in Nat PROVE Span(s, p, p) = <<>>
  BY SubSeqEmpty DEF Span

(* Two spans, the second beginning where the first ends, are one.          *)
LEMMA SpansAdjacent ==
  ASSUME NEW S, NEW s \in Seq(S),
         NEW p \in 0..Len(s), NEW q \in p..Len(s), NEW r \in q..Len(s)
  PROVE  Span(s, p, q) \o Span(s, q, r) = Span(s, p, r)
<1>1. Len(s) \in Nat
  BY LenProperties
<1>2. p + 1 \in 1..Len(s) + 1 /\ q \in (p + 1) - 1..Len(s) /\ r \in q..Len(s)
  BY <1>1
<1> QED
  BY <1>2, ConcatAdjacentSubSeq DEF Span

(* A span of what is left of a buffer that was shifted by k.               *)
LEMMA SpanOfShifted ==
  ASSUME NEW S, NEW s \in Seq(S), NEW k \in 0..Len(s),
         NEW p \in k..Len(s), NEW q \in p..Len(s)
  PROVE  Span(Span(s, k, Len(s)), p - k, q - k) = Span(s, p, q)
<1> DEFINE t == Span(s, k, Len(s))
<1>1. Len(s) \in Nat
  BY LenProperties
<1>2. t \in Seq(S) /\ Len(t) = Len(s) - k /\ \A i \in 1..Len(s) - k : t[i] = s[k + i]
  <2>1. Len(s) \in k..Len(s)
    BY <1>1
  <2> QED
    BY ONLY <2>1, s \in Seq(S), k \in 0..Len(s), SpanProperties
<1> HIDE DEF t
<1>3. p - k \in 0..Len(t) /\ q - k \in p - k..Len(t)
  BY <1>1, <1>2
<1>4. /\ Span(t, p - k, q - k) \in Seq(S)
      /\ Len(Span(t, p - k, q - k)) = (q - k) - (p - k)
      /\ \A i \in 1..(q - k) - (p - k) : Span(t, p - k, q - k)[i] = t[p - k + i]
  BY <1>2, <1>3, SpanProperties
<1>5. /\ Span(s, p, q) \in Seq(S)
      /\ Len(Span(s, p, q)) = q - p
      /\ \A i \in 1..q - p : Span(s, p, q)[i] = s[p + i]
  <2>1. p \in 0..Len(s)
    BY <1>1
  <2> QED
    BY ONLY <2>1, s \in Seq(S), q \in p..Len(s), SpanProperties
<1>6. \A i \in 1..q - p : Span(t, p - k, q - k)[i] = Span(s, p, q)[i]
  <2> SUFFICES ASSUME NEW i \in 1..q - p PROVE Span(t, p - k, q - k)[i] = Span(s, p, q)[i]
    OBVIOUS
  <2>1. i \in 1..(q - k) - (p - k) /\ p - k + i \in 1..Len(s) - k /\ k + (p - k + i) = p + i
    BY <1>1
  <2>2. Span(t, p - k, q - k)[i] = t[p - k + i]
    BY <2>1, <1>4
  <2>3. t[p - k + i] = s[k + (p - k + i)]
    BY <2>1, <1>2
  <2> QED
    BY <2>1, <2>2, <2>3, <1>5
<1>7. Len(Span(t, p - k, q - k)) = Len(Span(s, p, q))
  BY <1>1, <1>4, <1>5
<1>8. Span(t, p - k, q - k) = Span(s, p, q)
  BY ONLY <1>4, <1>5, <1>6, <1>7, SeqEqual
<1> QED
  BY <1>8 DEF t

(* What is appended to a buffer comes after every span of it.              *)
LEMMA SpanOfExtended ==
  ASSUME NEW S, NEW s \in Seq(S), NEW t \in Seq(S), NEW p \in 0..Len(s)
  PROVE  Span(s \o t, p, Len(s \o t)) = Span(s, p, Len(s)) \o t
<1>1. /\ Len(s) \in Nat /\ Len(t) \in Nat
      /\ s \o t \in Seq(S) /\ Len(s \o t) = Len(s) + Len(t)
      /\ \A i \in 1..Len(s) + Len(t) :
           (s \o t)[i] = IF i <= Len(s) THEN s[i] ELSE t[i - Len(s)]
  BY LenProperties, ConcatProperties
<1> DEFINE u == s \o t
           l == Span(s, p, Len(s))
<1>2. /\ l \in Seq(S) /\ Len(l) = Len(s) - p
      /\ \A i \in 1..Len(s) - p : l[i] = s[p + i]
  <2>1. Len(s) \in p..Len(s)
    BY <1>1
  <2> QED
    BY ONLY <2>1, s \in Seq(S), p \in 0..Len(s), SpanProperties
<1>3. /\ l \o t \in Seq(S) /\ Len(l \o t) = Len(l) + Len(t)
      /\ \A i \in 1..Len(l) + Len(t) :
           (l \o t)[i] = IF i <= Len(l) THEN l[i] ELSE t[i - Len(l)]
  <2> HIDE DEF l
  <2> QED
    BY <1>2, ConcatProperties
<1>4. /\ Span(u, p, Len(u)) \in Seq(S) /\ Len(Span(u, p, Len(u))) = Len(u) - p
      /\ \A i \in 1..Len(u) - p : Span(u, p, Len(u))[i] = u[p + i]
  <2>1. u \in Seq(S) /\ p \in 0..Len(u) /\ Len(u) \in p..Len(u)
    BY <1>1
  <2> HIDE DEF u
  <2> QED
    BY <2>1, SpanProperties
<1>5. Len(Span(u, p, Len(u))) = Len(l \o t)
  BY <1>1, <1>2, <1>3, <1>4
<1>6. \A i \in 1..Len(u) - p : Span(u, p, Len(u))[i] = (l \o t)[i]
  <2> SUFFICES ASSUME NEW i \in 1..Len(u) - p PROVE Span(u, p, Len(u))[i] = (l \o t)[i]
    OBVIOUS
  <2>1. Span(u, p, Len(u))[i] = IF p + i <= Len(s) THEN s[p + i] ELSE t[p + i - Len(s)]
    BY <1>1, <1>4
  <2>2. (l \o t)[i] = IF i <= Len(s) - p THEN s[p + i] ELSE t[i - (Len(s) - p)]
    <3> HIDE DEF l
    <3> QED
      BY <1>1, <1>2, <1>3
  <2>3. i - (Len(s) - p) = p + i - Len(s)
    BY <1>1
  <2> QED
    BY <2>1, <2>2, <2>3, <1>1
<1>7. Span(u, p, Len(u)) = l \o t
  <2> HIDE DEF u, l
  <2> QED
    BY ONLY <1>3, <1>4, <1>5, <1>6, SeqEqual
<1> QED
  BY <1>7

-------------------------------------------------------------------------------
(* Where characters begin and end.                                         *)

LEMMA LengthType == \A b \in Bytes : Length[b] \in Int
  BY Utf8Assumption

LEMMA LastCharacterStartIs ==
  ASSUME NEW s \in Seq(Bytes), NEW e \in 0..Len(s), NEW r,
         r = LastCharacterStart(s, 0, e)
  PROVE  \/ /\ r = NoPosition
            /\ \A p \in 0..e - 1 :
                 p >= e - MAX_BYTES_PER_CHARACTER => IsContinuation(s[p + 1])
         \/ /\ r \in 0..e - 1
            /\ r >= e - MAX_BYTES_PER_CHARACTER
            /\ ~IsContinuation(s[r + 1])
            /\ \A p \in r + 1..e - 1 : IsContinuation(s[p + 1])
<1> DEFINE starts == {p \in 0..e - 1 : /\ p >= e - MAX_BYTES_PER_CHARACTER
                                       /\ ~IsContinuation(s[p + 1])}
<1>1. r = IF starts = {} THEN NoPosition ELSE Max(starts)
  BY DEF LastCharacterStart
<1>2. e \in Nat /\ MAX_BYTES_PER_CHARACTER \in Nat
  BY LenProperties, Utf8Assumption
<1>3. CASE starts = {}
  BY <1>1, <1>3
<1>4. CASE starts # {}
  <2>1. Max(starts) \in starts /\ \A p \in starts : p <= Max(starts)
    <3>1. starts \subseteq Int /\ e \in Int /\ \A p \in starts : p <= e
      BY <1>2
    <3> HIDE DEF starts
    <3> QED
      BY <1>4, <3>1, GreatestElement
  <2>2. r \in starts /\ \A p \in starts : p <= r
    BY <1>1, <1>4, <2>1
  <2>3. \A p \in r + 1..e - 1 : IsContinuation(s[p + 1])
    <3> SUFFICES ASSUME NEW p \in r + 1..e - 1, ~IsContinuation(s[p + 1]) PROVE FALSE
      OBVIOUS
    <3>1. p \in starts
      BY <1>2, <2>2
    <3> QED
      BY <2>2, <3>1, <1>2
  <2> QED
    BY <2>2, <2>3
<1> QED
  BY <1>3, <1>4

(* The end of the last whole character is within the buffer, and not ahead *)
(* of where the last character begins.                                     *)
LEMMA CompletedEndIs ==
  ASSUME NEW s \in Seq(Bytes), NEW r, NEW e,
         r = LastCharacterStart(s, 0, Len(s)),
         e = LastCompletedCharacterEnd(s, 0, Len(s))
  PROVE  \/ r = NoPosition /\ e = NoPosition
         \/ /\ r \in 0..Len(s) - 1 /\ e \in r..Len(s)
            /\ e = IF Length[s[r + 1]] <= 0 \/ r + Length[s[r + 1]] > Len(s) THEN r
                   ELSE r + Length[s[r + 1]]
<1>1. Len(s) \in Nat /\ Len(s) \in 0..Len(s)
  BY LenProperties
<1>2. r = NoPosition \/ r \in 0..Len(s) - 1
  BY <1>1, LastCharacterStartIs
<1>3. CASE r = NoPosition
  BY <1>3 DEF LastCompletedCharacterEnd
<1>4. CASE r # NoPosition
  <2>1. r \in 0..Len(s) - 1
    BY <1>2, <1>4
  <2>2. Length[s[r + 1]] \in Int
    <3>1. s[r + 1] \in Bytes
      BY <1>1, <2>1, ElementOfSeq
    <3> QED
      BY <3>1, LengthType
  <2>3. e = IF Length[s[r + 1]] <= 0 \/ r + Length[s[r + 1]] > Len(s) THEN r
            ELSE r + Length[s[r + 1]]
    BY <1>4 DEF LastCompletedCharacterEnd
  <2> QED
    BY <1>1, <2>1, <2>2, <2>3
<1> QED
  BY <1>3, <1>4

(* It is stepped back from pos, and stays in the buffer.                   *)
LEMMA DecrementBounds ==
  ASSUME NEW s \in Seq(Bytes), NEW e \in 0..Len(s), NEW pos \in 0..e
  PROVE  DecrementUntilCharacterStart(s, pos, 0, e) \in 0..pos
<1>1. Len(s) \in Nat
  BY LenProperties
<1>2. CASE pos = e
  BY <1>1, <1>2 DEF DecrementUntilCharacterStart
<1>3. CASE pos # e
  <2>1. pos + 1 \in 0..Len(s)
    BY <1>1, <1>3
  <2>2. PICK r : r = LastCharacterStart(s, 0, pos + 1)
    OBVIOUS
  <2>3. r = NoPosition \/ r \in 0..(pos + 1) - 1
    BY <2>1, <2>2, LastCharacterStartIs
  <2> QED
    BY <1>1, <1>3, <2>2, <2>3 DEF DecrementUntilCharacterStart
<1> QED
  BY <1>2, <1>3

-------------------------------------------------------------------------------
(* A match is within the subject, at or after the offset.                  *)

LEMMA MatchBounds ==
  ASSUME NEW pattern \in Patterns, NEW s \in Seq(Bytes), NEW offset \in Nat,
         NEW atstart \in BOOLEAN, NEW hard \in BOOLEAN,
         NEW m, m = Match(pattern, s, offset, atstart, hard)
  PROVE  /\ m \in MatchResults
         /\ m.kind # "none" => /\ offset <= m.begin
                               /\ m.begin <= m.end
                               /\ m.end <= Len(s)
         /\ m.kind = "partial" => hard
<1> DEFINE alternatives(p) ==
             {i \in DOMAIN pattern.words : Hit(pattern, s, offset, atstart, hard, p, i)}
           places == {p \in offset..Len(s) : alternatives(p) # {}}
           p == Min(places)
           i == Min(alternatives(p))
<1>1. m = IF places = {} THEN NoMatch
          ELSE IF IsComplete(pattern, s, p, i)
          THEN [kind |-> "complete", begin |-> p, end |-> p + Len(pattern.words[i])]
          ELSE [kind |-> "partial", begin |-> p, end |-> Len(s)]
  BY DEF Match
<1>2. Len(s) \in Nat
  BY LenProperties
<1>3. CASE places = {}
  BY <1>1, <1>3 DEF NoMatch, MatchResults
<1>4. CASE places # {}
  <2>1. p \in places
    <3>1. places \subseteq Nat
      BY <1>2
    <3> HIDE DEF places
    <3> QED
      BY <1>4, <3>1, MinIsLeast
  <2>2. p \in offset..Len(s) /\ alternatives(p) # {}
    <3> HIDE DEF alternatives, p
    <3> QED
      BY <2>1
  <2>3. pattern.words \in Seq(Seq(Bytes)) /\ pattern.ahead \in Seq(Bytes)
    BY DEF Patterns
  <2>4. alternatives(p) \subseteq Nat /\ alternatives(p) \subseteq DOMAIN pattern.words
    <3>1. DOMAIN pattern.words = 1..Len(pattern.words)
      BY <2>3, LenProperties
    <3> QED
      BY <3>1
  <2>5. i \in DOMAIN pattern.words
    <3>1. i \in alternatives(p)
      <4> HIDE DEF alternatives, p
      <4> QED
        BY <2>2, <2>4, MinIsLeast
    <3> QED
      BY <2>4, <3>1
  <2>6. Hit(pattern, s, offset, atstart, hard, p, i)
    <3>1. i \in alternatives(p)
      <4> HIDE DEF alternatives, p
      <4> QED
        BY <2>2, <2>4, MinIsLeast
    <3> HIDE DEF i, p
    <3> QED
      BY <3>1
  <2>7. pattern.words[i] \in Seq(Bytes)
    <3> HIDE DEF i
    <3> QED
      BY <2>3, <2>5
  <2>8. /\ Len(pattern.words[i]) \in Nat
        /\ Len(Needed(pattern, i)) = Len(pattern.words[i]) + Len(pattern.ahead)
        /\ Len(pattern.ahead) \in Nat
    <3> HIDE DEF i
    <3> QED
      BY <2>3, <2>7, ConcatProperties, LenProperties DEF Needed
  <2>9. CASE IsComplete(pattern, s, p, i)
    <3>1. m = [kind |-> "complete", begin |-> p, end |-> p + Len(pattern.words[i])]
      <4> HIDE DEF places, p, i
      <4> QED
        BY <1>1, <1>4, <2>9
    <3>2. p + Len(Needed(pattern, i)) <= Len(s)
      BY <2>9 DEF IsComplete
    <3> HIDE DEF p, i, alternatives
    <3>3. PICK l \in Nat, a \in Nat :
            l = Len(pattern.words[i]) /\ l + a = Len(Needed(pattern, i))
      BY <2>8
    <3>4. p \in Nat /\ p + l \in Nat /\ offset <= p /\ p <= p + l
      BY <1>2, <2>2
    <3>5. p + l <= Len(s)
      <4>1. p + (l + a) <= Len(s)
        BY <3>2, <3>3
      <4> QED
        BY ONLY <1>2, <4>1, <3>4, l \in Nat, a \in Nat
    <3> QED
      BY <3>1, <3>3, <3>4, <3>5 DEF MatchResults
  <2>10. CASE ~IsComplete(pattern, s, p, i)
    <3>1. m = [kind |-> "partial", begin |-> p, end |-> Len(s)]
      <4> HIDE DEF places, p, i
      <4> QED
        BY <1>1, <1>4, <2>10
    <3>2. hard
      <4> HIDE DEF p, i
      <4> QED
        BY <2>10, <2>6 DEF Hit
    <3> HIDE DEF p, i, alternatives
    <3> QED
      BY <1>2, <2>2, <3>1, <3>2 DEF MatchResults
  <2> QED
    BY <2>9, <2>10
<1> QED
  BY <1>3, <1>4

-------------------------------------------------------------------------------
(* How much of the buffer may be matched.                                  *)

LEMMA EffectiveBounds ==
  ASSUME NEW s \in Seq(Bytes), NEW done \in BOOLEAN, NEW e, e = EffectiveEnd(s, done)
  PROVE  /\ e = NoPosition \/ e \in 0..Len(s)
         /\ done \/ ~IsUtf => e = Len(s)
         /\ (~done /\ IsUtf) =>
              \/ e = LastCompletedCharacterEnd(s, 0, Len(s))
              \/ e = Len(s) /\ LastCompletedCharacterEnd(s, 0, Len(s)) = NoPosition
<1>1. Len(s) \in Nat
  BY LenProperties
<1>2. PICK w : w = LastCompletedCharacterEnd(s, 0, Len(s))
  OBVIOUS
<1>3. w = NoPosition \/ w \in 0..Len(s)
  <2>1. PICK r : r = LastCharacterStart(s, 0, Len(s))
    OBVIOUS
  <2>2. \/ r = NoPosition /\ w = NoPosition
        \/ r \in 0..Len(s) - 1 /\ w \in r..Len(s)
    BY <1>2, <2>1, CompletedEndIs
  <2> QED
    BY <1>1, <2>2
<1>4. e = IF ~IsUtf \/ done \/ (w = NoPosition /\ config.allow_invalid) THEN Len(s) ELSE w
  BY <1>2 DEF EffectiveEnd
<1> QED
  BY <1>1, <1>2, <1>3, <1>4

(* It only grows: however the buffer is shifted, and whatever is read      *)
(* after that, the whole characters that it ended with stay whole.         *)
LEMMA EffectiveGrows ==
  ASSUME NEW s \in Seq(Bytes), NEW t \in Seq(Bytes), NEW done \in BOOLEAN,
         NEW e, e = EffectiveEnd(s, FALSE), e # NoPosition,
         NEW k \in 0..e,
         NEW g, g = EffectiveEnd(Span(s, k, Len(s)) \o t, done), g # NoPosition
  PROVE  e - k <= g
<1>1. /\ Len(s) \in Nat /\ e \in 0..Len(s) /\ k \in 0..Len(s)
      /\ ~IsUtf => e = Len(s)
      /\ IsUtf => \/ e = LastCompletedCharacterEnd(s, 0, Len(s))
                  \/ LastCompletedCharacterEnd(s, 0, Len(s)) = NoPosition
  <2>1. /\ e = NoPosition \/ e \in 0..Len(s)
        /\ FALSE \/ ~IsUtf => e = Len(s)
        /\ (~FALSE /\ IsUtf) =>
             \/ e = LastCompletedCharacterEnd(s, 0, Len(s))
             \/ e = Len(s) /\ LastCompletedCharacterEnd(s, 0, Len(s)) = NoPosition
    BY ONLY s \in Seq(Bytes), e = EffectiveEnd(s, FALSE), EffectiveBounds
  <2>2. Len(s) \in Nat /\ e \in 0..Len(s)
    BY <2>1, LenProperties
  <2>3. k \in 0..Len(s)
    BY ONLY <2>2, k \in 0..e
  <2> QED
    BY <2>1, <2>2, <2>3
<1>2. PICK u : u = Span(s, k, Len(s)) \o t
  OBVIOUS
<1>3. /\ u \in Seq(Bytes) /\ Len(u) \in Nat /\ Len(u) >= Len(s) - k
      /\ \A i \in 1..Len(s) - k : u[i] = s[k + i]
  <2>1. PICK v : v = Span(s, k, Len(s))
    OBVIOUS
  <2>2. v \in Seq(Bytes) /\ Len(v) = Len(s) - k /\ \A i \in 1..Len(s) - k : v[i] = s[k + i]
    <3>1. Len(s) \in k..Len(s)
      BY <1>1
    <3> QED
      BY ONLY <1>1, <2>1, <3>1, s \in Seq(Bytes), SpanProperties
  <2>3. u = v \o t /\ Len(t) \in Nat
    BY <1>2, <2>1, LenProperties
  <2> QED
    BY <1>1, <2>2, <2>3, ConcatProperties
<1> DEFINE n == Len(s)
           m == Len(u)
<1>4. n \in Int /\ m \in Int /\ e \in Int /\ k \in Int /\ 0 <= k /\ k <= e /\ e <= n /\ m >= n - k
  BY ONLY <1>1, <1>3, k \in 0..e
<1> HIDE DEF n, m
<1>5. CASE g = Len(u)
  BY ONLY <1>5, <1>4 DEF n, m
<1>6. CASE g # Len(u)
  <2>1. IsUtf /\ ~done /\ g = LastCompletedCharacterEnd(u, 0, Len(u))
    BY <1>2, <1>3, <1>6, EffectiveBounds
  <2>2. PICK start : start = LastCharacterStart(u, 0, Len(u))
    OBVIOUS
  <2>3. /\ start \in 0..Len(u) - 1 /\ g \in start..Len(u)
        /\ g = IF Length[u[start + 1]] <= 0 \/ start + Length[u[start + 1]] > Len(u) THEN start
               ELSE start + Length[u[start + 1]]
    BY <1>3, <2>1, <2>2, CompletedEndIs
  <2>4. CASE start >= e - k
    BY ONLY <1>4, <2>3, <2>4
  <2>5. CASE start < e - k
    <3>1. /\ start >= Len(u) - MAX_BYTES_PER_CHARACTER
          /\ ~IsContinuation(u[start + 1])
          /\ \A p \in start + 1..Len(u) - 1 : IsContinuation(u[p + 1])
      <4>1. start # NoPosition /\ Len(u) \in 0..Len(u)
        BY <1>3, <2>3 DEF NoPosition
      <4> QED
        BY <1>3, <2>2, <4>1, LastCharacterStartIs
    <3>2. /\ k + start \in 0..Len(s) - 1 /\ start + 1 \in 1..Len(s) - k
          /\ u[start + 1] = s[(k + start) + 1]
      <4>1. start + 1 \in 1..n - k /\ k + start \in 0..n - 1
        BY ONLY <1>4, <2>3, <2>5
      <4>2. k + (start + 1) = (k + start) + 1
        BY <1>4, <2>3
      <4> QED
        BY <1>3, <4>1, <4>2 DEF n
    <3>3. \A p \in k + start + 1..Len(s) - 1 : IsContinuation(s[p + 1])
      <4> SUFFICES ASSUME NEW p \in k + start + 1..Len(s) - 1
                   PROVE  IsContinuation(s[p + 1])
        OBVIOUS
      <4>1. p - k \in start + 1..Len(u) - 1 /\ (p - k) + 1 \in 1..Len(s) - k
            /\ k + ((p - k) + 1) = p + 1
        BY <1>1, <1>3, <2>3
      <4> QED
        BY <1>3, <3>1, <4>1
    <3>4. k + start >= Len(s) - MAX_BYTES_PER_CHARACTER
      BY <1>1, <1>3, <2>3, <3>1, Utf8Assumption
    <3>5. PICK r : r = LastCharacterStart(s, 0, Len(s))
      OBVIOUS
    <3>6. r = k + start
      <4>1. Len(s) \in 0..Len(s)
        BY <1>1
      <4>2. \/ \A p \in 0..Len(s) - 1 :
                 p >= Len(s) - MAX_BYTES_PER_CHARACTER => IsContinuation(s[p + 1])
            \/ /\ r \in 0..Len(s) - 1
               /\ ~IsContinuation(s[r + 1])
               /\ \A p \in r + 1..Len(s) - 1 : IsContinuation(s[p + 1])
        BY <3>5, <4>1, LastCharacterStartIs
      <4>3. ~IsContinuation(s[(k + start) + 1])
        BY <3>1, <3>2
      <4>4. r \in 0..Len(s) - 1 /\ ~(k + start \in r + 1..Len(s) - 1)
                                /\ ~(r \in k + start + 1..Len(s) - 1)
        BY <3>2, <3>3, <3>4, <4>2, <4>3
      <4> QED
        BY <1>1, <3>2, <4>4
    <3>7. PICK whole : whole = LastCompletedCharacterEnd(s, 0, Len(s))
      OBVIOUS
    <3>8. /\ whole # NoPosition
          /\ whole = IF Length[s[r + 1]] <= 0 \/ r + Length[s[r + 1]] > Len(s) THEN r
                     ELSE r + Length[s[r + 1]]
      <4>1. r # NoPosition /\ r \in 0..Len(s) - 1
        BY <1>1, <3>2, <3>6 DEF NoPosition
      <4>2. whole \in r..Len(s) =>  whole # NoPosition
        BY <4>1 DEF NoPosition
      <4> QED
        BY <3>5, <3>7, <4>1, <4>2, CompletedEndIs
    <3>9. e = whole
      BY <1>1, <2>1, <3>7, <3>8
    <3>10. PICK l \in Int : l = Length[s[r + 1]] /\ l = Length[u[start + 1]]
      <4>1. s[r + 1] \in Bytes /\ s[r + 1] = u[start + 1]
        BY <1>1, <3>2, <3>6, ElementOfSeq
      <4> QED
        BY <4>1, LengthType
    <3>11. /\ g = IF l <= 0 \/ start + l > m THEN start ELSE start + l
           /\ e = IF l <= 0 \/ k + start + l > n THEN k + start ELSE k + start + l
      BY <2>3, <3>6, <3>8, <3>9, <3>10 DEF m, n
    <3>12. start \in Int
      BY <2>3
    <3> QED
      BY ONLY <1>4, <2>5, <3>11, <3>12, l \in Int
  <2> QED
    BY ONLY <1>4, <2>3, <2>4, <2>5
<1> QED
  BY <1>5, <1>6

-------------------------------------------------------------------------------
(* The inductive invariant.                                                *)

(* The offsets are in order, and what was matched is still what may be     *)
(* matched after the next read, whatever it brings.                        *)
OffsetsSeen ==
  /\ prev_sep_end <= match_offset
  /\ phase = "matching" => /\ effective = EffectiveEnd(subject, input_done)
                           /\ effective # NoPosition
                           /\ match_offset <= effective
  /\ phase = "reading" =>
       \A t \in Seq(Bytes), done \in BOOLEAN :
         \/ EffectiveEnd(subject \o t, done) = NoPosition
         \/ match_offset <= EffectiveEnd(subject \o t, done)

(* A read that comes up short was the last.                                *)
InputSeen ==
  /\ phase = "reading" => ~input_done
  /\ input_done => position = Len(input)

(* Only tokens between delimiters have a beginning to remember.            *)
MatchesStandAlone == IsMatch => prev_sep_end = 0 /\ fragment = <<>>

Inv ==
  /\ config \in Configs
  /\ TypeOK
  /\ BufferBounds
  /\ OffsetsSeen
  /\ InputSeen
  /\ MatchesStandAlone

(* The parts of the invariant that speak of the records.                   *)
LEMMA ConfigFields ==
  ASSUME TypeOK
  PROVE  /\ config.pattern \in Patterns /\ config.max_lookbehind \in Nat
         /\ config.buf_size \in Nat \ {0} /\ config.buf_size_frag \in Nat
         /\ config.bytes_to_read \in Nat \ {0}
         /\ config.flush \in BOOLEAN /\ config.mode \in Modes
         /\ IsUtf \in BOOLEAN
  BY DEF TypeOK, ConfigType, IsUtf, Patterns

LEMMA NoPositionIsNot == \A p \in Nat : p # NoPosition
  BY DEF NoPosition

LEMMA InitInv == ASSUME Init PROVE Inv
<1> USE DEF Init
<1>1. config \in ConfigType /\ input \in Seq(Bytes)
  BY ConfigsAssumption, InputsAssumption
<1>2. Len(input) \in Nat
  BY <1>1, LenProperties
<1>3. TypeOK
  <2>1. <<>> \in Seq(Bytes) /\ <<>> \in Seq(Items)
    BY EmptySeq
  <2>2. 0 \in 0..Len(input)
    BY <1>2
  <2> QED
    BY <1>1, <2>1, <2>2 DEF TypeOK
<1>4. BufferBounds
  BY <1>3, ConfigFields DEF BufferBounds
<1>5. OffsetsSeen
  <2> SUFFICES ASSUME NEW t \in Seq(Bytes), NEW done \in BOOLEAN
               PROVE  \/ EffectiveEnd(<<>> \o t, done) = NoPosition
                      \/ 0 <= EffectiveEnd(<<>> \o t, done)
    BY DEF OffsetsSeen
  <2>1. PICK e : e = EffectiveEnd(t, done)
    OBVIOUS
  <2>2. e = NoPosition \/ e \in 0..Len(t)
    BY <2>1, EffectiveBounds
  <2>3. <<>> \o t = t
    BY ConcatEmptySeq
  <2> QED
    BY <2>1, <2>2, <2>3
<1>6. InputSeen /\ MatchesStandAlone
  BY DEF InputSeen, MatchesStandAlone
<1> QED
  BY <1>3, <1>4, <1>5, <1>6 DEF Inv

-------------------------------------------------------------------------------
(* Reading.                                                                *)

(* There is room, so something is asked for, and less comes only at the    *)
(* end of the input.                                                       *)
LEMMA ReadBounds ==
  ASSUME TypeOK, BufferBounds, phase = "reading", ~input_done,
         NEW wanted, wanted = Smaller(config.bytes_to_read, config.buf_size - Len(subject)),
         NEW n \in BytesRead(wanted)
  PROVE  /\ n \in 0..config.buf_size - Len(subject)
         /\ position + n \in position..Len(input)
         /\ InputDone(n, wanted) \in BOOLEAN
         /\ InputDone(n, wanted) => position + n = Len(input)
<1>1. /\ Len(subject) \in Nat /\ Len(input) \in Nat /\ position \in 0..Len(input)
      /\ Len(subject) < config.buf_size /\ config.buf_size \in Nat
  BY LenProperties, ConfigFields DEF TypeOK, BufferBounds
<1>2. wanted \in Nat /\ 0 < wanted /\ wanted <= config.buf_size - Len(subject)
  BY <1>1, ConfigFields DEF Smaller
<1>3. PICK most : most = Smaller(wanted, Len(input) - position)
  OBVIOUS
<1>4. /\ most \in Nat /\ most <= wanted /\ position + most <= Len(input)
      /\ most = wanted \/ position + most = Len(input)
  BY <1>1, <1>2, <1>3 DEF Smaller
<1>5. n \in IF config.flush /\ most > 0 THEN 1..most ELSE {most}
  BY <1>3 DEF BytesRead
<1>6. n \in 0..most /\ (~config.flush => n = most) /\ (config.flush /\ n = 0 => most = 0)
  BY ONLY <1>4, <1>5
<1>7. /\ n \in 0..config.buf_size - Len(subject) /\ position + n \in position..Len(input)
  BY ONLY <1>1, <1>2, <1>4, <1>6
<1>8. InputDone(n, wanted) => position + n = Len(input)
  BY ONLY <1>1, <1>2, <1>4, <1>6 DEF InputDone
<1>9. InputDone(n, wanted) \in BOOLEAN
  BY DEF InputDone
<1> QED
  BY <1>7, <1>8, <1>9

LEMMA ReadKeeps == ASSUME Inv, Read PROVE Inv'
<1> DEFINE wanted == Smaller(config.bytes_to_read, config.buf_size - Len(subject))
<1>1. PICK n \in BytesRead(wanted) :
        /\ subject' = subject \o Span(input, position, position + n)
        /\ position' = position + n
        /\ input_done' = InputDone(n, wanted)
  BY DEF Read
<1>2. /\ TypeOK /\ BufferBounds /\ phase = "reading" /\ ~input_done
      /\ config \in Configs
  BY DEF Inv, InputSeen, Read
<1>3. /\ n \in 0..config.buf_size - Len(subject)
      /\ position' \in position..Len(input)
      /\ input_done' \in BOOLEAN
      /\ input_done' => position' = Len(input)
  BY <1>1, <1>2, ReadBounds
<1> HIDE DEF wanted
<1>4. /\ Len(subject) \in Nat /\ Len(input) \in Nat /\ subject \in Seq(Bytes)
      /\ input \in Seq(Bytes) /\ position \in 0..Len(input)
      /\ config.buf_size \in Nat
  BY <1>2, LenProperties, ConfigFields DEF TypeOK
<1>5. PICK read : read = Span(input, position, position')
  OBVIOUS
<1>6. read \in Seq(Bytes) /\ Len(read) = n
  <2>1. read \in Seq(Bytes) /\ Len(read) = position' - position
    BY ONLY <1>3, <1>4, <1>5, SpanProperties
  <2> QED
    BY ONLY <1>1, <1>3, <1>4, <2>1
<1>7. subject' = subject \o read /\ subject' \in Seq(Bytes) /\ Len(subject') = Len(subject) + n
  <2>1. subject' = subject \o read
    BY <1>1, <1>5
  <2> QED
    BY <1>4, <1>6, <2>1, ConcatProperties
<1>8. /\ config' = config /\ input' = input /\ match_offset' = match_offset
      /\ prev_sep_end' = prev_sep_end /\ notempty' = notempty
      /\ fragment' = fragment /\ output' = output
      /\ effective' = EffectiveEnd(subject', input_done')
      /\ phase' = IF effective' = NoPosition THEN "failed" ELSE "matching"
  BY DEF Read
<1>9. effective' = NoPosition \/ effective' \in 0..Len(subject')
  BY ONLY <1>3, <1>7, <1>8, EffectiveBounds
<1>10. TypeOK'
  BY <1>2, <1>3, <1>7, <1>8, <1>9 DEF TypeOK
<1>11. match_offset \in Nat /\ prev_sep_end \in Nat
       /\ match_offset <= Len(subject) /\ prev_sep_end <= Len(subject)
  BY <1>2 DEF TypeOK, BufferBounds
<1>12. BufferBounds'
  <2>1. /\ Len(subject') <= config.buf_size /\ match_offset <= Len(subject')
        /\ prev_sep_end <= Len(subject')
        /\ phase' = "matching" => effective' <= Len(subject')
    BY ONLY <1>3, <1>4, <1>7, <1>8, <1>9, <1>11
  <2> QED
    BY <1>8, <2>1 DEF BufferBounds
<1>13. OffsetsSeen'
  <2>1. effective' = NoPosition \/ match_offset <= effective'
    BY <1>2, <1>3, <1>6, <1>7, <1>8 DEF Inv, OffsetsSeen
  <2>2. (EffectiveEnd(subject, input_done))' = EffectiveEnd(subject', input_done')
    BY <1>8 DEF EffectiveEnd, IsUtf
  <2>3. prev_sep_end <= match_offset
    BY DEF Inv, OffsetsSeen
  <2> QED
    BY <1>8, <2>1, <2>2, <2>3 DEF OffsetsSeen
<1>14. InputSeen'
  BY <1>3, <1>8 DEF InputSeen
<1>15. MatchesStandAlone'
  BY <1>8 DEF Inv, MatchesStandAlone, IsMatch
<1> QED
  BY <1>2, <1>8, <1>10, <1>12, <1>13, <1>14, <1>15 DEF Inv

-------------------------------------------------------------------------------
(* Matching.                                                               *)

(* While matching, the buffer is in order.                                 *)
LEMMA BufferInOrder ==
  ASSUME Inv, phase = "matching"
  PROVE  /\ subject \in Seq(Bytes) /\ Len(subject) \in Nat
         /\ effective \in 0..Len(subject)
         /\ match_offset \in 0..effective
         /\ prev_sep_end \in 0..match_offset
         /\ Len(subject) <= config.buf_size /\ config.buf_size \in Nat \ {0}
         /\ input_done \in BOOLEAN
         /\ effective = EffectiveEnd(subject, input_done)
         /\ input_done => effective = Len(subject)
         /\ ~IsUtf => effective = Len(subject)
         /\ IsMatch => prev_sep_end = 0 /\ fragment = <<>>
<1>1. /\ subject \in Seq(Bytes) /\ Len(subject) \in Nat
      /\ effective \in Nat \cup {NoPosition} /\ effective # NoPosition
      /\ match_offset \in Nat /\ prev_sep_end \in Nat
      /\ effective <= Len(subject) /\ match_offset <= effective
      /\ prev_sep_end <= match_offset
      /\ Len(subject) <= config.buf_size /\ config.buf_size \in Nat \ {0}
      /\ input_done \in BOOLEAN
      /\ effective = EffectiveEnd(subject, input_done)
      /\ IsMatch => prev_sep_end = 0 /\ fragment = <<>>
  BY LenProperties, ConfigFields
     DEF Inv, TypeOK, BufferBounds, OffsetsSeen, MatchesStandAlone
<1>2. input_done \/ ~IsUtf => effective = Len(subject)
  BY ONLY <1>1, EffectiveBounds
<1>3. /\ effective \in 0..Len(subject) /\ match_offset \in 0..effective
      /\ prev_sep_end \in 0..match_offset
  BY ONLY <1>1
<1> QED
  BY <1>1, <1>2, <1>3

(* m may be what was found.                                                *)
InBuffer(m) ==
  /\ m \in MatchResults
  /\ m.kind # "none" => /\ m.begin \in prev_sep_end..effective
                        /\ m.end \in m.begin..effective
  /\ m.kind = "partial" \/ (m.kind = "complete" /\ IsMatch) => match_offset <= m.begin

LEMMA FoundInBuffer == ASSUME Inv, phase = "matching", NEW m, m = Found PROVE InBuffer(m)
<1>1. /\ subject \in Seq(Bytes) /\ Len(subject) \in Nat
      /\ effective \in 0..Len(subject)
      /\ match_offset \in 0..effective /\ match_offset \in Nat
      /\ prev_sep_end \in 0..match_offset /\ prev_sep_end \in Nat
      /\ input_done \in BOOLEAN
      /\ ~IsUtf => effective = Len(subject)
  BY BufferInOrder DEF Inv, TypeOK
<1>2. config.pattern \in Patterns /\ notempty \in BOOLEAN
  BY ConfigFields DEF Inv, TypeOK
<1>3. CASE config.mode = "byte"
  <2>1. m = Match(config.pattern, subject, prev_sep_end, FALSE, FALSE)
    BY <1>3 DEF Found
  <2>2. FALSE \in BOOLEAN
    OBVIOUS
  <2>3. /\ m \in MatchResults
        /\ m.kind # "none" => /\ prev_sep_end <= m.begin
                              /\ m.begin <= m.end
                              /\ m.end <= Len(subject)
        /\ m.kind # "partial"
    BY ONLY <1>1, <1>2, <2>1, <2>2, MatchBounds
  <2>4. effective = Len(subject) /\ ~IsMatch
    BY <1>1, <1>3, ConfigsAssumption DEF Inv, IsUtf, IsMatch
  <2>5. m.begin \in Nat /\ m.end \in Nat
    BY <2>3 DEF MatchResults
  <2>6. m.kind # "none" => m.begin \in prev_sep_end..effective /\ m.end \in m.begin..effective
    BY ONLY <1>1, <2>3, <2>4, <2>5
  <2> QED
    BY <2>3, <2>4, <2>6 DEF InBuffer
<1>4. CASE config.mode # "byte"
  <2>1. PICK s : s = Span(subject, 0, effective)
    OBVIOUS
  <2>2. s \in Seq(Bytes) /\ Len(s) = effective
    <3>1. 0 \in 0..Len(subject) /\ effective - 0 = effective
      BY <1>1
    <3> QED
      BY ONLY <1>1, <2>1, <3>1, SpanProperties
  <2>3. m = Match(config.pattern, s, match_offset, notempty, ~input_done)
    BY <1>4, <2>1 DEF Found
  <2>4. (~input_done) \in BOOLEAN
    OBVIOUS
  <2>5. /\ m \in MatchResults
        /\ m.kind # "none" => /\ match_offset <= m.begin
                              /\ m.begin <= m.end
                              /\ m.end <= Len(s)
    BY ONLY <1>1, <1>2, <2>2, <2>3, <2>4, MatchBounds
  <2>6. m.begin \in Nat /\ m.end \in Nat
    BY <2>5 DEF MatchResults
  <2>7. m.kind # "none" => m.begin \in prev_sep_end..effective /\ m.end \in m.begin..effective
    BY ONLY <1>1, <2>2, <2>5, <2>6
  <2> QED
    BY <2>5, <2>7 DEF InBuffer
<1> QED
  BY <1>3, <1>4

(* What a shift keeps begins within what was matched, and not after the    *)
(* last delimiter.                                                         *)
LEMMA KeptBounds ==
  ASSUME Inv, phase = "matching", NEW m, InBuffer(m), NeedsInput(m)
  PROVE  /\ ScanEnd(m) \in match_offset..effective
         /\ RetainMarker(m) \in 0..ScanEnd(m)
         /\ Kept(m) \in 0..RetainMarker(m)
         /\ ~IsMatch => Kept(m) <= prev_sep_end
<1>1. /\ subject \in Seq(Bytes) /\ Len(subject) \in Nat
      /\ effective \in 0..Len(subject)
      /\ match_offset \in 0..effective
      /\ prev_sep_end \in 0..match_offset
      /\ config.max_lookbehind \in Nat
  BY BufferInOrder, ConfigFields DEF Inv
<1>2. PICK scan : scan = ScanEnd(m)
  OBVIOUS
<1>3. scan \in match_offset..effective
  <2>1. m.kind = "partial" => m.begin \in prev_sep_end..effective /\ match_offset <= m.begin
    BY DEF InBuffer
  <2>2. scan = IF m.kind = "partial" THEN m.begin ELSE effective
    BY <1>2 DEF ScanEnd
  <2> QED
    BY ONLY <1>1, <2>1, <2>2
<1>4. PICK looked : looked = IF scan < config.max_lookbehind THEN 0
                             ELSE scan - config.max_lookbehind
  OBVIOUS
<1>5. looked \in 0..scan /\ looked \in 0..effective /\ scan \in Nat
  BY ONLY <1>1, <1>3, <1>4
<1>6. PICK marker : marker = RetainMarker(m)
  OBVIOUS
<1>7. marker = IF IsUtf THEN DecrementUntilCharacterStart(subject, looked, 0, effective) ELSE looked
  BY <1>2, <1>4, <1>6 DEF RetainMarker
<1>8. DecrementUntilCharacterStart(subject, looked, 0, effective) \in 0..looked
  BY ONLY <1>1, <1>5, DecrementBounds
<1>9. marker \in 0..scan
  BY ONLY <1>5, <1>7, <1>8
<1>10. Kept(m) = IF IsMatch THEN marker ELSE IF marker < prev_sep_end THEN marker ELSE prev_sep_end
  BY <1>6 DEF Kept, Smaller
<1>11. Kept(m) \in 0..marker /\ (~IsMatch => Kept(m) <= prev_sep_end)
  BY ONLY <1>1, <1>5, <1>9, <1>10
<1> QED
  BY <1>2, <1>3, <1>6, <1>9, <1>11

LEMMA ItemType ==
  ASSUME NEW kind \in {"token", "fragment", "between"}, NEW text \in Seq(Bytes)
  PROVE  Item(kind, text) \in Items
  BY DEF Item, Items

LEMMA ItemsOf ==
  ASSUME NEW n \in Nat, NEW kind \in {"token", "fragment", "between"},
         NEW texts, \A i \in 1..n : texts[i] \in Seq(Bytes)
  PROVE  [i \in 1..n |-> Item(kind, texts[i])] \in Seq(Items)
<1>1. \A i \in 1..n : Item(kind, texts[i]) \in Items
  BY ItemType
<1> QED
  BY <1>1

LEMMA SedUpToType ==
  ASSUME TypeOK, NEW from \in 0..Len(subject), NEW to \in 0..Len(subject)
  PROVE  SedUpTo(from, to) \in Seq(Items)
<1>1. CASE IsSed /\ from < to
  <2>1. to \in from..Len(subject) /\ subject \in Seq(Bytes)
    BY <1>1, LenProperties DEF TypeOK
  <2>2. Span(subject, from, to) \in Seq(Bytes)
    BY <2>1, SpanProperties
  <2>3. Item("between", Span(subject, from, to)) \in Items
    BY <2>2, ItemType
  <2> QED
    BY <1>1, <2>3 DEF SedUpTo
<1>2. CASE ~(IsSed /\ from < to)
  BY <1>2, EmptySeq DEF SedUpTo
<1> QED
  BY <1>1, <1>2

LEMMA MergedType ==
  ASSUME TypeOK, NEW text \in Seq(Bytes)
  PROVE  Merged(text) \in Seq(Bytes)
<1>1. fragment \in Seq(Bytes)
  BY DEF TypeOK
<1>2. fragment \o text \in Seq(Bytes) /\ <<>> \in Seq(Bytes)
  BY <1>1, ConcatProperties, EmptySeq
<1> QED
  BY <1>2 DEF Merged

-------------------------------------------------------------------------------
(* What the actions do to the buffer.                                      *)

LEMMA CompleteMatchKeeps ==
  ASSUME Inv, phase = "matching", NEW m, InBuffer(m), CompleteMatch(m)
  PROVE  Inv'
<1>1. /\ subject \in Seq(Bytes) /\ Len(subject) \in Nat
      /\ effective \in 0..Len(subject)
      /\ match_offset \in 0..effective
      /\ prev_sep_end \in 0..match_offset
      /\ TypeOK /\ config \in Configs
      /\ fragment \in Seq(Bytes) /\ output \in Seq(Items)
  BY BufferInOrder DEF Inv, TypeOK
<1>2. /\ config' = config /\ input' = input /\ subject' = subject
      /\ position' = position /\ input_done' = input_done /\ effective' = effective
      /\ match_offset' = m.end /\ m.kind = "complete"
      /\ notempty' = NotEmptyAfter(m)
  BY DEF CompleteMatch, reading
<1>3. /\ m.begin \in prev_sep_end..effective /\ m.end \in m.begin..effective
      /\ m.begin \in Nat /\ m.end \in Nat
      /\ IsMatch => match_offset <= m.begin
  BY <1>2 DEF InBuffer, MatchResults
<1>4. notempty' \in BOOLEAN
  BY <1>1, <1>2 DEF NotEmptyAfter, TypeOK
<1>5. phase' \in {"matching", "ended"}
  BY DEF CompleteMatch, Ended, GoesOn
<1>6. /\ output' \in Seq(Items) /\ fragment' \in Seq(Bytes)
      /\ prev_sep_end' \in 0..m.end
      /\ IsMatch => prev_sep_end' = 0 /\ fragment' = <<>>
  <2>1. CASE IsMatch
    <3>1. PICK before : before = Span(subject, match_offset, m.begin)
      OBVIOUS
    <3>2. before \in Seq(Bytes)
      <4>1. match_offset \in 0..Len(subject) /\ m.begin \in match_offset..Len(subject)
        BY ONLY <1>1, <1>3, <2>1
      <4> QED
        BY ONLY <1>1, <3>1, <4>1, SpanProperties
    <3>3. PICK text : text = Span(subject, m.begin, m.end)
      OBVIOUS
    <3>4. text \in Seq(Bytes)
      <4>1. m.begin \in 0..Len(subject) /\ m.end \in m.begin..Len(subject)
        BY ONLY <1>1, <1>3
      <4> QED
        BY ONLY <1>1, <3>3, <4>1, SpanProperties
    <3>5. PICK copied : copied = IF IsSed /\ before # <<>> THEN <<Item("between", before)>> ELSE <<>>
      OBVIOUS
    <3>6. copied \in Seq(Items)
      <4>1. Item("between", before) \in Items
        BY <3>2, ItemType
      <4> QED
        BY <3>5, <4>1, EmptySeq
    <3>7. PICK tokens : tokens = TokensOf(m)
      OBVIOUS
    <3>8. Len(tokens) \in {1, 2} /\ \A i \in 1..Len(tokens) : tokens[i] \in Seq(Bytes)
      BY <3>3, <3>4, <3>7 DEF TokensOf
    <3>9. PICK n \in 1..Len(tokens) :
            output' = output \o copied \o [i \in 1..n |-> Item("token", tokens[i])]
      BY <2>1, <3>1, <3>5, <3>7 DEF CompleteMatch
    <3>10. [i \in 1..n |-> Item("token", tokens[i])] \in Seq(Items)
      <4>1. n \in Nat /\ \A i \in 1..n : tokens[i] \in Seq(Bytes)
        BY <3>8
      <4> QED
        BY <4>1, ItemsOf
    <3>11. output' \in Seq(Items)
      BY <1>1, <3>6, <3>9, <3>10, ConcatProperties
    <3>12. prev_sep_end' = prev_sep_end /\ fragment' = fragment
      BY <2>1 DEF CompleteMatch
    <3> QED
      BY <1>1, <1>3, <2>1, <3>11, <3>12, BufferInOrder
  <2>2. CASE ~IsMatch
    <3>1. /\ output' = Append(output, Item("token", Merged(Span(subject, prev_sep_end, m.begin))))
          /\ fragment' = <<>> /\ prev_sep_end' = m.end
      BY <2>2 DEF CompleteMatch
    <3>2. Span(subject, prev_sep_end, m.begin) \in Seq(Bytes)
      <4>1. prev_sep_end \in 0..Len(subject) /\ m.begin \in prev_sep_end..Len(subject)
        BY ONLY <1>1, <1>3
      <4> QED
        BY ONLY <1>1, <4>1, SpanProperties
    <3>3. Item("token", Merged(Span(subject, prev_sep_end, m.begin))) \in Items
      BY <1>1, <3>2, MergedType, ItemType
    <3>4. output' \in Seq(Items)
      BY <1>1, <3>1, <3>3, AppendProperties
    <3> QED
      BY <1>3, <2>2, <3>1, <3>4, EmptySeq
  <2> QED
    BY <2>1, <2>2
<1>7. TypeOK'
  BY <1>1, <1>2, <1>3, <1>4, <1>5, <1>6 DEF TypeOK
<1>8. BufferBounds'
  <2>1. Len(subject) <= config.buf_size
    BY BufferInOrder
  <2>2. m.end <= Len(subject) /\ prev_sep_end' <= Len(subject) /\ effective <= Len(subject)
    BY ONLY <1>1, <1>3, <1>6
  <2> QED
    BY <1>2, <1>5, <2>1, <2>2 DEF BufferBounds
<1>9. OffsetsSeen'
  <2>1. (EffectiveEnd(subject, input_done))' = EffectiveEnd(subject, input_done)
    BY <1>2 DEF EffectiveEnd, IsUtf
  <2>2. effective = EffectiveEnd(subject, input_done) /\ effective # NoPosition
    BY DEF Inv, OffsetsSeen
  <2>3. prev_sep_end' <= m.end /\ m.end <= effective
    BY ONLY <1>1, <1>3, <1>6
  <2> QED
    BY <1>2, <1>5, <2>1, <2>2, <2>3 DEF OffsetsSeen
<1>10. InputSeen'
  BY <1>2, <1>5 DEF Inv, InputSeen
<1>11. MatchesStandAlone'
  BY <1>2, <1>6 DEF MatchesStandAlone, IsMatch
<1> QED
  BY <1>1, <1>2, <1>7, <1>8, <1>9, <1>10, <1>11 DEF Inv

(* What every way to make room comes to: the first k bytes go.             *)
LEMMA ShiftKeeps ==
  ASSUME Inv, phase = "matching", ~input_done,
         NEW k \in 0..Len(subject), k # 0 \/ Len(subject) # config.buf_size,
         subject' = Span(subject, k, Len(subject)),
         match_offset' \in 0..Len(subject) - k,
         match_offset' = 0 \/ (k <= effective /\ match_offset' <= effective - k),
         prev_sep_end' \in 0..match_offset',
         IsMatch => prev_sep_end' = 0 /\ fragment' = <<>>,
         fragment' \in Seq(Bytes), output' \in Seq(Items),
         phase' = "reading", UNCHANGED <<config, input, reading, notempty>>
  PROVE  Inv'
<1>1. /\ subject \in Seq(Bytes) /\ Len(subject) \in Nat
      /\ effective \in 0..Len(subject)
      /\ Len(subject) <= config.buf_size /\ config.buf_size \in Nat
      /\ effective = EffectiveEnd(subject, input_done)
      /\ effective # NoPosition
  BY BufferInOrder DEF Inv, OffsetsSeen
<1>2. TypeOK /\ config \in Configs
  BY DEF Inv
<1>3. /\ config' = config /\ input' = input /\ position' = position
      /\ input_done' = input_done /\ effective' = effective /\ notempty' = notempty
  BY DEF reading
<1>4. subject' \in Seq(Bytes) /\ Len(subject') = Len(subject) - k
  <2>1. Len(subject) \in k..Len(subject)
    BY ONLY <1>1, k \in 0..Len(subject)
  <2> QED
    BY ONLY <1>1, <2>1, k \in 0..Len(subject), subject' = Span(subject, k, Len(subject)),
            SpanProperties
<1>5. match_offset' \in Nat /\ prev_sep_end' \in Nat /\ prev_sep_end' <= match_offset'
  BY <1>1
<1>6. TypeOK'
  BY <1>2, <1>3, <1>4, <1>5 DEF TypeOK
<1>7. BufferBounds'
  <2>1. /\ Len(subject') < config.buf_size /\ match_offset' <= Len(subject')
        /\ prev_sep_end' <= Len(subject')
    BY <1>1, <1>4, <1>5
  <2> QED
    BY <1>1, <1>3, <2>1, <1>4 DEF BufferBounds
<1>8. OffsetsSeen'
  <2> SUFFICES ASSUME NEW t \in Seq(Bytes), NEW done \in BOOLEAN,
                      EffectiveEnd(subject' \o t, done) # NoPosition
               PROVE  match_offset' <= EffectiveEnd(subject' \o t, done)
    <3>1. \A t, done : (EffectiveEnd(subject, done))' = EffectiveEnd(subject', done)
      BY <1>3 DEF EffectiveEnd, IsUtf
    <3> QED
      BY <1>3, <1>5 DEF OffsetsSeen, EffectiveEnd, IsUtf
  <2>1. PICK g : g = EffectiveEnd(subject' \o t, done)
    OBVIOUS
  <2>2. subject' \o t \in Seq(Bytes)
    BY <1>4, ConcatProperties
  <2>3. g \in Nat
    <3>1. g \in 0..Len(subject' \o t)
      BY ONLY <2>1, <2>2, EffectiveEnd(subject' \o t, done) # NoPosition, done \in BOOLEAN,
              EffectiveBounds
    <3> QED
      BY ONLY <2>2, <3>1, LenProperties
  <2>4. CASE match_offset' = 0
    BY <2>1, <2>3, <2>4
  <2>5. CASE k <= effective /\ match_offset' <= effective - k
    <3>1. k \in 0..effective /\ effective = EffectiveEnd(subject, FALSE)
      <4>1. input_done = FALSE
        BY BufferInOrder
      <4>2. k \in 0..effective
        BY ONLY <1>1, <2>5, k \in 0..Len(subject)
      <4> QED
        BY <1>1, <4>1, <4>2
    <3>2. effective - k <= g
      BY ONLY <1>1, <2>1, <3>1, t \in Seq(Bytes), done \in BOOLEAN,
              EffectiveEnd(subject' \o t, done) # NoPosition,
              subject' = Span(subject, k, Len(subject)), EffectiveGrows
    <3>3. /\ effective \in Int /\ k \in Int /\ g \in Int /\ match_offset' \in Int
          /\ match_offset' <= effective - k
      BY <1>1, <1>5, <2>3, <2>5
    <3>4. match_offset' <= g
      BY ONLY <3>2, <3>3
    <3> QED
      BY <2>1, <3>4
  <2> QED
    BY <2>4, <2>5
<1>9. InputSeen'
  BY <1>3 DEF Inv, InputSeen
<1>10. MatchesStandAlone'
  BY <1>3 DEF MatchesStandAlone, IsMatch
<1> QED
  BY <1>2, <1>3, <1>6, <1>7, <1>8, <1>9, <1>10 DEF Inv

LEMMA MakeRoomKeeps ==
  ASSUME Inv, phase = "matching", NEW m, InBuffer(m), MakeRoom(m)
  PROVE  Inv'
<1>1. /\ NeedsInput(m) /\ ~IsFull(m) /\ ~input_done
      /\ subject' = Span(subject, Kept(m), Len(subject))
      /\ match_offset' = ScanEnd(m) - Kept(m)
      /\ prev_sep_end' = IF IsMatch THEN prev_sep_end ELSE prev_sep_end - Kept(m)
      /\ output' = output \o SedUpTo(match_offset, ScanEnd(m))
      /\ phase' = "reading" /\ fragment' = fragment
      /\ UNCHANGED <<config, input, reading, notempty>>
  BY DEF MakeRoom, NeedsInput
<1>2. /\ Len(subject) \in Nat /\ effective \in 0..Len(subject)
      /\ match_offset \in 0..effective /\ prev_sep_end \in 0..match_offset
      /\ IsMatch => prev_sep_end = 0 /\ fragment = <<>>
  BY BufferInOrder
<1>3. PICK scan, kept : scan = ScanEnd(m) /\ kept = Kept(m)
  OBVIOUS
<1>4. /\ scan \in match_offset..effective /\ kept \in 0..scan
      /\ ~IsMatch => kept <= prev_sep_end
  <2>1. /\ scan \in match_offset..effective /\ RetainMarker(m) \in 0..scan
        /\ kept \in 0..RetainMarker(m) /\ (~IsMatch => kept <= prev_sep_end)
    BY <1>1, <1>3, KeptBounds
  <2> QED
    BY ONLY <1>2, <2>1
<1>5. /\ kept \in 0..Len(subject) /\ kept <= effective
      /\ match_offset' \in 0..Len(subject) - kept /\ match_offset' <= effective - kept
  BY ONLY <1>1, <1>2, <1>3, <1>4
<1>6. prev_sep_end' \in 0..match_offset' /\ (IsMatch => prev_sep_end' = 0)
  BY ONLY <1>1, <1>2, <1>3, <1>4
<1>7. kept # 0 \/ Len(subject) # config.buf_size
  BY <1>1, <1>3 DEF IsFull
<1>8. fragment' \in Seq(Bytes) /\ output' \in Seq(Items)
  <2>1. match_offset \in 0..Len(subject) /\ scan \in 0..Len(subject)
    BY ONLY <1>2, <1>4
  <2>2. SedUpTo(match_offset, scan) \in Seq(Items)
    BY <2>1, SedUpToType DEF Inv
  <2> QED
    BY <1>1, <1>3, <2>2, ConcatProperties DEF Inv, TypeOK
<1> QED
  BY <1>1, <1>2, <1>3, <1>5, <1>6, <1>7, <1>8, ShiftKeeps

(* The whole buffer, or all but an incomplete character, is cleared.       *)
LEMMA ClearedBounds ==
  ASSUME Inv, phase = "matching"
  PROVE  /\ ClearedUpTo \in effective..Len(subject)
         /\ Len(subject) # 0 => ClearedUpTo # 0
<1>1. Len(subject) \in Nat /\ effective \in 0..Len(subject)
  BY BufferInOrder
<1> QED
  BY <1>1 DEF ClearedUpTo

LEMMA ClearBufferKeeps ==
  ASSUME Inv, phase = "matching", NEW m, InBuffer(m), ClearBuffer(m)
  PROVE  Inv'
<1>1. /\ NeedsInput(m) /\ IsFull(m) /\ ~input_done
      /\ subject' = Span(subject, ClearedUpTo, Len(subject))
      /\ output' = output \o SedUpTo(match_offset, ScanEnd(m)) \o SedUpTo(ScanEnd(m), ClearedUpTo)
      /\ match_offset' = 0 /\ prev_sep_end' = prev_sep_end /\ IsMatch
      /\ phase' = "reading" /\ fragment' = fragment
      /\ UNCHANGED <<config, input, reading, notempty>>
  BY DEF ClearBuffer, NeedsInput, Cleared
<1>2. /\ Len(subject) \in Nat /\ effective \in 0..Len(subject)
      /\ match_offset \in 0..effective
      /\ config.buf_size \in Nat \ {0}
      /\ prev_sep_end = 0 /\ fragment = <<>>
  BY <1>1, BufferInOrder
<1>3. Len(subject) = config.buf_size
  BY <1>1 DEF IsFull
<1>4. ClearedUpTo \in 0..Len(subject) /\ ClearedUpTo # 0
  BY <1>2, <1>3, ClearedBounds
<1>5. fragment' \in Seq(Bytes) /\ output' \in Seq(Items)
  <2>1. ScanEnd(m) \in match_offset..effective
    BY <1>1, KeptBounds
  <2>2. match_offset \in 0..Len(subject) /\ ScanEnd(m) \in 0..Len(subject)
    BY ONLY <1>2, <2>1
  <2>3. /\ SedUpTo(match_offset, ScanEnd(m)) \in Seq(Items)
        /\ SedUpTo(ScanEnd(m), ClearedUpTo) \in Seq(Items)
    BY <1>4, <2>2, SedUpToType DEF Inv
  <2> QED
    BY <1>1, <2>3, ConcatProperties DEF Inv, TypeOK
<1>6. 0 \in 0..Len(subject) - ClearedUpTo /\ 0 \in 0..0
  BY ONLY <1>2, <1>4
<1> QED
  BY <1>1, <1>2, <1>4, <1>5, <1>6, ShiftKeeps

LEMMA ProcessFragmentType ==
  ASSUME TypeOK, NEW text \in Seq(Bytes), ProcessFragment(text)
  PROVE  fragment' \in Seq(Bytes) /\ output' \in Seq(Items)
<1>1. fragment \in Seq(Bytes) /\ output \in Seq(Items)
  BY DEF TypeOK
<1>2. Item("fragment", text) \in Items
  BY ItemType
<1>3. fragment \o text \in Seq(Bytes) /\ <<>> \in Seq(Bytes)
      /\ Append(output, Item("fragment", text)) \in Seq(Items)
  BY <1>1, <1>2, ConcatProperties, AppendProperties, EmptySeq
<1> QED
  BY <1>1, <1>3 DEF ProcessFragment

LEMMA FragmentAllKeeps ==
  ASSUME Inv, phase = "matching", NEW m, InBuffer(m), FragmentAll(m)
  PROVE  Inv'
<1>1. /\ IsFull(m) /\ ~input_done
      /\ subject' = Span(subject, ClearedUpTo, Len(subject))
      /\ ProcessFragment(Span(subject, prev_sep_end, effective))
      /\ match_offset' = 0 /\ prev_sep_end' = 0 /\ ~IsMatch
      /\ phase' = "reading"
      /\ UNCHANGED <<config, input, reading, notempty>>
  BY DEF FragmentAll, NeedsInput, Cleared
<1>2. /\ Len(subject) \in Nat /\ effective \in 0..Len(subject) /\ subject \in Seq(Bytes)
      /\ prev_sep_end \in 0..match_offset /\ match_offset \in 0..effective
      /\ config.buf_size \in Nat \ {0}
  BY BufferInOrder
<1>3. Len(subject) = config.buf_size
  BY <1>1 DEF IsFull
<1>4. ClearedUpTo \in 0..Len(subject) /\ ClearedUpTo # 0
  BY <1>2, <1>3, ClearedBounds
<1>5. fragment' \in Seq(Bytes) /\ output' \in Seq(Items)
  <2>1. prev_sep_end \in 0..Len(subject) /\ effective \in prev_sep_end..Len(subject)
    BY ONLY <1>2
  <2>2. Span(subject, prev_sep_end, effective) \in Seq(Bytes)
    BY ONLY <1>2, <2>1, SpanProperties
  <2> QED
    BY <1>1, <2>2, ProcessFragmentType DEF Inv
<1>6. 0 \in 0..Len(subject) - ClearedUpTo /\ 0 \in 0..0
  BY ONLY <1>2, <1>4
<1> QED
  BY <1>1, <1>4, <1>5, <1>6, ShiftKeeps

LEMMA FragmentTokenKeeps ==
  ASSUME Inv, phase = "matching", NEW m, InBuffer(m), FragmentToken(m)
  PROVE  Inv'
<1>1. /\ NeedsInput(m) /\ ~input_done
      /\ subject' = Span(subject, RetainMarker(m), Len(subject))
      /\ ProcessFragment(Span(subject, 0, RetainMarker(m)))
      /\ match_offset' = 0 /\ prev_sep_end' = 0 /\ ~IsMatch
      /\ RetainMarker(m) # 0 /\ phase' = "reading"
      /\ UNCHANGED <<config, input, reading, notempty>>
  BY DEF FragmentToken, NeedsInput
<1>2. /\ Len(subject) \in Nat /\ effective \in 0..Len(subject) /\ subject \in Seq(Bytes)
      /\ match_offset \in 0..effective
  BY BufferInOrder
<1>3. PICK marker : marker = RetainMarker(m)
  OBVIOUS
<1>4. marker \in 0..Len(subject) /\ 0 \in 0..Len(subject)
  <2>1. ScanEnd(m) \in match_offset..effective /\ marker \in 0..ScanEnd(m)
    BY <1>1, <1>3, KeptBounds
  <2> QED
    BY ONLY <1>2, <2>1
<1>5. fragment' \in Seq(Bytes) /\ output' \in Seq(Items)
  <2>1. Span(subject, 0, marker) \in Seq(Bytes)
    BY ONLY <1>2, <1>4, SpanProperties
  <2> QED
    BY <1>1, <1>3, <2>1, ProcessFragmentType DEF Inv
<1>6. 0 \in 0..Len(subject) - marker /\ 0 \in 0..0
  BY ONLY <1>2, <1>4
<1> QED
  BY <1>1, <1>3, <1>4, <1>5, <1>6, ShiftKeeps

LEMMA EndOfInputKeeps ==
  ASSUME Inv, phase = "matching", NEW m, InBuffer(m), EndOfInput(m)
  PROVE  Inv'
<1>1. /\ input_done /\ phase' = "done"
      /\ output' = IF IsMatch THEN output \o SedUpTo(match_offset, effective)
                   ELSE IF HasLastToken
                   THEN Append(output, Item("token", Merged(Span(subject, prev_sep_end, effective))))
                   ELSE output
      /\ fragment' = IF ~IsMatch /\ HasLastToken THEN <<>> ELSE fragment
      /\ config' = config /\ input' = input /\ subject' = subject
      /\ position' = position /\ input_done' = input_done /\ effective' = effective
      /\ match_offset' = match_offset /\ prev_sep_end' = prev_sep_end /\ notempty' = notempty
  BY DEF EndOfInput, reading
<1>2. /\ Len(subject) \in Nat /\ effective \in 0..Len(subject) /\ subject \in Seq(Bytes)
      /\ prev_sep_end \in 0..match_offset /\ match_offset \in 0..effective
  BY BufferInOrder
<1>3. TypeOK /\ fragment \in Seq(Bytes) /\ output \in Seq(Items)
  BY DEF Inv, TypeOK
<1>4. output' \in Seq(Items) /\ fragment' \in Seq(Bytes)
  <2>1. /\ match_offset \in 0..Len(subject) /\ effective \in 0..Len(subject)
        /\ prev_sep_end \in 0..Len(subject) /\ effective \in prev_sep_end..Len(subject)
    BY ONLY <1>2
  <2>2. SedUpTo(match_offset, effective) \in Seq(Items)
    BY <1>3, <2>1, SedUpToType
  <2>3. Span(subject, prev_sep_end, effective) \in Seq(Bytes)
    BY ONLY <1>2, <2>1, SpanProperties
  <2>4. Item("token", Merged(Span(subject, prev_sep_end, effective))) \in Items
    BY <1>3, <2>3, MergedType, ItemType
  <2> QED
    BY <1>1, <1>3, <2>2, <2>4, ConcatProperties, AppendProperties, EmptySeq
<1>5. TypeOK'
  BY <1>1, <1>3, <1>4 DEF TypeOK
<1>6. BufferBounds'
  BY <1>1 DEF Inv, BufferBounds
<1>7. OffsetsSeen'
  BY <1>1 DEF Inv, OffsetsSeen
<1>8. InputSeen' /\ MatchesStandAlone'
  BY <1>1 DEF Inv, InputSeen, MatchesStandAlone, IsMatch
<1> QED
  BY <1>1, <1>5, <1>6, <1>7, <1>8 DEF Inv

LEMMA UnchangedKeeps == ASSUME Inv, UNCHANGED vars PROVE Inv'
<1>1. TypeOK' /\ BufferBounds'
  BY DEF Inv, vars, TypeOK, BufferBounds
<1>2. InputSeen' /\ MatchesStandAlone'
  BY DEF Inv, vars, InputSeen, MatchesStandAlone, IsMatch
<1>3. OffsetsSeen'
  BY DEF Inv, vars, OffsetsSeen, EffectiveEnd, IsUtf
<1> QED
  BY <1>1, <1>2, <1>3 DEF Inv, vars

LEMMA NextInv == Inv /\ [Next]_vars => Inv'
<1> SUFFICES ASSUME Inv, [Next]_vars PROVE Inv'
  OBVIOUS
<1>1. CASE Read
  BY <1>1, ReadKeeps
<1>2. CASE phase = "matching" /\ \E m \in {Found} : HandleMatch(m)
  <2>1. PICK m : m = Found /\ HandleMatch(m)
    BY <1>2
  <2>2. InBuffer(m)
    BY <1>2, <2>1, FoundInBuffer
  <2> QED
    BY <1>2, <2>1, <2>2, CompleteMatchKeeps, MakeRoomKeeps, ClearBufferKeeps,
       FragmentAllKeeps, FragmentTokenKeeps, EndOfInputKeeps DEF HandleMatch
<1>3. CASE Terminated \/ UNCHANGED vars
  BY <1>3, UnchangedKeeps DEF Terminated
<1> QED
  BY <1>1, <1>2, <1>3 DEF Next

THEOREM Invariance == Spec => []Inv
<1>1. Init => Inv
  BY InitInv
<1> QED
  BY <1>1, NextInv, PTL DEF Spec

(* Every variable of the loop keeps its type.                              *)
THEOREM TypeCorrect == Spec => []TypeOK
<1>1. Inv => TypeOK
  BY DEF Inv
<1> QED
  BY <1>1, Invariance, PTL

(* No offset leaves the bytes that the buffer holds, the buffer does not   *)
(* overflow, and there is room in it before every read, so that the loop   *)
(* never turns without reading: whatever the pattern needs to look back at *)
(* and however small the buffer is.                                        *)
THEOREM StaysInBuffer == Spec => []BufferBounds
<1>1. Inv => BufferBounds
  BY DEF Inv
<1> QED
  BY <1>1, Invariance, PTL

-------------------------------------------------------------------------------
(* What --sed writes.                                                      *)

Written(items) == FlattenSeq([i \in DOMAIN items |-> items[i].text])

LEMMA TextsOf ==
  ASSUME NEW items \in Seq(Items)
  PROVE  [i \in DOMAIN items |-> items[i].text] \in Seq(Seq(Bytes))
<1>1. \A i \in 1..Len(items) : items[i] \in Items
  BY ElementOfSeq
<1>2. \A i \in 1..Len(items) : items[i].text \in Seq(Bytes)
  BY <1>1 DEF Items
<1>3. DOMAIN items = 1..Len(items) /\ Len(items) \in Nat
  BY LenProperties
<1> QED
  BY <1>2, <1>3

LEMMA WrittenType == ASSUME NEW items \in Seq(Items) PROVE Written(items) \in Seq(Bytes)
  BY TextsOf, FlattenSeqType DEF Written

LEMMA WrittenAppend ==
  ASSUME NEW items \in Seq(Items), NEW item \in Items
  PROVE  Written(Append(items, item)) = Written(items) \o item.text
<1> DEFINE texts == [i \in DOMAIN items |-> items[i].text]
<1>1. PICK all : all = Append(items, item)
  OBVIOUS
<1>2. /\ all \in Seq(Items) /\ Len(all) = Len(items) + 1
      /\ \A i \in 1..Len(items) : all[i] = items[i]
      /\ all[Len(items) + 1] = item
      /\ Len(items) \in Nat
      /\ DOMAIN all = 1..Len(items) + 1 /\ DOMAIN items = 1..Len(items)
  <2>1. /\ all \in Seq(Items) /\ Len(all) = Len(items) + 1
        /\ \A i \in 1..Len(items) : all[i] = items[i]
        /\ all[Len(items) + 1] = item
    BY <1>1, AppendProperties
  <2> QED
    BY <2>1, LenProperties
<1>3. texts \in Seq(Seq(Bytes)) /\ Len(texts) = Len(items)
  <2>1. texts \in Seq(Seq(Bytes))
    BY TextsOf
  <2>2. DOMAIN texts = 1..Len(items)
    BY <1>2
  <2>3. Len(texts) \in Nat /\ DOMAIN texts = 1..Len(texts)
    <3> HIDE DEF texts
    <3> QED
      BY <2>1, LenProperties
  <2>4. Len(texts) = Len(items)
    BY ONLY <1>2, <2>2, <2>3
  <2> QED
    BY <2>1, <2>4
<1>4. item.text \in Seq(Bytes)
  BY DEF Items
<1>5. [i \in DOMAIN all |-> all[i].text] = Append(texts, item.text)
  <2>1. PICK longer : longer = [i \in DOMAIN all |-> all[i].text]
    OBVIOUS
  <2>2. longer \in Seq(Seq(Bytes)) /\ Len(longer) = Len(items) + 1
    BY <1>2, <2>1, TextsOf
  <2>3. PICK other : other = Append(texts, item.text)
    OBVIOUS
  <2>4. /\ other \in Seq(Seq(Bytes)) /\ Len(other) = Len(texts) + 1
        /\ \A i \in 1..Len(texts) : other[i] = texts[i]
        /\ other[Len(texts) + 1] = item.text
    <3> HIDE DEF texts
    <3> QED
      BY <1>3, <1>4, <2>3, AppendProperties
  <2>5. \A i \in 1..Len(items) + 1 : longer[i] = other[i]
    <3> SUFFICES ASSUME NEW i \in 1..Len(items) + 1 PROVE longer[i] = other[i]
      OBVIOUS
    <3>1. longer[i] = all[i].text
      BY <1>2, <2>1
    <3>2. CASE i = Len(items) + 1
      BY <1>2, <1>3, <2>4, <3>1, <3>2
    <3>3. CASE i # Len(items) + 1
      <4>1. i \in 1..Len(items)
        BY <1>2, <3>3
      <4>2. texts[i] = items[i].text
        BY <1>2, <4>1
      <4> QED
        BY <1>2, <1>3, <2>4, <3>1, <4>1, <4>2
    <3> QED
      BY <3>2, <3>3
  <2>6. longer = other
    BY ONLY <1>3, <2>2, <2>4, <2>5, SeqEqual
  <2> QED
    BY <2>1, <2>3, <2>6
<1>6. FlattenSeq(Append(texts, item.text)) = FlattenSeq(texts) \o item.text
  <2> HIDE DEF texts
  <2> QED
    BY <1>3, <1>4, FlattenSeqAppend
<1> QED
  BY <1>1, <1>5, <1>6 DEF Written

LEMMA WrittenSedUpTo ==
  ASSUME TypeOK, IsSed, NEW items \in Seq(Items),
         NEW from \in 0..Len(subject), NEW to \in from..Len(subject)
  PROVE  Written(items \o SedUpTo(from, to)) = Written(items) \o Span(subject, from, to)
<1>1. subject \in Seq(Bytes) /\ Len(subject) \in Nat /\ Written(items) \in Seq(Bytes)
  BY LenProperties, WrittenType DEF TypeOK
<1>2. CASE from = to
  <2>1. SedUpTo(from, to) = <<>>
    BY <1>1, <1>2 DEF SedUpTo
  <2>2. Span(subject, from, to) = <<>>
    BY <1>1, <1>2, SpanEmpty
  <2> QED
    BY <1>1, <2>1, <2>2, ConcatEmptySeq
<1>3. CASE from # to
  <2>1. from < to
    BY ONLY <1>1, <1>3, from \in 0..Len(subject), to \in from..Len(subject)
  <2>2. PICK item : item = Item("between", Span(subject, from, to))
    OBVIOUS
  <2>3. Span(subject, from, to) \in Seq(Bytes)
    BY ONLY <1>1, from \in 0..Len(subject), to \in from..Len(subject), SpanProperties
  <2>4. item \in Items /\ item.text = Span(subject, from, to)
    BY <2>2, <2>3, ItemType DEF Item
  <2>5. SedUpTo(from, to) = <<item>>
    BY <2>1, <2>2 DEF SedUpTo
  <2>6. items \o <<item>> = Append(items, item)
    BY <2>4, AppendIsConcat
  <2> QED
    BY <2>4, <2>5, <2>6, WrittenAppend
<1> QED
  BY <1>2, <1>3

LEMMA BytesAssociative ==
  \A s, t, u \in Seq(Bytes) : (s \o t) \o u = s \o (t \o u)
<1> SUFFICES ASSUME NEW s \in Seq(Bytes), NEW t \in Seq(Bytes), NEW u \in Seq(Bytes)
             PROVE  (s \o t) \o u = s \o (t \o u)
  OBVIOUS
<1> QED
  BY ConcatAssociative

(* The written is the input up to match_offset.                            *)
Copied ==
  Written(output) \o Span(subject, match_offset, Len(subject)) = Span(input, 0, position)

LEMMA CopiedIs ==
  SedCopiesInput <=> (IsSed => IF phase = "done" THEN Written(output) = input ELSE Copied)
  BY DEF SedCopiesInput, Written, Copied, Span

(* Once to has been written, and the buffer begins at k, what is written   *)
(* and what is left is still all that was read.                            *)
LEMMA CopiedOn ==
  ASSUME Inv, phase = "matching", IsSed, Copied,
         NEW to \in match_offset..Len(subject), NEW k \in 0..to,
         Written(output') = Written(output) \o Span(subject, match_offset, to),
         subject' = Span(subject, k, Len(subject)), match_offset' = to - k,
         input' = input, position' = position
  PROVE  Copied'
<1>1. /\ subject \in Seq(Bytes) /\ Len(subject) \in Nat
      /\ match_offset \in 0..Len(subject) /\ Written(output) \in Seq(Bytes)
  <2>1. effective \in 0..Len(subject) /\ match_offset \in 0..effective /\ Len(subject) \in Nat
    BY BufferInOrder
  <2>2. match_offset \in 0..Len(subject)
    BY ONLY <2>1
  <2> QED
    BY <2>1, <2>2, BufferInOrder, WrittenType DEF Inv, TypeOK
<1>2. to \in 0..Len(subject) /\ k \in 0..Len(subject) /\ Len(subject) \in to..Len(subject)
  BY ONLY <1>1, to \in match_offset..Len(subject), k \in 0..to
<1>3. PICK done, left : /\ done = Span(subject, match_offset, to)
                        /\ left = Span(subject, to, Len(subject))
  OBVIOUS
<1>4. /\ done \in Seq(Bytes) /\ left \in Seq(Bytes)
      /\ done \o left = Span(subject, match_offset, Len(subject))
  <2>1. done \in Seq(Bytes)
    BY ONLY <1>1, <1>3, to \in match_offset..Len(subject), SpanProperties
  <2>2. left \in Seq(Bytes)
    BY ONLY <1>1, <1>2, <1>3, SpanProperties
  <2>3. done \o left = Span(subject, match_offset, Len(subject))
    BY ONLY <1>1, <1>2, <1>3, to \in match_offset..Len(subject), SpansAdjacent
  <2> QED
    BY <2>1, <2>2, <2>3
<1>5. Span(subject', match_offset', Len(subject')) = left
  <2>1. to \in k..Len(subject) /\ Len(subject) \in to..Len(subject) /\ Len(subject) \in k..Len(subject)
    BY ONLY <1>1, <1>2, k \in 0..to
  <2>2. Span(Span(subject, k, Len(subject)), to - k, Len(subject) - k) = left
    BY ONLY <1>1, <1>2, <1>3, <2>1, SpanOfShifted
  <2>3. Len(subject') = Len(subject) - k
    BY ONLY <1>1, <1>2, <2>1, subject' = Span(subject, k, Len(subject)), SpanProperties
  <2> QED
    BY <2>2, <2>3
<1>6. (Written(output) \o done) \o left = Written(output) \o (done \o left)
  BY ONLY <1>1, <1>4, BytesAssociative
<1>7. Written(output') \o Span(subject', match_offset', Len(subject')) = Span(input', 0, position')
  BY <1>3, <1>4, <1>5, <1>6 DEF Copied
<1> QED
  BY <1>7 DEF Copied, Written, Span

LEMMA ReadCopies == ASSUME Inv, IsSed, Read, Copied PROVE Copied'
<1>1. TypeOK /\ BufferBounds /\ phase = "reading" /\ ~input_done
  BY DEF Inv, InputSeen, Read
<1>2. PICK n : /\ n \in BytesRead(Smaller(config.bytes_to_read, config.buf_size - Len(subject)))
               /\ subject' = subject \o Span(input, position, position + n)
               /\ position' = position + n
  BY DEF Read
<1>3. position' \in position..Len(input)
  BY ONLY <1>1, <1>2, ReadBounds
<1>4. /\ input \in Seq(Bytes) /\ Len(input) \in Nat /\ position \in 0..Len(input)
      /\ subject \in Seq(Bytes) /\ Len(subject) \in Nat
      /\ match_offset \in 0..Len(subject)
      /\ Written(output) \in Seq(Bytes)
  BY <1>1, LenProperties, WrittenType DEF TypeOK, BufferBounds
<1>5. PICK read, left : /\ read = Span(input, position, position')
                        /\ left = Span(subject, match_offset, Len(subject))
  OBVIOUS
<1>6. read \in Seq(Bytes) /\ left \in Seq(Bytes)
  <2>1. read \in Seq(Bytes)
    BY ONLY <1>3, <1>4, <1>5, SpanProperties
  <2>2. Len(subject) \in match_offset..Len(subject)
    BY ONLY <1>4
  <2>3. left \in Seq(Bytes)
    BY ONLY <1>4, <1>5, <2>2, SpanProperties
  <2> QED
    BY <2>1, <2>3
<1>7. Span(subject', match_offset, Len(subject')) = left \o read
  <2>1. subject' = subject \o read
    BY <1>2, <1>5
  <2> QED
    BY ONLY <1>4, <1>5, <1>6, <2>1, SpanOfExtended
<1>8. Span(input, 0, position) \o read = Span(input, 0, position')
  <2>1. 0 \in 0..Len(input) /\ position \in 0..Len(input)
    BY ONLY <1>4
  <2> QED
    BY ONLY <1>3, <1>4, <1>5, <2>1, SpansAdjacent
<1>9. Written(output) \o (left \o read) = (Written(output) \o left) \o read
  BY ONLY <1>4, <1>6, BytesAssociative
<1>10. Written(output) \o left = Span(input, 0, position)
  BY <1>5 DEF Copied
<1>11. input' = input /\ match_offset' = match_offset /\ output' = output
  BY DEF Read
<1>12. Written(output') \o Span(subject', match_offset', Len(subject')) = Span(input', 0, position')
  BY <1>7, <1>8, <1>9, <1>10, <1>11
<1> QED
  BY <1>12 DEF Copied, Written, Span

LEMMA CompleteMatchCopies ==
  ASSUME Inv, phase = "matching", IsSed, Copied, NEW m, InBuffer(m), CompleteMatch(m)
  PROVE  Copied'
<1>1. /\ subject \in Seq(Bytes) /\ Len(subject) \in Nat
      /\ effective \in 0..Len(subject) /\ match_offset \in 0..effective
      /\ TypeOK /\ output \in Seq(Items) /\ Written(output) \in Seq(Bytes)
  BY BufferInOrder, WrittenType DEF Inv, TypeOK
<1>2. IsMatch /\ m.kind = "complete" /\ config.mode = "sed"
  BY DEF CompleteMatch, IsSed, IsMatch
<1>3. /\ m.begin \in match_offset..Len(subject) /\ m.end \in m.begin..Len(subject)
      /\ match_offset \in 0..Len(subject)
  <2>1. /\ m.begin \in Nat /\ m.end \in Nat /\ match_offset <= m.begin
        /\ m.begin \in prev_sep_end..effective /\ m.end \in m.begin..effective
    BY <1>2 DEF InBuffer, MatchResults
  <2> QED
    BY ONLY <1>1, <2>1
<1>4. PICK before, text : /\ before = Span(subject, match_offset, m.begin)
                          /\ text = Span(subject, m.begin, m.end)
  OBVIOUS
<1>5. /\ before \in Seq(Bytes) /\ text \in Seq(Bytes)
      /\ before \o text = Span(subject, match_offset, m.end)
  <2>1. m.begin \in 0..Len(subject) /\ m.end \in match_offset..Len(subject)
    BY ONLY <1>1, <1>3
  <2>2. before \in Seq(Bytes)
    BY ONLY <1>1, <1>3, <1>4, SpanProperties
  <2>3. text \in Seq(Bytes)
    BY ONLY <1>1, <1>3, <1>4, <2>1, SpanProperties
  <2>4. before \o text = Span(subject, match_offset, m.end)
    BY ONLY <1>1, <1>3, <1>4, <2>1, SpansAdjacent
  <2> QED
    BY <2>2, <2>3, <2>4
<1>6. PICK copied : copied = IF before # <<>> THEN <<Item("between", before)>> ELSE <<>>
  OBVIOUS
<1>7. output' = output \o copied \o <<Item("token", text)>>
  <2>1. TokensOf(m) = <<text>>
    BY <1>2, <1>4 DEF TokensOf
  <2>2. PICK n \in 1..1 : output' = output \o copied \o [i \in 1..n |-> Item("token", <<text>>[i])]
    BY <1>2, <1>4, <1>6, <2>1 DEF CompleteMatch
  <2>3. [i \in 1..n |-> Item("token", <<text>>[i])] = <<Item("token", text)>>
    <3>1. n = 1
      OBVIOUS
    <3> QED
      BY <3>1
  <2> QED
    BY <2>2, <2>3
<1>8. output \o copied \in Seq(Items) /\ Written(output \o copied) = Written(output) \o before
  <2>1. /\ Item("between", before) \in Items /\ Item("between", before).text = before
    BY <1>5, ItemType DEF Item
  <2>2. CASE before = <<>>
    <3>1. output \o <<>> = output /\ Written(output) \o <<>> = Written(output)
      BY <1>1, ConcatEmptySeq
    <3>2. copied = <<>> /\ output \in Seq(Items)
      BY <1>1, <1>6, <2>2
    <3> QED
      BY ONLY <2>2, <3>1, <3>2
  <2>3. CASE before # <<>>
    <3>1. output \o copied = Append(output, Item("between", before))
      BY <1>1, <1>6, <2>1, <2>3, AppendIsConcat
    <3>2. PICK item : item = Item("between", before)
      OBVIOUS
    <3>3. output \in Seq(Items) /\ item \in Items /\ item.text = before
      BY <1>1, <2>1, <3>2
    <3>4. Written(Append(output, item)) = Written(output) \o before
      BY ONLY <3>3, WrittenAppend
    <3>5. Append(output, item) \in Seq(Items)
      BY ONLY <3>3, AppendProperties
    <3> QED
      BY <3>1, <3>2, <3>4, <3>5
  <2> QED
    BY <2>2, <2>3
<1>9. Written(output') = Written(output) \o Span(subject, match_offset, m.end)
  <2>1. Item("token", text) \in Items /\ Item("token", text).text = text
    BY <1>5, ItemType DEF Item
  <2>2. output' = Append(output \o copied, Item("token", text))
    BY <1>7, <1>8, <2>1, AppendIsConcat
  <2>3. Written(output') = (Written(output) \o before) \o text
    BY <1>8, <2>1, <2>2, WrittenAppend
  <2>4. (Written(output) \o before) \o text = Written(output) \o (before \o text)
    BY ONLY <1>1, <1>5, BytesAssociative
  <2> QED
    BY ONLY <1>5, <2>3, <2>4
<1>10. /\ subject' = Span(subject, 0, Len(subject)) /\ match_offset' = m.end - 0
       /\ input' = input /\ position' = position
  <2>1. subject' = subject /\ match_offset' = m.end /\ input' = input /\ position' = position
    BY DEF CompleteMatch, reading
  <2> QED
    BY <1>1, <1>3, <2>1, SpanFull
<1>11. m.end \in match_offset..Len(subject) /\ 0 \in 0..m.end
  BY ONLY <1>1, <1>3
<1> QED
  BY ONLY <1>9, <1>10, <1>11, Inv, phase = "matching", IsSed, Copied, CopiedOn

LEMMA MakeRoomCopies ==
  ASSUME Inv, phase = "matching", IsSed, Copied, NEW m, InBuffer(m), MakeRoom(m)
  PROVE  Copied'
<1>1. /\ NeedsInput(m)
      /\ subject' = Span(subject, Kept(m), Len(subject))
      /\ match_offset' = ScanEnd(m) - Kept(m)
      /\ output' = output \o SedUpTo(match_offset, ScanEnd(m))
      /\ input' = input /\ position' = position
  BY DEF MakeRoom, reading
<1>2. /\ Len(subject) \in Nat /\ effective \in 0..Len(subject)
      /\ match_offset \in 0..effective
  BY BufferInOrder
<1>3. /\ ScanEnd(m) \in match_offset..effective
      /\ RetainMarker(m) \in 0..ScanEnd(m) /\ Kept(m) \in 0..RetainMarker(m)
  BY <1>1, KeptBounds
<1>4. /\ ScanEnd(m) \in match_offset..Len(subject) /\ match_offset \in 0..Len(subject)
      /\ Kept(m) \in 0..ScanEnd(m)
  BY ONLY <1>2, <1>3
<1>5. Written(output') = Written(output) \o Span(subject, match_offset, ScanEnd(m))
  BY <1>1, <1>4, WrittenSedUpTo DEF Inv, TypeOK
<1> QED
  BY ONLY <1>1, <1>4, <1>5, Inv, phase = "matching", IsSed, Copied, CopiedOn

LEMMA ClearBufferCopies ==
  ASSUME Inv, phase = "matching", IsSed, Copied, NEW m, InBuffer(m), ClearBuffer(m)
  PROVE  Copied'
<1>1. /\ NeedsInput(m)
      /\ subject' = Span(subject, ClearedUpTo, Len(subject))
      /\ match_offset' = 0
      /\ output' = output \o SedUpTo(match_offset, ScanEnd(m)) \o SedUpTo(ScanEnd(m), ClearedUpTo)
      /\ input' = input /\ position' = position
  BY DEF ClearBuffer, Cleared, reading
<1>2. /\ Len(subject) \in Nat /\ effective \in 0..Len(subject) /\ subject \in Seq(Bytes)
      /\ match_offset \in 0..effective
      /\ TypeOK /\ output \in Seq(Items) /\ Written(output) \in Seq(Bytes)
  BY BufferInOrder, WrittenType DEF Inv, TypeOK
<1>3. PICK scan, to : scan = ScanEnd(m) /\ to = ClearedUpTo
  OBVIOUS
<1>4. /\ scan \in match_offset..Len(subject) /\ scan \in 0..Len(subject)
      /\ to \in scan..Len(subject) /\ to \in match_offset..Len(subject)
      /\ match_offset \in 0..Len(subject)
  <2>1. scan \in match_offset..effective /\ to \in effective..Len(subject)
    BY <1>1, <1>3, KeptBounds, ClearedBounds
  <2> QED
    BY ONLY <1>2, <2>1
<1>5. PICK first, second : /\ first = Span(subject, match_offset, scan)
                           /\ second = Span(subject, scan, to)
  OBVIOUS
<1>6. /\ first \in Seq(Bytes) /\ second \in Seq(Bytes)
      /\ first \o second = Span(subject, match_offset, to)
  <2>1. first \in Seq(Bytes)
    BY ONLY <1>2, <1>4, <1>5, SpanProperties
  <2>2. second \in Seq(Bytes)
    BY ONLY <1>2, <1>4, <1>5, SpanProperties
  <2>3. first \o second = Span(subject, match_offset, to)
    BY ONLY <1>2, <1>4, <1>5, SpansAdjacent
  <2> QED
    BY <2>1, <2>2, <2>3
<1>7. Written(output') = Written(output) \o Span(subject, match_offset, to)
  <2>1. PICK items : items = output \o SedUpTo(match_offset, scan)
    OBVIOUS
  <2>2. items \in Seq(Items) /\ Written(items) = Written(output) \o first
    BY <1>2, <1>4, <1>5, <2>1, SedUpToType, WrittenSedUpTo, ConcatProperties
  <2>3. output' = items \o SedUpTo(scan, to)
    BY <1>1, <1>3, <2>1
  <2>4. Written(output') = Written(items) \o second
    BY <1>2, <1>4, <1>5, <2>2, <2>3, WrittenSedUpTo
  <2>5. (Written(output) \o first) \o second = Written(output) \o (first \o second)
    BY ONLY <1>2, <1>6, BytesAssociative
  <2> QED
    BY ONLY <1>6, <2>2, <2>4, <2>5
<1>8. to \in 0..to /\ match_offset' = to - to /\ subject' = Span(subject, to, Len(subject))
  <2>1. to \in Int /\ 0 <= to
    BY ONLY <1>2, <1>4
  <2> QED
    BY <1>1, <1>3, <2>1
<1> QED
  BY ONLY <1>1, <1>4, <1>7, <1>8, Inv, phase = "matching", IsSed, Copied, CopiedOn

LEMMA EndOfInputCopies ==
  ASSUME Inv, phase = "matching", IsSed, Copied, NEW m, EndOfInput(m)
  PROVE  Written(output') = input
<1>1. IsMatch /\ input_done /\ output' = output \o SedUpTo(match_offset, effective)
  BY DEF EndOfInput, IsSed, IsMatch
<1>2. /\ Len(subject) \in Nat /\ effective = Len(subject)
      /\ match_offset \in 0..effective
  BY <1>1, BufferInOrder
<1>3. match_offset \in 0..Len(subject) /\ Len(subject) \in match_offset..Len(subject)
  BY ONLY <1>2
<1>4. Written(output') = Written(output) \o Span(subject, match_offset, Len(subject))
  BY <1>1, <1>2, <1>3, WrittenSedUpTo DEF Inv, TypeOK
<1>5. position = Len(input) /\ input \in Seq(Bytes)
  BY <1>1 DEF Inv, InputSeen, TypeOK
<1>6. Span(input, 0, position) = input
  BY <1>5, SpanFull
<1> QED
  BY <1>4, <1>6 DEF Copied

CopiedInv == Inv /\ SedCopiesInput

LEMMA InitCopied == Init => CopiedInv
<1> SUFFICES ASSUME Init PROVE CopiedInv
  OBVIOUS
<1>1. Inv
  BY InitInv
<1>2. output = <<>> /\ subject = <<>> /\ match_offset = 0 /\ position = 0 /\ phase # "done"
  BY DEF Init
<1>3. Written(<<>>) = <<>>
  <2>1. [i \in DOMAIN <<>> |-> <<>>[i].text] = <<>>
    OBVIOUS
  <2> QED
    BY <2>1 DEF Written, FlattenSeq
<1>4. Span(<<>>, 0, 0) = <<>> /\ Span(input, 0, 0) = <<>>
  BY SpanEmpty
<1>5. <<>> \o <<>> = <<>> /\ Len(<<>>) = 0
  OBVIOUS
<1>6. Copied
  BY <1>2, <1>3, <1>4, <1>5 DEF Copied
<1> QED
  BY <1>1, <1>2, <1>6, CopiedIs DEF CopiedInv

LEMMA NextCopied == CopiedInv /\ [Next]_vars => CopiedInv'
<1> SUFFICES ASSUME CopiedInv, [Next]_vars PROVE CopiedInv'
  OBVIOUS
<1>1. Inv /\ Inv'
  BY NextInv DEF CopiedInv
<1>2. SedCopiesInput' <=>
        (IsSed' => IF phase' = "done" THEN Written(output') = input' ELSE Copied')
  BY DEF SedCopiesInput, Written, Copied, Span
<1>3. CASE UNCHANGED vars
  BY <1>1, <1>3 DEF CopiedInv, SedCopiesInput, vars, IsSed
<1>4. CASE ~UNCHANGED vars
  <2>1. config' = config /\ input' = input /\ phase \in {"reading", "matching"}
    BY <1>4 DEF Next, Terminated, Read, HandleMatch, CompleteMatch, MakeRoom, ClearBuffer,
                FragmentAll, FragmentToken, EndOfInput
  <2>2. IsSed' = IsSed /\ (IsSed => IsMatch)
    BY <2>1 DEF IsSed, IsMatch
  <2> SUFFICES ASSUME IsSed
               PROVE  IF phase' = "done" THEN Written(output') = input' ELSE Copied'
    BY <1>1, <1>2, <2>2 DEF CopiedInv
  <2>3. Copied
    BY <2>1, CopiedIs DEF CopiedInv
  <2>4. CASE Read
    <3>1. phase' # "done"
      BY <2>4 DEF Read
    <3> QED
      BY <1>1, <2>3, <2>4, <3>1, ReadCopies
  <2>5. CASE phase = "matching" /\ \E m \in {Found} : HandleMatch(m)
    <3>1. PICK m : m = Found /\ HandleMatch(m)
      BY <2>5
    <3>2. InBuffer(m)
      BY <1>1, <2>5, <3>1, FoundInBuffer
    <3>3. CASE CompleteMatch(m)
      <4>1. phase' # "done"
        BY <2>5, <3>3 DEF CompleteMatch, Ended, GoesOn
      <4> QED
        BY <1>1, <2>3, <2>5, <3>2, <3>3, <4>1, CompleteMatchCopies
    <3>4. CASE MakeRoom(m)
      <4>1. phase' # "done"
        BY <3>4 DEF MakeRoom
      <4> QED
        BY <1>1, <2>3, <2>5, <3>2, <3>4, <4>1, MakeRoomCopies
    <3>5. CASE ClearBuffer(m)
      <4>1. phase' # "done"
        BY <3>5 DEF ClearBuffer
      <4> QED
        BY <1>1, <2>3, <2>5, <3>2, <3>5, <4>1, ClearBufferCopies
    <3>6. CASE FragmentAll(m) \/ FragmentToken(m)
      BY <2>2, <3>6 DEF FragmentAll, FragmentToken
    <3>7. CASE EndOfInput(m)
      <4>1. phase' = "done"
        BY <3>7 DEF EndOfInput
      <4> QED
        BY <1>1, <2>1, <2>3, <2>5, <3>7, <4>1, EndOfInputCopies
    <3> QED
      BY <3>1, <3>3, <3>4, <3>5, <3>6, <3>7 DEF HandleMatch
  <2> QED
    BY <1>4, <2>4, <2>5 DEF Next, Terminated
<1> QED
  BY <1>3, <1>4

(* With --sed nothing is lost and nothing is written twice: at every       *)
(* moment what was written, and what the buffer holds from match_offset    *)
(* on, is the input as far as it was read; in the end it is the input.     *)
(* This holds for every pattern, with and without lookbehind, and also     *)
(* when a partial match fills the buffer and is given up as a failure.     *)
THEOREM NothingLostBySed == Spec => []SedCopiesInput
<1>1. CopiedInv => SedCopiesInput
  BY DEF CopiedInv
<1> QED
  BY <1>1, InitCopied, NextCopied, PTL DEF Spec

-------------------------------------------------------------------------------
(* How long a token may be.                                                *)

Limit == IF config.buf_size < config.buf_size_frag THEN config.buf_size_frag ELSE config.buf_size

Limited(items) == \A i \in DOMAIN items : items[i].kind = "token" => Len(items[i].text) <= Limit

LEMMA LimitedConcat ==
  ASSUME NEW s \in Seq(Items), NEW t \in Seq(Items), Limited(s), Limited(t)
  PROVE  Limited(s \o t)
<1>1. /\ Len(s) \in Nat /\ Len(t) \in Nat
      /\ DOMAIN s = 1..Len(s) /\ DOMAIN t = 1..Len(t)
      /\ s \o t \in Seq(Items) /\ Len(s \o t) = Len(s) + Len(t)
      /\ \A i \in 1..Len(s) + Len(t) :
           (s \o t)[i] = IF i <= Len(s) THEN s[i] ELSE t[i - Len(s)]
  BY LenProperties, ConcatProperties
<1>2. DOMAIN (s \o t) = 1..Len(s) + Len(t)
  BY <1>1, LenProperties
<1> SUFFICES ASSUME NEW i \in 1..Len(s) + Len(t), (s \o t)[i].kind = "token"
             PROVE  Len((s \o t)[i].text) <= Limit
  BY <1>2 DEF Limited
<1>3. CASE i <= Len(s)
  <2>1. i \in DOMAIN s /\ (s \o t)[i] = s[i]
    BY <1>1, <1>3
  <2> QED
    BY <2>1 DEF Limited
<1>4. CASE i > Len(s)
  <2>1. i - Len(s) \in DOMAIN t /\ (s \o t)[i] = t[i - Len(s)]
    BY <1>1, <1>4
  <2> QED
    BY <2>1 DEF Limited
<1> QED
  BY <1>1, <1>3, <1>4

LEMMA LimitedAppend ==
  ASSUME NEW s \in Seq(Items), NEW item \in Items, Limited(s),
         item.kind = "token" => Len(item.text) <= Limit
  PROVE  Limited(Append(s, item))
<1>1. Append(s, item) = s \o <<item>> /\ <<item>> \in Seq(Items)
  BY AppendIsConcat
<1>2. Limited(<<item>>)
  BY DEF Limited
<1> QED
  BY <1>1, <1>2, LimitedConcat

LEMMA LimitedSedUpTo ==
  ASSUME NEW from \in Nat, NEW to \in Nat
  PROVE  Limited(SedUpTo(from, to))
  BY DEF Limited, SedUpTo, Item

(* A token put together is limited by the fragment buffer, any other by    *)
(* the match buffer.                                                       *)
LEMMA MergedLimited ==
  ASSUME TypeOK, NEW text \in Seq(Bytes), Len(text) <= config.buf_size
  PROVE  Len(Merged(text)) <= Limit
<1>1. /\ fragment \in Seq(Bytes) /\ Len(fragment) \in Nat /\ Len(text) \in Nat
      /\ config.buf_size \in Nat /\ config.buf_size_frag \in Nat
      /\ Len(fragment \o text) = Len(fragment) + Len(text)
  BY LenProperties, ConcatProperties, ConfigFields DEF TypeOK
<1>2. CASE fragment # <<>>
  <2>1. Merged(text) = <<>> \/ Len(Merged(text)) <= config.buf_size_frag
    BY <1>1, <1>2 DEF Merged
  <2>2. Len(<<>>) = 0
    OBVIOUS
  <2> QED
    BY <1>1, <2>1, <2>2 DEF Limit
<1>3. CASE fragment = <<>>
  <2>1. Merged(text) = text
    BY <1>3, ConcatEmptySeq DEF Merged
  <2> QED
    BY <1>1, <2>1 DEF Limit
<1> QED
  BY <1>2, <1>3

LEMMA CompleteMatchLimited ==
  ASSUME Inv, Limited(output), phase = "matching", NEW m, InBuffer(m), CompleteMatch(m)
  PROVE  Limited(output')
<1>1. /\ subject \in Seq(Bytes) /\ Len(subject) \in Nat
      /\ effective \in 0..Len(subject) /\ prev_sep_end \in 0..match_offset
      /\ match_offset \in 0..effective
      /\ Len(subject) <= config.buf_size /\ config.buf_size \in Nat
      /\ config.buf_size_frag \in Nat
      /\ TypeOK /\ output \in Seq(Items)
  BY BufferInOrder, ConfigFields DEF Inv, TypeOK
<1>2. m.kind = "complete"
  BY DEF CompleteMatch
<1>3. /\ m.begin \in prev_sep_end..effective /\ m.end \in m.begin..effective
      /\ m.begin \in Nat /\ m.end \in Nat
      /\ IsMatch => match_offset <= m.begin
  BY <1>2 DEF InBuffer, MatchResults
<1>4. CASE IsMatch
  <2>1. PICK before, text, tokens : /\ before = Span(subject, match_offset, m.begin)
                                    /\ text = Span(subject, m.begin, m.end)
                                    /\ tokens = TokensOf(m)
    OBVIOUS
  <2>2. PICK copied : copied = IF IsSed /\ before # <<>> THEN <<Item("between", before)>> ELSE <<>>
    OBVIOUS
  <2>3. PICK n \in 1..Len(tokens) :
          output' = output \o copied \o [i \in 1..n |-> Item("token", tokens[i])]
    BY <1>4, <2>1, <2>2 DEF CompleteMatch
  <2>4. text \in Seq(Bytes) /\ Len(text) <= Limit
    <3>1. m.begin \in 0..Len(subject) /\ m.end \in m.begin..Len(subject)
      BY ONLY <1>1, <1>3
    <3>2. text \in Seq(Bytes) /\ Len(text) = m.end - m.begin
      BY ONLY <1>1, <2>1, <3>1, SpanProperties
    <3>3. m.end - m.begin <= config.buf_size
      BY ONLY <1>1, <1>3
    <3> QED
      BY <1>1, <3>2, <3>3 DEF Limit
  <2>5. before \in Seq(Bytes)
    <3>1. match_offset \in 0..Len(subject) /\ m.begin \in match_offset..Len(subject)
      BY ONLY <1>1, <1>3, <1>4
    <3> QED
      BY ONLY <1>1, <2>1, <3>1, SpanProperties
  <2>6. copied \in Seq(Items) /\ Limited(copied)
    <3>1. Item("between", before) \in Items /\ Item("between", before).kind = "between"
      BY <2>5, ItemType DEF Item
    <3> QED
      BY <2>2, <3>1, EmptySeq DEF Limited
  <2>7. Len(tokens) \in {1, 2} /\ \A i \in 1..Len(tokens) : tokens[i] = text
    BY <2>1 DEF TokensOf
  <2>8. PICK items : items = [i \in 1..n |-> Item("token", tokens[i])]
    OBVIOUS
  <2>9. items \in Seq(Items) /\ Limited(items)
    <3>1. n \in Nat /\ \A i \in 1..n : tokens[i] = text
      BY <2>7
    <3>2. items \in Seq(Items)
      BY <2>4, <2>8, <3>1, ItemsOf
    <3>3. \A i \in 1..n : items[i].text = text
      BY <2>8, <3>1 DEF Item
    <3> QED
      BY <2>4, <2>8, <3>2, <3>3 DEF Limited
  <2>10. output \o copied \in Seq(Items) /\ Limited(output \o copied)
    BY <1>1, <2>6, LimitedConcat, ConcatProperties
  <2> QED
    BY <2>3, <2>8, <2>9, <2>10, LimitedConcat
<1>5. CASE ~IsMatch
  <2>1. PICK text : text = Span(subject, prev_sep_end, m.begin)
    OBVIOUS
  <2>2. output' = Append(output, Item("token", Merged(text)))
    BY <1>5, <2>1 DEF CompleteMatch
  <2>3. text \in Seq(Bytes) /\ Len(text) <= config.buf_size
    <3>1. prev_sep_end \in 0..Len(subject) /\ m.begin \in prev_sep_end..Len(subject)
      BY ONLY <1>1, <1>3
    <3>2. text \in Seq(Bytes) /\ Len(text) = m.begin - prev_sep_end
      BY ONLY <1>1, <2>1, <3>1, SpanProperties
    <3>3. m.begin - prev_sep_end <= config.buf_size
      BY ONLY <1>1, <3>1
    <3> QED
      BY <3>2, <3>3
  <2>4. /\ Item("token", Merged(text)) \in Items
        /\ Item("token", Merged(text)).text = Merged(text)
    BY <1>1, <2>3, MergedType, ItemType DEF Item
  <2>5. Len(Merged(text)) <= Limit
    BY <1>1, <2>3, MergedLimited
  <2> QED
    BY <1>1, <2>2, <2>4, <2>5, LimitedAppend
<1> QED
  BY <1>4, <1>5

LEMMA MakeRoomLimited ==
  ASSUME Inv, Limited(output), phase = "matching", NEW m, InBuffer(m),
         MakeRoom(m) \/ ClearBuffer(m)
  PROVE  Limited(output')
<1>1. /\ TypeOK /\ output \in Seq(Items) /\ Len(subject) \in Nat
      /\ effective \in 0..Len(subject) /\ match_offset \in 0..effective
  BY BufferInOrder DEF Inv, TypeOK
<1>2. NeedsInput(m)
  BY DEF MakeRoom, ClearBuffer
<1>3. PICK scan, to : scan = ScanEnd(m) /\ to = ClearedUpTo
  OBVIOUS
<1>4. match_offset \in 0..Len(subject) /\ scan \in 0..Len(subject) /\ to \in 0..Len(subject)
  <2>1. scan \in match_offset..effective /\ to \in effective..Len(subject)
    BY <1>2, <1>3, KeptBounds, ClearedBounds
  <2> QED
    BY ONLY <1>1, <2>1
<1>5. PICK first, second : first = SedUpTo(match_offset, scan) /\ second = SedUpTo(scan, to)
  OBVIOUS
<1>6. first \in Seq(Items) /\ second \in Seq(Items)
  BY <1>1, <1>4, <1>5, SedUpToType
<1>7. Limited(first) /\ Limited(second)
  <2>1. match_offset \in Nat /\ scan \in Nat /\ to \in Nat
    BY ONLY <1>1, <1>4
  <2> QED
    BY <1>5, <2>1, LimitedSedUpTo
<1>8. output' = output \o first \/ output' = (output \o first) \o second
  BY <1>3, <1>5 DEF MakeRoom, ClearBuffer
<1>9. output \o first \in Seq(Items) /\ Limited(output \o first)
  BY <1>1, <1>6, <1>7, ConcatProperties, LimitedConcat
<1> QED
  BY <1>6, <1>7, <1>8, <1>9, LimitedConcat

LEMMA EndOfInputLimited ==
  ASSUME Inv, Limited(output), phase = "matching", NEW m, EndOfInput(m)
  PROVE  Limited(output')
<1>1. /\ subject \in Seq(Bytes) /\ Len(subject) \in Nat
      /\ effective \in 0..Len(subject) /\ prev_sep_end \in 0..match_offset
      /\ match_offset \in 0..effective
      /\ Len(subject) <= config.buf_size /\ config.buf_size \in Nat
      /\ TypeOK /\ output \in Seq(Items)
  BY BufferInOrder DEF Inv, TypeOK
<1>2. /\ match_offset \in 0..Len(subject) /\ prev_sep_end \in 0..Len(subject)
      /\ effective \in prev_sep_end..Len(subject)
      /\ match_offset \in Nat /\ effective \in Nat
  BY ONLY <1>1
<1>3. PICK text, copied : /\ text = Span(subject, prev_sep_end, effective)
                          /\ copied = SedUpTo(match_offset, effective)
  OBVIOUS
<1>4. text \in Seq(Bytes) /\ Len(text) <= config.buf_size
  <2>1. text \in Seq(Bytes) /\ Len(text) = effective - prev_sep_end
    BY ONLY <1>1, <1>2, <1>3, SpanProperties
  <2>2. effective - prev_sep_end <= config.buf_size
    BY ONLY <1>1, <1>2
  <2> QED
    BY <2>1, <2>2
<1>5. copied \in Seq(Items) /\ Limited(copied)
  BY <1>1, <1>2, <1>3, SedUpToType, LimitedSedUpTo
<1>6. /\ Item("token", Merged(text)) \in Items
      /\ Item("token", Merged(text)).text = Merged(text)
  BY <1>1, <1>4, MergedType, ItemType DEF Item
<1>7. Len(Merged(text)) <= Limit
  BY <1>1, <1>4, MergedLimited
<1>8. \/ output' = output \o copied
      \/ output' = Append(output, Item("token", Merged(text)))
      \/ output' = output
  BY <1>3 DEF EndOfInput
<1> QED
  BY <1>1, <1>5, <1>6, <1>7, <1>8, LimitedConcat, LimitedAppend

LimitedInv == Inv /\ TokenSizeLimited

LEMMA NextLimited == LimitedInv /\ [Next]_vars => LimitedInv'
<1> SUFFICES ASSUME LimitedInv, [Next]_vars PROVE LimitedInv'
  OBVIOUS
<1>1. Inv /\ Inv'
  BY NextInv DEF LimitedInv
<1>2. TokenSizeLimited <=> (~config.direct_fragments => Limited(output))
  BY DEF TokenSizeLimited, Limited, Limit
<1>3. TokenSizeLimited' <=> (~config'.direct_fragments => Limited(output)')
  BY DEF TokenSizeLimited, Limited, Limit
<1>4. config' = config
  BY DEF Next, Terminated, Read, HandleMatch, CompleteMatch, MakeRoom, ClearBuffer,
         FragmentAll, FragmentToken, EndOfInput, vars
<1>5. Limited(output)' <=> Limited(output')
  BY <1>4 DEF Limited, Limit
<1> SUFFICES ASSUME ~config.direct_fragments PROVE Limited(output')
  BY <1>1, <1>3, <1>4, <1>5 DEF LimitedInv
<1>6. Limited(output)
  BY <1>2 DEF LimitedInv
<1>7. CASE output' = output
  BY <1>6, <1>7
<1>8. CASE phase = "matching" /\ \E m \in {Found} : HandleMatch(m)
  <2>1. PICK m : m = Found /\ HandleMatch(m)
    BY <1>8
  <2>2. InBuffer(m)
    BY <1>1, <1>8, <2>1, FoundInBuffer
  <2>3. CASE FragmentAll(m) \/ FragmentToken(m)
    <3>1. output' = output
      BY <2>3 DEF FragmentAll, FragmentToken, ProcessFragment
    <3> QED
      BY <1>7, <3>1
  <2> QED
    BY <1>1, <1>6, <1>8, <2>1, <2>2, <2>3, CompleteMatchLimited, MakeRoomLimited,
       EndOfInputLimited DEF HandleMatch
<1> QED
  BY <1>7, <1>8 DEF Next, Terminated, Read, vars

(* A token that is stored or goes through an ordered operation is never    *)
(* longer than the larger of the two buffers, however many fragments it    *)
(* arrives in.                                                             *)
THEOREM TokensNeverTooLong == Spec => []TokenSizeLimited
<1>1. Init => LimitedInv
  <2> SUFFICES ASSUME Init PROVE LimitedInv
    OBVIOUS
  <2>1. Inv /\ output = <<>>
    BY InitInv DEF Init
  <2> QED
    BY <2>1 DEF LimitedInv, TokenSizeLimited
<1>2. LimitedInv => TokenSizeLimited
  BY DEF LimitedInv
<1> QED
  BY <1>1, <1>2, NextLimited, PTL DEF Spec

===============================================================================
