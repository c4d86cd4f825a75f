------------------------------- MODULE TuiProofs ------------------------------
(***************************************************************************)
(* Proofs about Tui for every number of tokens, every sequence of screens  *)
(* and every sequence of keys: the cursor is always on a token inside the  *)
(* window, the window never scrolls past the end, and endwin is called     *)
(* exactly once.                                                           *)
(***************************************************************************)
EXTENDS Tui, SequenceLemmas

(* The scroll border is smaller than the window.                           *)
LEMMA BorderFits ==
  ASSUME NEW rows \in Nat, rows >= 1
  PROVE  ScrollBorder(rows) \in Nat /\ ScrollBorder(rows) < rows
BY SMT DEF ScrollBorder

(* Half the window is inside the window.                                   *)
LEMMA HalfFits ==
  ASSUME NEW rows \in Nat, rows >= 1
  PROVE  rows \div 2 \in Nat /\ rows \div 2 < rows
BY SMT

(* The position is put on a token.                                         *)
LEMMA ConstrainedOnToken ==
  ASSUME NEW n \in Nat, NEW position \in Int, n > 0
  PROVE  Constrained(position, n) \in 0..n - 1
BY SMT DEF Constrained

(* The first correction of the scroll leaves the position on or below the  *)
(* top line, and does not scroll down.                                     *)
LEMMA RaisedAbove ==
  ASSUME NEW rows \in Nat, NEW position \in Nat, NEW scroll \in Nat, rows >= 1
  PROVE  /\ RaisedScroll(position, scroll, rows) \in 0..scroll
         /\ RaisedScroll(position, scroll, rows) <= position
<1> DEFINE border == ScrollBorder(rows)
<1>1. border \in Nat
  BY BorderFits
<1> HIDE DEF border
<1>2. RaisedScroll(position, scroll, rows)
        = LET top == scroll + IF position >= border THEN border ELSE 0
          IN  IF position < top THEN scroll - (top - position) ELSE scroll
  BY DEF RaisedScroll, border
<1>3. CASE position >= border
  BY <1>1, <1>2, <1>3, SMT
<1>4. CASE ~(position >= border)
  BY <1>1, <1>2, <1>4, SMT
<1> QED
  BY <1>3, <1>4

(* The second one brings the position into the window, and scrolls no      *)
(* further than to where the last token is on the last line.               *)
LEMMA LoweredInto ==
  ASSUME NEW rows \in Nat, NEW n \in Nat, NEW position \in 0..n - 1,
         NEW scroll \in Nat, rows >= 1, scroll <= position
  PROVE  LET lowered == LoweredScroll(position, scroll, n, rows)
         IN  /\ lowered \in Nat
             /\ position \in lowered..lowered + rows - 1
             /\ scroll + rows <= n => lowered + rows <= n
             /\ lowered # scroll => lowered + rows <= n
<1> DEFINE border == ScrollBorder(rows)
<1>1. border \in Nat /\ border < rows
  BY BorderFits
<1> HIDE DEF border
<1>2. LoweredScroll(position, scroll, n, rows)
        = LET bottom == scroll + rows - 1 - IF position < n - border THEN border ELSE 0
          IN  IF position > bottom THEN scroll - (bottom - position) ELSE scroll
  BY DEF LoweredScroll, border
<1>3. CASE position < n - border
  BY <1>1, <1>2, <1>3, SMT
<1>4. CASE ~(position < n - border)
  BY <1>1, <1>2, <1>4, SMT
<1> QED
  BY <1>3, <1>4

(* Where the cursor is after a key or a resize.                            *)
Settled(c, n, rows) ==
  /\ c \in Cursors
  /\ n > 0 => IsVisible(c, n, rows)
  /\ n >= rows => c.scroll + rows <= n

(* What is left to apply_constraints: any position, but no scroll beyond   *)
(* the ends.                                                               *)
LEMMA ConstraintsSettle ==
  ASSUME NEW n \in Nat, NEW rows \in Nat, NEW c \in Cursors, rows >= 1,
         n > 0 => c.scroll >= 0,
         n >= rows => c.scroll + rows <= n
  PROVE  Settled(ApplyConstraints(c, n, rows), n, rows)
<1> DEFINE position == Constrained(c.position, n)
           raised == RaisedScroll(position, c.scroll, rows)
           lowered == LoweredScroll(position, raised, n, rows)
<1>1. ApplyConstraints(c, n, rows) = [position |-> position, scroll |-> lowered]
  BY DEF ApplyConstraints
<1>2. c.position \in Int /\ c.scroll \in Int
  BY DEF Cursors
<1>3. position \in Int
  BY <1>2, SMT DEF Constrained
<1>4. CASE n = 0
  <2>1. ScrollBorder(rows) \in Int
    BY BorderFits
  <2> HIDE DEF position
  <2>2. raised \in Int
    BY <1>2, <1>3, <2>1, SMT DEF RaisedScroll
  <2> HIDE DEF raised
  <2>3. lowered \in Int
    BY <1>3, <2>1, <2>2, SMT DEF LoweredScroll
  <2> HIDE DEF lowered
  <2> QED
    BY <1>1, <1>3, <1>4, <2>3, SMT DEF Settled, Cursors
<1>5. CASE n > 0
  <2>1. position \in 0..n - 1
    BY <1>2, <1>5, ConstrainedOnToken
  <2> HIDE DEF position
  <2>2. raised \in 0..c.scroll /\ raised <= position
    BY <1>2, <1>5, <2>1, RaisedAbove
  <2> HIDE DEF raised
  <2>3. raised \in Nat
    BY <1>2, <2>2
  <2>4. /\ lowered \in Nat
        /\ position \in lowered..lowered + rows - 1
        /\ raised + rows <= n => lowered + rows <= n
    BY <2>1, <2>2, <2>3, LoweredInto
  <2> HIDE DEF lowered
  <2> QED
    BY <1>1, <1>2, <1>5, <2>1, <2>2, <2>3, <2>4, SMT DEF Settled, Cursors, IsVisible
<1> QED
  BY <1>4, <1>5

(* A key keeps the cursor settled.                                         *)
LEMMA MovedSettles ==
  ASSUME NEW n \in Nat, NEW rows \in Nat, NEW c, NEW key, rows >= 1,
         Settled(c, n, rows)
  PROVE  Settled(Moved(key, c, n, rows), n, rows)
<1>1. c \in Cursors /\ c.position \in Int /\ c.scroll \in Int
  BY DEF Settled, Cursors
<1>2. rows \div 2 \in Nat /\ rows \div 2 < rows
  BY HalfFits
<1>3. CASE key = "page_up"
  <2>1. Moved(key, c, n, rows) = PageUp(c, rows)
    BY <1>3 DEF Moved
  <2>2. Settled(PageUp(c, rows), n, rows)
    BY <1>1, <1>2, SMT DEF Settled, PageUp, Halfway, Cursors, IsVisible
  <2> QED
    BY <2>1, <2>2
<1>4. CASE key = "page_down"
  <2>1. Moved(key, c, n, rows) = PageDown(c, n, rows)
    BY <1>4 DEF Moved
  <2>2. Settled(PageDown(c, n, rows), n, rows)
    BY <1>1, <1>2, SMT DEF Settled, PageDown, Halfway, Cursors, IsVisible
  <2> QED
    BY <2>1, <2>2
<1>5. CASE key # "page_up" /\ key # "page_down"
  <2> DEFINE position == CASE key = "up"   -> c.position - 1
                           [] key = "down" -> c.position + 1
                           [] key = "home" -> 0
                           [] key = "end"  -> n - 1
                           [] OTHER        -> c.position
             d == [c EXCEPT !.position = position]
  <2>1. Moved(key, c, n, rows) = ApplyConstraints(d, n, rows)
    BY <1>5 DEF Moved
  <2>2. position \in Int
    BY <1>1, SMT
  <2> HIDE DEF position
  <2>3. d \in Cursors /\ d.scroll = c.scroll
    BY <1>1, <2>2 DEF Cursors
  <2> HIDE DEF d
  <2>4. n > 0 => d.scroll >= 0
    BY <2>3 DEF Settled, IsVisible
  <2>5. n >= rows => d.scroll + rows <= n
    BY <2>3 DEF Settled
  <2> QED
    BY <2>1, <2>3, <2>4, <2>5, ConstraintsSettle
<1> QED
  BY <1>3, <1>4, <1>5

-------------------------------------------------------------------------------
(* The prompt: create_prompt_lines.                                        *)

(* What a line is made of.                                                 *)
Visible == Characters \ {"newline"}

LEMMA VisibleWidth ==
  ASSUME NEW c \in Visible
  PROVE  Width(c) \in 0..2 /\ (c = "wide" <=> Width(c) = 2) /\ (IsSpace(c) <=> c = "blank")
         /\ (IsSpace(c) => Width(c) = 1)
  BY DEF Visible, Characters, Width, IsSpace

AddWidth(w, c, k) == w + Width(c)

A == INSTANCE FoldLemmas WITH Op <- AddWidth

LEMMA LineWidthIs == ASSUME NEW line PROVE LineWidth(line) = A!Fold(0, line, 0)
  BY DEF LineWidth, AddWidth, A!Fold, FoldLeft, A!FoldLeft, MapThenFoldSet, A!MapThenFoldSet,
         Max, A!Max

LEMMA LineWidthType == ASSUME NEW line \in Seq(Visible) PROVE LineWidth(line) \in Nat
<1>1. \A w \in Nat, c \in Visible : AddWidth(w, c, 0) \in Nat
  <2> SUFFICES ASSUME NEW w \in Nat, NEW c \in Visible PROVE AddWidth(w, c, 0) \in Nat
    OBVIOUS
  <2>1. Width(c) \in 0..2
    BY VisibleWidth
  <2> QED
    BY <2>1 DEF AddWidth
<1>2. 0 \in Nat
  OBVIOUS
<1>3. A!Fold(0, line, 0) \in Nat
  BY <1>1, <1>2, A!FoldInSet
<1> QED
  BY <1>3, LineWidthIs

LEMMA LineWidthNone == LineWidth(<<>>) = 0
  BY LineWidthIs, A!FoldEmpty

LEMMA LineWidthAppend ==
  ASSUME NEW line \in Seq(Visible), NEW c \in Visible
  PROVE  LineWidth(Append(line, c)) = LineWidth(line) + Width(c)
<1>1. PICK n \in Nat : n = Len(line) /\ DOMAIN line = 1..n
  BY LenProperties
<1>2. PICK more : more = Append(line, c)
  OBVIOUS
<1>3. DOMAIN more = 1..n + 1 /\ more[n + 1] = c /\ \A i \in 1..n : line[i] = more[i]
  BY <1>1, <1>2, AppendProperties
<1>4. A!Fold(0, more, 0) = AddWidth(A!Fold(0, line, 0), more[n + 1], 0)
  BY <1>1, <1>3, A!FoldLast
<1> QED
  BY <1>2, <1>3, <1>4, LineWidthIs DEF AddWidth

(* The width of a line is that of its two parts.                           *)
LEMMA LineWidthParts ==
  ASSUME NEW line \in Seq(Visible), NEW i \in 0..Len(line)
  PROVE  LineWidth(line) = LineWidth(SubSeq(line, 1, i)) + LineWidth(SubSeq(line, i + 1, Len(line)))
<1>1. PICK n \in Nat : n = Len(line) /\ DOMAIN line = 1..n /\ i \in 0..n
  BY LenProperties
<1> DEFINE T == {m \in 0..n - i : LineWidth(SubSeq(line, 1, i + m))
                     = LineWidth(SubSeq(line, 1, i)) + LineWidth(SubSeq(line, i + 1, i + m))}
<1>2. 0 \in T
  <2>1. SubSeq(line, i + 1, i + 0) = <<>>
    BY <1>1, SubSeqEmpty
  <2>2. SubSeq(line, 1, i) \in Seq(Visible)
    BY <1>1, SubSeqProperties, ElementOfSeq
  <2>3. LineWidth(SubSeq(line, 1, i)) \in Nat
    BY <2>2, LineWidthType
  <2>4. i + 0 = i /\ 0 \in 0..n - i
    BY <1>1
  <2>5. LineWidth(SubSeq(line, i + 1, i + 0)) = 0
    BY <2>1, LineWidthNone
  <2>6. LineWidth(SubSeq(line, 1, i + 0))
          = LineWidth(SubSeq(line, 1, i)) + LineWidth(SubSeq(line, i + 1, i + 0))
    BY ONLY <2>3, <2>4, <2>5
  <2> QED
    BY <2>4, <2>6
<1>3. \A m \in 1..n - i : m - 1 \in T => m \in T
  <2> SUFFICES ASSUME NEW m \in 1..n - i, m - 1 \in T PROVE m \in T
    OBVIOUS
  <2>1. PICK j : j = i + m
    OBVIOUS
  <2>2. j \in i + 1..n /\ j \in 1..n /\ i + (m - 1) = j - 1
    BY <1>1, <2>1
  <2>3. line[j] \in Visible
    BY <1>1, <2>2, ElementOfSeq
  <2>4. SubSeq(line, 1, j - 1) \in Seq(Visible) /\ SubSeq(line, i + 1, j - 1) \in Seq(Visible)
        /\ SubSeq(line, 1, i) \in Seq(Visible)
    <3>1. \A p, q \in Int : p >= 1 /\ q <= n => SubSeq(line, p, q) \in Seq(Visible)
      <4> SUFFICES ASSUME NEW p \in Int, NEW q \in Int, p >= 1, q <= n
                   PROVE  SubSeq(line, p, q) \in Seq(Visible)
        OBVIOUS
      <4>1. \A k \in p..q : line[k] \in Visible
        BY <1>1, ElementOfSeq
      <4> QED
        BY <4>1, SubSeqProperties
    <3> QED
      BY <1>1, <2>2, <3>1
  <2>5. SubSeq(line, 1, j) = Append(SubSeq(line, 1, j - 1), line[j])
    <3>1. 1 \in 1..Len(line) /\ j \in 1..Len(line)
      BY <1>1, <2>2
    <3> QED
      BY <2>3, <2>4, <3>1, SubSeqRecursiveSecond, AppendIsConcat
  <2>6. SubSeq(line, i + 1, j) = Append(SubSeq(line, i + 1, j - 1), line[j])
    <3>1. i + 1 \in 1..Len(line) /\ j \in i + 1..Len(line)
      BY <1>1, <2>2
    <3> QED
      BY <2>3, <2>4, <3>1, SubSeqRecursiveSecond, AppendIsConcat
  <2>7. /\ LineWidth(SubSeq(line, 1, j)) = LineWidth(SubSeq(line, 1, j - 1)) + Width(line[j])
        /\ LineWidth(SubSeq(line, i + 1, j)) = LineWidth(SubSeq(line, i + 1, j - 1)) + Width(line[j])
    BY <2>3, <2>4, <2>5, <2>6, LineWidthAppend
  <2>8. LineWidth(SubSeq(line, 1, j - 1))
          = LineWidth(SubSeq(line, 1, i)) + LineWidth(SubSeq(line, i + 1, j - 1))
    BY <2>2
  <2>9. /\ LineWidth(SubSeq(line, 1, i)) \in Nat /\ LineWidth(SubSeq(line, i + 1, j - 1)) \in Nat
        /\ Width(line[j]) \in 0..2
    BY <2>3, <2>4, LineWidthType, VisibleWidth
  <2>10. LineWidth(SubSeq(line, 1, j))
          = LineWidth(SubSeq(line, 1, i)) + LineWidth(SubSeq(line, i + 1, j))
    BY ONLY <2>7, <2>8, <2>9
  <2> QED
    BY <2>1, <2>10
<1> HIDE DEF T
<1>4. n - i \in Nat
  BY <1>1
<1>5. 0..n - i \subseteq T
  BY <1>2, <1>3, <1>4, StepByStep
<1>6. n - i \in T
  BY <1>4, <1>5
<1>7. i + (n - i) = n
  BY <1>1
<1>8. SubSeq(line, 1, n) = line
  BY <1>1, SubSeqFull
<1> QED
  BY <1>1, <1>6, <1>7, <1>8 DEF T

(* A part of a line is no wider.                                           *)
LEMMA PartOfLine ==
  ASSUME NEW line \in Seq(Visible), NEW i \in 0..Len(line)
  PROVE  /\ SubSeq(line, 1, i) \in Seq(Visible) /\ Len(SubSeq(line, 1, i)) = i
         /\ SubSeq(line, i + 1, Len(line)) \in Seq(Visible)
         /\ LineWidth(SubSeq(line, 1, i)) <= LineWidth(line)
<1>1. PICK n \in Nat : n = Len(line) /\ DOMAIN line = 1..n /\ i \in 0..n
  BY LenProperties
<1>2. \A k \in 1..n : line[k] \in Visible
  BY <1>1, ElementOfSeq
<1>3. SubSeq(line, 1, i) \in Seq(Visible) /\ Len(SubSeq(line, 1, i)) = i
  BY <1>1, <1>2, SubSeqProperties
<1>4. SubSeq(line, i + 1, Len(line)) \in Seq(Visible)
  <2>1. i + 1 \in Int /\ n \in Int /\ \A k \in i + 1..n : line[k] \in Visible
    BY <1>1, <1>2
  <2> QED
    BY <1>1, <2>1, SubSeqProperties
<1>5. LineWidth(SubSeq(line, 1, i)) \in Nat /\ LineWidth(SubSeq(line, i + 1, Len(line))) \in Nat
  BY <1>3, <1>4, LineWidthType
<1> QED
  BY <1>3, <1>4, <1>5, LineWidthParts

(* The last word of a line is narrower than the line by the blank before   *)
(* it, and by what the line begins with.                                   *)
LEMMA LastWordWidth ==
  ASSUME NEW line \in Seq(Visible)
  PROVE  /\ LastWord(line) \in Seq(Visible)
         /\ Len(LastWord(line)) \in 0..Len(line)
         /\ \A i \in DOMAIN LastWord(line) : LastWord(line)[i] # "blank"
         /\ LastWord(line) # <<>> =>
              /\ LineWidth(LastWord(line)) <= LineWidth(line) - 1
              /\ line[1] = "wide" => LineWidth(LastWord(line)) <= LineWidth(line) - 3
<1>1. PICK n \in Nat : n = Len(line) /\ DOMAIN line = 1..n
  BY LenProperties
<1>2. PICK I : I = {i \in 1..n : IsSpace(line[i])}
  OBVIOUS
<1>3. PICK b : b = SelectLastInSeq(line, IsSpace)
  OBVIOUS
<1>4. b = IF I # {} THEN Max(I) ELSE 0
  BY <1>1, <1>2, <1>3 DEF SelectLastInSeq
<1>5. LastWord(line) = IF b = 0 THEN <<>> ELSE SubSeq(line, b + 1, n)
  BY <1>1, <1>3 DEF LastWord
<1>6. CASE I = {}
  <2>1. LastWord(line) = <<>>
    BY <1>4, <1>5, <1>6
  <2> QED
    BY <1>1, <2>1
<1>7. CASE I # {}
  <2>1. b \in I /\ \A i \in I : i <= b
    <3>1. I \subseteq Int /\ n \in Int /\ \A i \in I : i <= n
      BY <1>2
    <3> QED
      BY <1>4, <1>7, <3>1, GreatestElement
  <2>2. b \in 1..n /\ IsSpace(line[b]) /\ \A i \in b + 1..n : ~IsSpace(line[i])
    BY <1>2, <2>1
  <2>3. PICK word : word = LastWord(line) /\ word = SubSeq(line, b + 1, n)
    BY <1>5, <2>2
  <2>4. word \in Seq(Visible)
    BY <1>1, <2>2, <2>3, PartOfLine
  <2>5. \A k \in 1..n : line[k] \in Visible
    BY <1>1, ElementOfSeq
  <2>6. Len(word) = n - b /\ \A i \in 1..n - b : word[i] = line[b + i]
    <3>1. \A k \in b + 1..n : line[k] \in Visible
      BY <2>2, <2>5
    <3>2. b + 1 \in Int /\ n \in Int
      BY <2>2
    <3>3. /\ Len(word) = IF b + 1 <= n THEN n - (b + 1) + 1 ELSE 0
          /\ \A i \in 1..n - (b + 1) + 1 : word[i] = line[b + 1 + i - 1]
      BY <2>3, <3>1, <3>2, SubSeqProperties
    <3> QED
      BY <2>2, <3>3
  <2>7. \A i \in DOMAIN word : word[i] # "blank"
    <3>1. \A i \in DOMAIN word : i \in 1..n - b
      BY <2>4, <2>6
    <3> SUFFICES ASSUME NEW i \in DOMAIN word, word[i] = "blank" PROVE FALSE
      OBVIOUS
    <3>2. b + i \in b + 1..n /\ word[i] = line[b + i]
      BY <2>2, <2>6, <3>1
    <3>3. IsSpace(line[b + i])
      BY <3>2 DEF IsSpace
    <3> QED
      BY <2>2, <3>2, <3>3
  <2>8. PICK before : before = SubSeq(line, 1, b - 1)
    OBVIOUS
  <2>9. /\ before \in Seq(Visible) /\ Len(before) = b - 1
        /\ SubSeq(line, 1, b) \in Seq(Visible)
    BY <1>1, <2>2, <2>8, PartOfLine
  <2>10. SubSeq(line, 1, b) = Append(before, line[b])
    <3>1. 1 \in 1..Len(line) /\ b \in 1..Len(line)
      BY <1>1, <2>2
    <3> QED
      BY <2>2, <2>5, <2>8, <2>9, <3>1, SubSeqRecursiveSecond, AppendIsConcat
  <2>11. LineWidth(SubSeq(line, 1, b)) = LineWidth(before) + 1
    <3>1. Width(line[b]) = 1 /\ line[b] \in Visible
      BY <2>2, <2>5, VisibleWidth
    <3> QED
      BY <2>9, <2>10, <3>1, LineWidthAppend
  <2>12. LineWidth(line) = LineWidth(SubSeq(line, 1, b)) + LineWidth(word)
    BY <1>1, <2>2, <2>3, LineWidthParts
  <2>13. LineWidth(before) \in Nat /\ LineWidth(word) \in Nat
    BY <2>4, <2>9, LineWidthType
  <2>14. line[1] = "wide" => LineWidth(before) >= 2
    <3> SUFFICES ASSUME line[1] = "wide" PROVE LineWidth(before) >= 2
      OBVIOUS
    <3>1. b # 1
      BY <2>2 DEF IsSpace
    <3>2. b - 1 \in 1..n /\ 1 \in 0..Len(before)
      BY <2>2, <2>9, <3>1
    <3>3. before[1] = "wide"
      <4>1. \A k \in 1..b - 1 : line[k] \in Visible
        BY <2>2, <2>5
      <4>2. b - 1 \in Int /\ 1 \in Int /\ 1 \in 1..(b - 1) - 1 + 1
        BY <2>2, <3>2
      <4>3. before[1] = line[1 + 1 - 1]
        BY <2>8, <4>1, <4>2, SubSeqProperties
      <4> QED
        BY <4>3
    <3>4. LineWidth(SubSeq(before, 1, 1)) <= LineWidth(before) /\ SubSeq(before, 1, 1) \in Seq(Visible)
      BY <2>9, <3>2, PartOfLine
    <3>5. SubSeq(before, 1, 1) = Append(<<>>, before[1])
      <4>1. 1 \in 1..Len(before)
        BY <2>9, <3>2
      <4>2. SubSeq(before, 1, 1) = SubSeq(before, 1, 0) \o <<before[1]>>
        BY <2>9, <4>1, SubSeqRecursiveSecond
      <4>3. SubSeq(before, 1, 0) = <<>>
        BY SubSeqEmpty
      <4>4. <<>> \in Seq(Visible) /\ before[1] \in Visible
        BY <2>9, <4>1, ElementOfSeq
      <4>5. Append(<<>>, before[1]) = <<>> \o <<before[1]>>
        BY ONLY <4>4, AppendIsConcat
      <4> QED
        BY <4>2, <4>3, <4>5
    <3>6. LineWidth(SubSeq(before, 1, 1)) = 2
      <4>1. <<>> \in Seq(Visible) /\ "wide" \in Visible
        BY DEF Visible, Characters
      <4>2. LineWidth(Append(<<>>, "wide")) = LineWidth(<<>>) + Width("wide")
        BY ONLY <4>1, LineWidthAppend
      <4>3. Width("wide") = 2
        BY <4>1, VisibleWidth
      <4>4. SubSeq(before, 1, 1) = Append(<<>>, "wide")
        BY ONLY <3>3, <3>5, Zenon
      <4>5. LineWidth(<<>>) = 0
        BY LineWidthNone
      <4>6. LineWidth(SubSeq(before, 1, 1)) = LineWidth(<<>>) + Width("wide")
        BY ONLY <4>2, <4>4, Zenon
      <4> QED
        BY ONLY <4>3, <4>5, <4>6
    <3> QED
      BY <2>13, <3>4, <3>6
  <2>15. n - b \in 0..n
    BY <2>2
  <2> QED
    BY <1>1, <2>3, <2>4, <2>6, <2>7, <2>11, <2>12, <2>13, <2>14, <2>15
<1> QED
  BY <1>6, <1>7

LEMMA NoBlankNoWord ==
  ASSUME NEW line \in Seq(Visible), \A i \in DOMAIN line : line[i] # "blank"
  PROVE  LastWord(line) = <<>>
<1>1. PICK n \in Nat : n = Len(line) /\ DOMAIN line = 1..n
  BY LenProperties
<1>2. \A i \in 1..n : ~IsSpace(line[i])
  <2> SUFFICES ASSUME NEW i \in 1..n PROVE ~IsSpace(line[i])
    OBVIOUS
  <2>1. line[i] \in Visible /\ line[i] # "blank"
    BY <1>1, ElementOfSeq
  <2> QED
    BY <2>1, VisibleWidth
<1>3. SelectLastInSeq(line, IsSpace) = 0
  BY <1>1, <1>2 DEF SelectLastInSeq
<1> QED
  BY <1>3 DEF LastWord

(* One character is no line and the beginning of the last word.            *)
LEMMA OneCharacter ==
  ASSUME NEW c \in Visible
  PROVE  /\ Append(<<>>, c) \in Seq(Visible) /\ Len(Append(<<>>, c)) = 1
         /\ Append(<<>>, c) # <<>> /\ Append(<<>>, c)[1] = c
         /\ LineWidth(Append(<<>>, c)) = Width(c) /\ LastWord(Append(<<>>, c)) = <<>>
<1>1. <<>> \in Seq(Visible)
  OBVIOUS
<1>2. PICK line : line = Append(<<>>, c)
  OBVIOUS
<1>3. line \in Seq(Visible) /\ Len(line) = 1 /\ line # <<>> /\ line[1] = c /\ DOMAIN line = 1..1
  BY <1>1, <1>2, AppendProperties
<1>4. LineWidth(line) = Width(c)
  <2>1. LineWidth(line) = LineWidth(<<>>) + Width(c) /\ Width(c) \in 0..2
    BY <1>1, <1>2, LineWidthAppend, VisibleWidth
  <2> QED
    BY <2>1, LineWidthNone
<1>5. LastWord(line) = <<>>
  <2>1. CASE c # "blank"
    BY <1>3, <2>1, NoBlankNoWord
  <2>2. CASE c = "blank"
    <3>1. PICK b : b = SelectLastInSeq(line, IsSpace)
      OBVIOUS
    <3>2. {i \in 1..1 : IsSpace(line[i])} = {1}
      BY <1>3, <2>2 DEF IsSpace
    <3>3. b = 1
      <4>1. b = Max({1})
        BY <1>3, <3>1, <3>2 DEF SelectLastInSeq
      <4>2. Max({1}) \in {1}
        <5>1. {1} \subseteq Int /\ {1} # {} /\ 1 \in Int /\ \A x \in {1} : x <= 1
          OBVIOUS
        <5> QED
          BY <5>1, GreatestElement
      <4> QED
        BY <4>1, <4>2
    <3>4. LastWord(line) = SubSeq(line, 1 + 1, 1)
      BY <1>3, <3>1, <3>3 DEF LastWord
    <3> QED
      BY <3>4, SubSeqEmpty
  <2> QED
    BY <2>1, <2>2
<1> QED
  BY <1>2, <1>3, <1>4, <1>5

-------------------------------------------------------------------------------
(* The ends of a sequence.                                                 *)
(* A sequence with an end, of one or of two.                               *)
LEMMA JoinsEnd ==
  ASSUME NEW T, NEW f \in Seq(T), NEW e \in Seq(T), e # <<>>
  PROVE  f \o e \in Seq(T) /\ f \o e # <<>> /\ Last(f \o e) = Last(e)
<1>1. PICK m \in Nat : m = Len(f)
  BY LenProperties
<1>2. PICK n \in Nat : n = Len(e) /\ n # 0
  BY LenProperties, EmptySeq
<1>3. PICK g : g = f \o e
  OBVIOUS
<1>4. /\ g \in Seq(T) /\ Len(g) = m + n
      /\ \A i \in 1..m + n : g[i] = IF i <= m THEN f[i] ELSE e[i - m]
  BY <1>1, <1>2, <1>3, ConcatProperties
<1>5. m + n \in 1..m + n /\ ~(m + n <= m) /\ m + n - m = n /\ m + n # 0
  BY <1>2
<1>6. g[m + n] = e[n]
  BY <1>4, <1>5
<1>7. g # <<>>
  BY <1>4, <1>5, EmptySeq
<1> QED
  BY <1>2, <1>3, <1>4, <1>6, <1>7 DEF Last

LEMMA EndsWithOne ==
  ASSUME NEW T, NEW f \in Seq(T), NEW x \in T
  PROVE  f \o <<x>> \in Seq(T) /\ f \o <<x>> # <<>> /\ Last(f \o <<x>>) = x
<1>1. PICK e : e = <<x>>
  OBVIOUS
<1>2. e \in Seq(T) /\ e # <<>> /\ Last(e) = x
  BY <1>1 DEF Last
<1>3. f \o e \in Seq(T) /\ f \o e # <<>> /\ Last(f \o e) = Last(e)
  BY ONLY <1>2, f \in Seq(T), JoinsEnd
<1> QED
  BY ONLY <1>1, <1>2, <1>3, Zenon

LEMMA EndsWithTwo ==
  ASSUME NEW T, NEW f \in Seq(T), NEW x \in T, NEW y \in T
  PROVE  f \o <<x, y>> \in Seq(T) /\ f \o <<x, y>> # <<>> /\ Last(f \o <<x, y>>) = y
<1>1. PICK e : e = <<x, y>>
  OBVIOUS
<1>2. e \in Seq(T) /\ e # <<>> /\ Last(e) = y
  BY <1>1 DEF Last
<1>3. f \o e \in Seq(T) /\ f \o e # <<>> /\ Last(f \o e) = Last(e)
  BY ONLY <1>2, f \in Seq(T), JoinsEnd
<1> QED
  BY ONLY <1>1, <1>2, <1>3, Zenon

LEMMA FrontAndLast ==
  ASSUME NEW T, NEW l \in Seq(T), l # <<>>
  PROVE  Front(l) \in Seq(T) /\ Last(l) \in T
<1>1. PICK n \in Nat : n = Len(l) /\ n # 0
  BY LenProperties, EmptySeq
<1>2. n - 1 \in Int /\ 1 \in Int /\ \A k \in 1..n - 1 : l[k] \in T
  BY <1>1, ElementOfSeq
<1>3. SubSeq(l, 1, n - 1) \in Seq(T) /\ l[n] \in T
  BY <1>1, <1>2, SubSeqProperties, ElementOfSeq
<1> QED
  BY <1>1, <1>3 DEF Front, Last

(* One field of a wrap is assigned, or two.                                *)
LEMMA WrapUpdate ==
  ASSUME NEW v, NEW x, NEW y, NEW z, v = [lines |-> x, room |-> y, dropping |-> z], NEW e
  PROVE  /\ [v EXCEPT !.lines = e] = [lines |-> e, room |-> y, dropping |-> z]
         /\ [v EXCEPT !.room = e] = [lines |-> x, room |-> e, dropping |-> z]
         /\ [v EXCEPT !.dropping = e] = [lines |-> x, room |-> y, dropping |-> e]
<1>1. [v EXCEPT !.lines = e] = [lines |-> e, room |-> y, dropping |-> z]
  OBVIOUS
<1>2. [v EXCEPT !.room = e] = [lines |-> x, room |-> e, dropping |-> z]
  OBVIOUS
<1>3. [v EXCEPT !.dropping = e] = [lines |-> x, room |-> y, dropping |-> e]
  OBVIOUS
<1> QED
  BY ONLY <1>1, <1>2, <1>3

LEMMA WrapUpdates ==
  ASSUME NEW v, NEW x, NEW y, NEW z, v = [lines |-> x, room |-> y, dropping |-> z],
         NEW l, NEW r, NEW d
  PROVE  /\ [v EXCEPT !.lines = l, !.room = r] = [lines |-> l, room |-> r, dropping |-> z]
         /\ [v EXCEPT !.lines = l, !.dropping = d] = [lines |-> l, room |-> y, dropping |-> d]
<1>1. PICK a : a = [v EXCEPT !.lines = l]
  OBVIOUS
<1>2. a = [lines |-> l, room |-> y, dropping |-> z]
  BY <1>1, WrapUpdate
<1>3. [a EXCEPT !.room = r] = [lines |-> l, room |-> r, dropping |-> z]
  BY ONLY <1>2, WrapUpdate
<1>4. [a EXCEPT !.dropping = d] = [lines |-> l, room |-> y, dropping |-> d]
  BY ONLY <1>2, WrapUpdate
<1> QED
  BY ONLY <1>1, <1>3, <1>4, Zenon

LEMMA WrapRecord ==
  ASSUME NEW T, NEW v \in [lines : T, room : Int, dropping : BOOLEAN]
  PROVE  /\ v = [lines |-> v.lines, room |-> v.room, dropping |-> v.dropping]
         /\ v.lines \in T /\ v.room \in Int /\ v.dropping \in BOOLEAN
  OBVIOUS

-------------------------------------------------------------------------------
(* The characters of a prompt, and by how much they may be over: s is 1 if *)
(* there are wide ones.                                                    *)
Letters(s) == IF s = 1 THEN Characters ELSE Characters \ {"wide"}

(* The lines that are in the box.                                          *)
Fitting(columns, s) == {l \in Seq(Visible) : LineWidth(l) <= columns + s \/ Len(l) <= 1}

(* The room that is left is what the line has not used: more only where a  *)
(* wide character is first, after a blank was dropped.  It is used up only *)
(* in the first word of a line.                                            *)
Counted(room, line, columns, s) ==
  /\ room >= 0 \/ LastWord(line) = <<>>
  /\ \/ room + LineWidth(line) <= columns
     \/ s = 1 /\ line # <<>> /\ line[1] = "wide" /\ room + LineWidth(line) <= columns + 1

Records(columns, s) == [lines : Seq(Fitting(columns, s)), room : Int, dropping : BOOLEAN]

Wraps(columns, s) ==
  {w \in Records(columns, s) :
     /\ w.lines # <<>>
     /\ w.dropping => w.room = columns - 1
     /\ ~w.dropping => Counted(w.room, Last(w.lines), columns, s)}

LEMMA LettersWidth ==
  ASSUME NEW s \in {0, 1}, NEW c \in Letters(s), c # "newline"
  PROVE  c \in Visible /\ Width(c) \in 0..1 + s
<1>1. c \in Visible /\ (s = 0 => c # "wide")
  BY DEF Letters, Visible
<1>2. Width(c) \in 0..2 /\ (c # "wide" => Width(c) # 2)
  BY <1>1, VisibleWidth
<1> QED
  BY <1>1, <1>2

LEMMA PartFits ==
  ASSUME NEW columns \in Int, NEW s \in {0, 1}, NEW line \in Fitting(columns, s),
         NEW i \in 0..Len(line)
  PROVE  SubSeq(line, 1, i) \in Fitting(columns, s)
<1>1. line \in Seq(Visible) /\ (LineWidth(line) <= columns + s \/ Len(line) <= 1)
  BY DEF Fitting
<1>2. PICK t : t = SubSeq(line, 1, i)
  OBVIOUS
<1>3. t \in Seq(Visible) /\ Len(t) = i /\ LineWidth(t) <= LineWidth(line)
  BY <1>1, <1>2, PartOfLine
<1>4. LineWidth(t) \in Nat /\ LineWidth(line) \in Nat /\ Len(line) \in Nat
  BY <1>1, <1>3, LineWidthType, LenProperties
<1>5. LineWidth(t) <= columns + s \/ Len(t) <= 1
  BY <1>1, <1>3, <1>4
<1> QED
  BY <1>2, <1>3, <1>5 DEF Fitting

LEMMA TrimmedFits ==
  ASSUME NEW columns \in Int, NEW s \in {0, 1}, NEW line \in Fitting(columns, s)
  PROVE  Trimmed(line) \in Fitting(columns, s)
<1>1. line \in Seq(Visible)
  BY DEF Fitting
<1>2. PICK n \in Nat : n = Len(line)
  BY <1>1, LenProperties
<1>3. PICK I : I = {i \in 1..n : NotSpace(line[i])}
  OBVIOUS
<1>4. PICK k : k = SelectLastInSeq(line, NotSpace)
  OBVIOUS
<1>5. k = IF I # {} THEN Max(I) ELSE 0
  BY <1>2, <1>3, <1>4 DEF SelectLastInSeq
<1>6. k \in 0..n
  <2>1. I # {} => Max(I) \in I
    <3>1. I \subseteq Int /\ n \in Int /\ \A i \in I : i <= n
      BY <1>3
    <3> QED
      BY <3>1, GreatestElement
  <2> QED
    BY <1>3, <1>5, <2>1
<1>7. Trimmed(line) = SubSeq(line, 1, k)
  BY <1>4 DEF Trimmed
<1> QED
  BY <1>2, <1>6, <1>7, PartFits

LEMMA EmptyFits ==
  ASSUME NEW columns \in Int, NEW s \in {0, 1}
  PROVE  <<>> \in Fitting(columns, s) /\ Counted(columns, <<>>, columns, s)
<1>1. <<>> \in Seq(Visible) /\ Len(<<>>) = 0
  OBVIOUS
<1>2. LastWord(<<>>) = <<>>
  <2>1. PICK e : e = <<>>
    OBVIOUS
  <2>2. e \in Seq(Visible) /\ \A i \in DOMAIN e : e[i] # "blank"
    BY <2>1
  <2> QED
    BY <2>1, <2>2, NoBlankNoWord
<1>3. columns + LineWidth(<<>>) <= columns
  BY LineWidthNone
<1> QED
  BY <1>1, <1>2, <1>3 DEF Fitting, Counted

LEMMA NewWrapKeeps ==
  ASSUME NEW columns \in Int, NEW s \in {0, 1}
  PROVE  NewWrap(columns) \in Wraps(columns, s)
<1>1. PICK T : T = Fitting(columns, s)
  OBVIOUS
<1>2. <<>> \in T /\ Counted(columns, <<>>, columns, s)
  BY <1>1, EmptyFits
<1>3. PICK l : l = << <<>> >>
  OBVIOUS
<1>4. l \in Seq(T) /\ l # <<>> /\ Last(l) = <<>>
  BY <1>2, <1>3 DEF Last
<1>5. NewWrap(columns) = [lines |-> l, room |-> columns, dropping |-> FALSE]
  BY <1>3 DEF NewWrap
<1> QED
  BY <1>1, <1>2, <1>4, <1>5 DEF Wraps, Records

(* A character is pushed onto the last line, once there is room for it.    *)
LEMMA PushedKeeps ==
  ASSUME NEW columns \in Int, NEW s \in {0, 1}, NEW v \in Records(columns, s), NEW c,
         v.lines # <<>>, Append(Last(v.lines), c) \in Fitting(columns, s),
         Counted(v.room, Append(Last(v.lines), c), columns, s)
  PROVE  Pushed(v, c) \in Wraps(columns, s)
<1>1. PICK T : T = Fitting(columns, s)
  OBVIOUS
<1>2. PICK x : x = Append(Last(v.lines), c)
  OBVIOUS
<1>3. PICK f : f = Front(v.lines)
  OBVIOUS
<1>4. PICK m : m = f \o <<x>>
  OBVIOUS
<1>5. v = [lines |-> v.lines, room |-> v.room, dropping |-> v.dropping]
      /\ v.lines \in Seq(T) /\ v.room \in Int
  BY <1>1, WrapRecord DEF Records
<1>6. f \in Seq(T) /\ x \in T
  BY <1>1, <1>2, <1>3, <1>5, FrontAndLast
<1>7. m \in Seq(T) /\ m # <<>> /\ Last(m) = x
  BY ONLY <1>4, <1>6, EndsWithOne
<1>8. Pushed(v, c) = [v EXCEPT !.lines = m, !.dropping = FALSE]
  BY <1>2, <1>3, <1>4, Zenon DEF Pushed
<1>9. Pushed(v, c) = [lines |-> m, room |-> v.room, dropping |-> FALSE]
  BY ONLY <1>5, <1>8, WrapUpdates
<1>10. [lines |-> m, room |-> v.room, dropping |-> FALSE] \in Records(columns, s)
  BY <1>1, <1>5, <1>7 DEF Records
<1>11. Counted(v.room, Last(m), columns, s)
  BY <1>2, <1>7
<1> QED
  BY <1>7, <1>9, <1>10, <1>11 DEF Wraps

(* What NextLine moves to the new line.                                    *)
LEMMA NextLineMoves ==
  ASSUME NEW columns \in Int, NEW s \in {0, 1}, NEW v \in Records(columns, s), v.lines # <<>>,
         NEW separates \in BOOLEAN
  PROVE  \E m, moved :
           /\ NextLine(v, separates)
                = [lines |-> m, room |-> v.room - LineWidth(moved), dropping |-> v.dropping]
           /\ m \in Seq(Fitting(columns, s)) /\ m # <<>> /\ Last(m) = moved
           /\ moved \in {<<>>, LastWord(Last(v.lines))} /\ (~separates => moved = <<>>)
<1>1. PICK T : T = Fitting(columns, s)
  OBVIOUS
<1>2. PICK f : f = Front(v.lines)
  OBVIOUS
<1>3. PICK line : line = Last(v.lines)
  OBVIOUS
<1>4. v = [lines |-> v.lines, room |-> v.room, dropping |-> v.dropping]
      /\ v.lines \in Seq(T) /\ v.room \in Int
  BY <1>1, WrapRecord DEF Records
<1>5. f \in Seq(T) /\ line \in T
  BY <1>2, <1>3, <1>4, FrontAndLast
<1>6. PICK none : none = <<>>
  OBVIOUS
<1>7. none \in T /\ LineWidth(none) = 0
  BY <1>1, <1>6, EmptyFits, LineWidthNone
<1>8. CASE SelectInSeq(line, NotSpace) = 0
  <2>1. PICK m : m = f \o <<none>>
    OBVIOUS
  <2>2. m \in Seq(T) /\ m # <<>> /\ Last(m) = none
    BY ONLY <1>5, <1>7, <2>1, EndsWithOne
  <2>3. NextLine(v, separates) = [v EXCEPT !.lines = m]
    BY <1>2, <1>3, <1>6, <1>8, <2>1, Zenon DEF NextLine
  <2>4. NextLine(v, separates) = [lines |-> m, room |-> v.room, dropping |-> v.dropping]
    BY ONLY <1>4, <2>3, WrapUpdate
  <2>5. v.room = v.room - LineWidth(none)
    BY <1>4, <1>7
  <2> QED
    BY <1>1, <1>6, <2>2, <2>4, <2>5
<1>9. CASE SelectInSeq(line, NotSpace) # 0
  <2>1. PICK moved : moved = IF separates THEN LastWord(line) ELSE none
    OBVIOUS
  <2>2. line \in Seq(Visible) /\ (LineWidth(line) <= columns + s \/ Len(line) <= 1)
    BY <1>1, <1>5 DEF Fitting
  <2>3. /\ LastWord(line) \in Seq(Visible) /\ Len(LastWord(line)) \in 0..Len(line)
        /\ LastWord(line) # <<>> => LineWidth(LastWord(line)) <= LineWidth(line) - 1
    BY <2>2, LastWordWidth
  <2>4. Len(line) \in Nat /\ LineWidth(line) \in Nat /\ LineWidth(LastWord(line)) \in Nat
    BY <2>2, <2>3, LenProperties, LineWidthType
  <2>5. LastWord(line) \in T
    <3>1. CASE LastWord(line) = <<>>
      BY <1>6, <1>7, <3>1
    <3>2. CASE LastWord(line) # <<>>
      <4>1. LineWidth(LastWord(line)) <= columns + s \/ Len(LastWord(line)) <= 1
        BY <2>2, <2>3, <2>4, <3>2
      <4> QED
        BY <1>1, <2>3, <4>1 DEF Fitting
    <3> QED
      BY <3>1, <3>2
  <2>6. moved \in T /\ Len(moved) \in 0..Len(line)
    <3>1. Len(none) = 0
      BY <1>6
    <3> QED
      BY <1>7, <2>1, <2>3, <2>4, <2>5, <3>1
  <2>7. PICK kept : kept = SubSeq(line, 1, Len(line) - Len(moved))
    OBVIOUS
  <2>8. PICK t : t = Trimmed(kept)
    OBVIOUS
  <2>9. t \in T
    <3>1. Len(line) - Len(moved) \in 0..Len(line)
      BY <2>4, <2>6
    <3>2. kept \in T
      BY <1>1, <1>5, <2>7, <3>1, PartFits
    <3> QED
      BY <1>1, <2>8, <3>2, TrimmedFits
  <2>10. PICK m : m = f \o <<t, moved>>
    OBVIOUS
  <2>11. m \in Seq(T) /\ m # <<>> /\ Last(m) = moved
    BY ONLY <1>5, <2>6, <2>9, <2>10, EndsWithTwo
  <2>12. PICK left : left = v.room - LineWidth(moved)
    OBVIOUS
  <2>13. NextLine(v, separates) = [v EXCEPT !.lines = m, !.room = left]
    BY <1>2, <1>3, <1>6, <1>9, <2>1, <2>7, <2>8, <2>10, <2>12, Zenon DEF NextLine
  <2>14. NextLine(v, separates) = [lines |-> m, room |-> left, dropping |-> v.dropping]
    BY ONLY <1>4, <2>13, WrapUpdates
  <2>15. moved \in {<<>>, LastWord(Last(v.lines))} /\ (~separates => moved = <<>>)
    BY ONLY <1>3, <1>6, <2>1
  <2> QED
    BY ONLY <1>1, <2>11, <2>12, <2>14, <2>15, Zenon
<1> QED
  BY <1>8, <1>9

(* A character is put first on its line, where the room was counted before *)
(* or, after blanks were dropped, not at all.                              *)
LEMMA AloneKeeps ==
  ASSUME NEW columns \in Int, NEW s \in {0, 1}, NEW v \in Records(columns, s), v.lines # <<>>,
         NEW c \in Letters(s), c # "newline", Last(v.lines) = <<>>,
         v.room + Width(c) <= columns \/ v.room = columns - 1
  PROVE  Pushed(v, c) \in Wraps(columns, s)
<1>1. PICK x : x = Append(<<>>, c)
  OBVIOUS
<1>2. c \in Visible /\ Width(c) \in 0..1 + s /\ (c = "wide" <=> Width(c) = 2)
  BY LettersWidth, VisibleWidth
<1>3. /\ x \in Seq(Visible) /\ Len(x) = 1 /\ x # <<>> /\ x[1] = c
      /\ LineWidth(x) = Width(c) /\ LastWord(x) = <<>>
  BY <1>1, <1>2, OneCharacter
<1>4. v.room \in Int
  BY DEF Records
<1>5. \/ v.room + LineWidth(x) <= columns
      \/ s = 1 /\ x[1] = "wide" /\ v.room + LineWidth(x) <= columns + 1
  BY <1>2, <1>3, <1>4
<1>6. x \in Fitting(columns, s)
  BY <1>3, SMTT(20) DEF Fitting
<1>7. Counted(v.room, x, columns, s)
  BY <1>3, <1>5 DEF Counted
<1>8. Append(Last(v.lines), c) = x
  BY <1>1
<1> QED
  BY <1>6, <1>7, <1>8, PushedKeeps

(* A character that there is room for.                                     *)
LEMMA RoomKeeps ==
  ASSUME NEW columns \in Int, NEW s \in {0, 1}, NEW w \in Wraps(columns, s), ~w.dropping,
         NEW c \in Letters(s), c # "newline",
         w.room - Width(c) >= 0 \/ Last(w.lines) = <<>>
  PROVE  Pushed([w EXCEPT !.room = w.room - Width(c)], c) \in Wraps(columns, s)
<1>1. PICK T : T = Fitting(columns, s)
  OBVIOUS
<1>2. PICK line : line = Last(w.lines)
  OBVIOUS
<1>3. w \in Records(columns, s) /\ w.lines # <<>> /\ Counted(w.room, line, columns, s)
  BY <1>2 DEF Wraps
<1>4. /\ w = [lines |-> w.lines, room |-> w.room, dropping |-> w.dropping]
      /\ w.lines \in Seq(T) /\ w.room \in Int /\ w.dropping \in BOOLEAN
  BY <1>1, <1>3, WrapRecord DEF Records
<1>5. c \in Visible /\ Width(c) \in 0..1 + s
  BY LettersWidth
<1>6. PICK left : left = w.room - Width(c)
  OBVIOUS
<1>7. PICK v : v = [w EXCEPT !.room = left]
  OBVIOUS
<1>8. v = [lines |-> w.lines, room |-> left, dropping |-> w.dropping]
  BY ONLY <1>4, <1>7, WrapUpdate
<1>9. left \in Int
  BY <1>4, <1>5, <1>6
<1>10. v \in Records(columns, s) /\ v.lines = w.lines /\ v.room = left
  BY <1>1, <1>4, <1>8, <1>9 DEF Records
<1>11. line \in Seq(Visible)
  BY <1>1, <1>2, <1>3, <1>4, FrontAndLast DEF Fitting
<1>12. LineWidth(line) \in Nat
  BY <1>11, LineWidthType
<1>13. CASE line = <<>>
  <2>1. w.room + LineWidth(line) <= columns
    BY <1>3, <1>13 DEF Counted
  <2>2. left + Width(c) <= columns
    BY <1>4, <1>5, <1>6, <1>12, <2>1
  <2>3. Pushed(v, c) \in Wraps(columns, s)
    BY <1>2, <1>3, <1>10, <1>13, <2>2, AloneKeeps
  <2> QED
    BY <1>6, <1>7, <2>3
<1>14. CASE line # <<>>
  <2>1. left >= 0
    BY <1>2, <1>6, <1>14
  <2>2. PICK x : x = Append(line, c)
    OBVIOUS
  <2>3. x \in Seq(Visible) /\ x # <<>> /\ x[1] = line[1]
    <3>1. Len(line) \in Nat /\ Len(line) # 0
      BY <1>11, <1>14, EmptySeq
    <3>2. 1 \in 1..Len(line)
      BY <3>1
    <3> QED
      BY <1>5, <1>11, <2>2, <3>2, AppendProperties
  <2>4. LineWidth(x) = LineWidth(line) + Width(c)
    BY <1>5, <1>11, <2>2, LineWidthAppend
  <2>5. left + LineWidth(x) = w.room + LineWidth(line)
    BY <1>4, <1>5, <1>6, <1>12, <2>4
  <2>6. Counted(left, x, columns, s)
    BY <1>3, <1>14, <2>1, <2>3, <2>5 DEF Counted
  <2>7. LineWidth(x) <= columns + s
    <3>1. left + LineWidth(x) <= columns + s
      <4>1. \/ w.room + LineWidth(line) <= columns
            \/ s = 1 /\ w.room + LineWidth(line) <= columns + 1
        BY <1>3 DEF Counted
      <4>2. w.room + LineWidth(line) \in Int
        BY <1>4, <1>12
      <4> QED
        BY <2>5, <4>1, <4>2
    <3>2. LineWidth(x) \in Nat
      BY <2>3, LineWidthType
    <3> QED
      BY <1>9, <2>1, <3>1, <3>2
  <2>8. x \in Fitting(columns, s)
    BY <2>3, <2>7 DEF Fitting
  <2>9. Pushed(v, c) \in Wraps(columns, s)
    BY <1>2, <1>3, <1>10, <2>2, <2>6, <2>8, PushedKeeps
  <2> QED
    BY <1>6, <1>7, <2>9
<1> QED
  BY <1>13, <1>14

(* A character that begins a new line, with the word that it ends.         *)
LEMMA WrappedKeeps ==
  ASSUME NEW columns \in Int, NEW s \in {0, 1}, NEW w \in Wraps(columns, s), ~w.dropping,
         NEW c \in Letters(s), c # "newline"
  PROVE  Wrapped(w, c, columns) \in Wraps(columns, s)
<1>1. PICK T : T = Fitting(columns, s)
  OBVIOUS
<1>2. PICK line : line = Last(w.lines)
  OBVIOUS
<1>3. w \in Records(columns, s) /\ w.lines # <<>> /\ Counted(w.room, line, columns, s)
  BY <1>2 DEF Wraps
<1>4. /\ w = [lines |-> w.lines, room |-> w.room, dropping |-> w.dropping]
      /\ w.lines \in Seq(T) /\ w.room \in Int /\ w.dropping \in BOOLEAN
  BY <1>1, <1>3, WrapRecord DEF Records
<1>5. c \in Visible /\ Width(c) \in 0..1 + s /\ (IsSpace(c) => Width(c) = 1)
      /\ (IsSpace(c) <=> c = "blank")
  BY LettersWidth, VisibleWidth
<1>6. PICK left : left = columns - Width(c)
  OBVIOUS
<1>7. PICK v : v = [w EXCEPT !.room = left]
  OBVIOUS
<1>8. v = [lines |-> w.lines, room |-> left, dropping |-> w.dropping]
  BY ONLY <1>4, <1>7, WrapUpdate
<1>9. left \in Int
  BY <1>5, <1>6
<1>10. v \in Records(columns, s) /\ v.lines = w.lines /\ v.room = left
  BY <1>1, <1>4, <1>8, <1>9 DEF Records
<1>11. line \in Seq(Visible) /\ (LineWidth(line) <= columns + s \/ Len(line) <= 1)
  BY <1>1, <1>2, <1>3, <1>4, FrontAndLast DEF Fitting
<1>12. PICK separates \in BOOLEAN : separates = NotSpace(Last(Last(w.lines)))
  BY DEF NotSpace
<1>13. Wrapped(w, c, columns) =
         IF IsSpace(c) THEN [v EXCEPT !.dropping = TRUE] ELSE Pushed(NextLine(v, separates), c)
  BY <1>6, <1>7, <1>12, Zenon DEF Wrapped
<1>14. CASE IsSpace(c)
  <2>1. PICK z : z = [v EXCEPT !.dropping = TRUE]
    OBVIOUS
  <2>2. z = [lines |-> w.lines, room |-> left, dropping |-> TRUE]
    BY ONLY <1>8, <2>1, WrapUpdate
  <2>3. z \in Records(columns, s) /\ z.lines # <<>> /\ z.dropping /\ z.room = columns - 1
    BY <1>1, <1>3, <1>4, <1>5, <1>6, <1>9, <1>14, <2>2 DEF Records
  <2>4. z \in Wraps(columns, s)
    BY <2>3 DEF Wraps
  <2> QED
    BY <1>13, <1>14, <2>1, <2>4
<1>15. CASE ~IsSpace(c)
  <2>1. PICK m, moved :
           /\ NextLine(v, separates)
                = [lines |-> m, room |-> v.room - LineWidth(moved), dropping |-> v.dropping]
           /\ m \in Seq(T) /\ m # <<>> /\ Last(m) = moved
           /\ moved \in {<<>>, LastWord(line)}
    BY <1>1, <1>2, <1>3, <1>10, NextLineMoves
  <2>2. PICK u : u = NextLine(v, separates)
    OBVIOUS
  <2>3. /\ LastWord(line) \in Seq(Visible)
        /\ \A i \in DOMAIN LastWord(line) : LastWord(line)[i] # "blank"
        /\ LastWord(line) # <<>> =>
             /\ LineWidth(LastWord(line)) <= LineWidth(line) - 1
             /\ line[1] = "wide" => LineWidth(LastWord(line)) <= LineWidth(line) - 3
    BY <1>11, LastWordWidth
  <2>4. <<>> \in Seq(Visible) /\ LineWidth(<<>>) = 0
    BY LineWidthNone
  <2>5. moved \in Seq(Visible)
    BY <2>1, <2>3, <2>4
  <2>6. LineWidth(moved) \in Nat /\ LineWidth(line) \in Nat
    BY <1>11, <2>5, LineWidthType
  <2>7. PICK rest \in Int : rest = left - LineWidth(moved)
    BY <1>9, <2>6
  <2>8. u = [lines |-> m, room |-> rest, dropping |-> w.dropping]
    BY <1>8, <2>1, <2>2, <2>7
  <2>9. u \in Records(columns, s) /\ u.lines = m /\ u.room = rest
    BY <1>1, <1>4, <2>1, <2>8 DEF Records
  <2>10. CASE moved = <<>>
    <3>1. rest + Width(c) <= columns
      BY <1>5, <1>6, <2>4, <2>7, <2>10
    <3>2. Pushed(u, c) \in Wraps(columns, s)
      BY <2>1, <2>9, <2>10, <3>1, AloneKeeps
    <3> QED
      BY <1>13, <1>15, <2>2, <3>2
  <2>11. CASE moved # <<>>
    <3>1. moved = LastWord(line) /\ LastWord(line) # <<>>
      BY <2>1, <2>11
    <3>2. LineWidth(moved) <= columns - 1
      <4>1. w.room >= 0
        BY <1>3, <3>1 DEF Counted
      <4>2. \/ w.room + LineWidth(line) <= columns
            \/ line[1] = "wide" /\ w.room + LineWidth(line) <= columns + 1
        BY <1>3 DEF Counted
      <4>3. /\ LineWidth(moved) <= LineWidth(line) - 1
            /\ line[1] = "wide" => LineWidth(moved) <= LineWidth(line) - 3
        BY <2>3, <3>1
      <4> QED
        BY <1>4, <2>6, <4>1, <4>2, <4>3
    <3>3. PICK x : x = Append(moved, c)
      OBVIOUS
    <3>4. PICK n \in Nat : n = Len(moved) /\ DOMAIN moved = 1..n
      BY <2>5, LenProperties
    <3>5. /\ x \in Seq(Visible) /\ x # <<>> /\ DOMAIN x = 1..n + 1 /\ x[n + 1] = c
          /\ \A i \in 1..n : x[i] = moved[i]
      BY <1>5, <2>5, <3>3, <3>4, AppendProperties
    <3>6. \A i \in DOMAIN x : x[i] # "blank"
      <4>1. \A i \in DOMAIN x : i \in 1..n \/ i = n + 1
        BY <3>5
      <4> QED
        BY <1>5, <1>15, <2>3, <3>1, <3>4, <3>5, <4>1
    <3>7. LastWord(x) = <<>>
      BY <3>5, <3>6, NoBlankNoWord
    <3>8. LineWidth(x) = LineWidth(moved) + Width(c)
      BY <1>5, <2>5, <3>3, LineWidthAppend
    <3>9. LineWidth(x) <= columns + s
      BY <1>5, <2>6, <3>2, <3>8
    <3>10. x \in Fitting(columns, s)
      BY <3>5, <3>9 DEF Fitting
    <3>11. rest + LineWidth(x) <= columns
      BY <1>5, <1>6, <2>6, <2>7, <3>8
    <3>12. Counted(rest, x, columns, s)
      BY <3>7, <3>11 DEF Counted
    <3>13. Append(Last(u.lines), c) = x
      BY <2>1, <2>9, <3>3
    <3>14. Pushed(u, c) \in Wraps(columns, s)
      BY <2>1, <2>9, <3>10, <3>12, <3>13, PushedKeeps
    <3> QED
      BY <1>13, <1>15, <2>2, <3>14
  <2> QED
    BY <2>10, <2>11
<1> QED
  BY <1>14, <1>15

LEMMA TurnKeeps ==
  ASSUME NEW columns \in Int, NEW s \in {0, 1}, NEW w \in Wraps(columns, s), NEW c \in Letters(s)
  PROVE  Turn(w, c, columns) \in Wraps(columns, s)
<1>1. PICK T : T = Fitting(columns, s)
  OBVIOUS
<1>2. w \in Records(columns, s) /\ w.lines # <<>>
  BY DEF Wraps
<1>3. /\ w = [lines |-> w.lines, room |-> w.room, dropping |-> w.dropping]
      /\ w.lines \in Seq(T) /\ w.room \in Int /\ w.dropping \in BOOLEAN
  BY <1>1, <1>2, WrapRecord DEF Records
<1>4. CASE w.dropping /\ IsSpace(c)
  <2>1. Turn(w, c, columns) = w
    BY <1>4, Zenon DEF Turn
  <2> QED
    BY <2>1
<1>5. CASE w.dropping /\ ~IsSpace(c)
  <2>1. Turn(w, c, columns) = Pushed(NextLine(w, FALSE), c)
    BY <1>5, Zenon DEF Turn
  <2>2. PICK u : u = NextLine(w, FALSE)
    OBVIOUS
  <2>3. w.room = columns - 1
    BY <1>5 DEF Wraps
  <2>4. PICK m, moved :
           /\ u = [lines |-> m, room |-> w.room - LineWidth(moved), dropping |-> w.dropping]
           /\ m \in Seq(T) /\ m # <<>> /\ Last(m) = moved /\ moved = <<>>
    <3>1. PICK f \in BOOLEAN : f = FALSE
      OBVIOUS
    <3>2. \E m, moved :
           /\ NextLine(w, f)
                = [lines |-> m, room |-> w.room - LineWidth(moved), dropping |-> w.dropping]
           /\ m \in Seq(T) /\ m # <<>> /\ Last(m) = moved
           /\ moved \in {<<>>, LastWord(Last(w.lines))} /\ (~f => moved = <<>>)
      BY <1>1, <1>2, NextLineMoves
    <3> QED
      BY <2>2, <3>1, <3>2
  <2>5. w.room - LineWidth(moved) = columns - 1
    BY <1>3, <2>3, <2>4, LineWidthNone
  <2>6. u = [lines |-> m, room |-> columns - 1, dropping |-> w.dropping]
    BY <2>4, <2>5
  <2>7. u \in Records(columns, s) /\ u.lines = m /\ u.room = columns - 1
    BY <1>1, <1>3, <2>4, <2>6 DEF Records
  <2>8. c # "newline"
    BY <1>5 DEF IsSpace
  <2>9. Pushed(u, c) \in Wraps(columns, s)
    BY <2>4, <2>7, <2>8, AloneKeeps
  <2> QED
    BY <2>1, <2>2, <2>9
<1>6. CASE ~w.dropping /\ c = "newline"
  <2>1. Turn(w, c, columns) = Broken(w, columns)
    BY <1>6, Zenon DEF Turn
  <2>2. PICK f : f = Front(w.lines)
    OBVIOUS
  <2>3. PICK t : t = Trimmed(Last(w.lines))
    OBVIOUS
  <2>4. PICK none : none = <<>>
    OBVIOUS
  <2>5. none \in T /\ Counted(columns, none, columns, s)
    BY <1>1, <2>4, EmptyFits
  <2>6. f \in Seq(T) /\ t \in T
    BY <1>1, <1>2, <1>3, <2>2, <2>3, FrontAndLast, TrimmedFits
  <2>7. PICK g : g = f \o <<t>>
    OBVIOUS
  <2>8. g \in Seq(T)
    BY ONLY <2>6, <2>7, EndsWithOne
  <2>9. PICK m : m = Append(g, none)
    OBVIOUS
  <2>10. m \in Seq(T) /\ m # <<>> /\ Last(m) = none
    <3>1. g \o <<none>> = m
      BY ONLY <2>5, <2>8, <2>9, AppendIsConcat
    <3>2. g \o <<none>> \in Seq(T) /\ g \o <<none>> # <<>> /\ Last(g \o <<none>>) = none
      BY ONLY <2>5, <2>8, EndsWithOne
    <3> QED
      BY ONLY <3>1, <3>2, Zenon
  <2>11. Turn(w, c, columns) = [w EXCEPT !.lines = m, !.room = columns]
    BY <2>1, <2>2, <2>3, <2>4, <2>7, <2>9, Zenon DEF Broken
  <2>12. PICK z : z = [lines |-> m, room |-> columns, dropping |-> w.dropping]
    OBVIOUS
  <2>13. Turn(w, c, columns) = z
    BY ONLY <1>3, <2>11, <2>12, WrapUpdates
  <2>14. z \in Records(columns, s) /\ z.lines = m /\ z.room = columns /\ z.dropping = w.dropping
    BY <1>1, <1>3, <2>10, <2>12 DEF Records
  <2>15. z \in Wraps(columns, s)
    BY <1>6, <2>5, <2>10, <2>14 DEF Wraps
  <2> QED
    BY <2>13, <2>15
<1>7. CASE ~w.dropping /\ c # "newline"
  <2>1. PICK left : left = w.room - Width(c)
    OBVIOUS
  <2>2. Turn(w, c, columns) =
          IF Width(c) <= 0 THEN w
          ELSE IF left >= 0 \/ Last(w.lines) = <<>> THEN Pushed([w EXCEPT !.room = left], c)
          ELSE Wrapped(w, c, columns)
    BY <1>7, <2>1, Zenon DEF Turn
  <2>3. left >= 0 \/ Last(w.lines) = <<>> => Pushed([w EXCEPT !.room = left], c) \in Wraps(columns, s)
    BY <1>7, <2>1, RoomKeeps
  <2>4. Wrapped(w, c, columns) \in Wraps(columns, s)
    BY <1>7, WrappedKeeps
  <2> QED
    BY <2>2, <2>3, <2>4
<1> QED
  BY <1>4, <1>5, <1>6, <1>7

F == INSTANCE FoldLemmas WITH Op <- Turn

(* create_prompt_lines keeps every line in the box, whatever the prompt    *)
(* and the width: no line is wider than there is room, or by one column    *)
(* where the prompt has wide characters, unless it is a single character.  *)
THEOREM PromptLinesFit ==
  ASSUME NEW prompt \in Seq(Characters), NEW columns \in Int
  PROVE  /\ CreatePromptLines(prompt, columns) \in Lines
         /\ CreatePromptLines(prompt, columns) # <<>>
         /\ Fits(prompt, CreatePromptLines(prompt, columns), columns)
<1>1. PICK s \in {0, 1} : s = IF Contains(prompt, "wide") THEN 1 ELSE 0
  OBVIOUS
<1>2. PICK T : T = Fitting(columns, s)
  OBVIOUS
<1>3. prompt \in Seq(Letters(s))
  <2>1. PICK n \in Nat : n = Len(prompt) /\ DOMAIN prompt = 1..n
    BY LenProperties
  <2>2. CASE s = 1
    BY <2>2 DEF Letters
  <2>3. CASE s = 0
    <3>1. \A i \in 1..n : prompt[i] \in Characters /\ prompt[i] # "wide"
      BY <1>1, <2>1, <2>3, ElementOfSeq DEF Contains
    <3>2. \A i \in 1..Len(prompt) : prompt[i] \in Letters(s)
      BY <2>1, <2>3, <3>1 DEF Letters
    <3> QED
      BY <3>2
  <2> QED
    BY <2>2, <2>3
<1>4. PICK w : w = F!Fold(NewWrap(columns), prompt, columns)
  OBVIOUS
<1>5. w \in Wraps(columns, s)
  <2>1. PICK V : V = Wraps(columns, s)
    OBVIOUS
  <2>2. \A v \in V, c \in Letters(s) : Turn(v, c, columns) \in V
    BY <2>1, TurnKeeps
  <2>3. NewWrap(columns) \in V
    BY <2>1, NewWrapKeeps
  <2>4. F!Fold(NewWrap(columns), prompt, columns) \in V
    BY <1>3, <2>2, <2>3, F!FoldInSet
  <2> QED
    BY <1>4, <2>1, <2>4
<1>6. PICK lines : lines = IF w.dropping THEN Front(w.lines) \o <<Trimmed(Last(w.lines))>> ELSE w.lines
  OBVIOUS
<1>7. CreatePromptLines(prompt, columns) = lines
  BY <1>4, <1>6 DEF CreatePromptLines, F!Fold, FoldLeft, F!FoldLeft, MapThenFoldSet,
                    F!MapThenFoldSet, Max, F!Max
<1>8. w.lines \in Seq(T) /\ w.lines # <<>>
  BY <1>2, <1>5 DEF Wraps, Records
<1>9. lines \in Seq(T) /\ lines # <<>>
  <2>1. PICK f : f = Front(w.lines)
    OBVIOUS
  <2>2. PICK t : t = Trimmed(Last(w.lines))
    OBVIOUS
  <2>3. f \in Seq(T) /\ t \in T
    BY <1>2, <1>8, <2>1, <2>2, FrontAndLast, TrimmedFits
  <2>4. f \o <<t>> \in Seq(T) /\ f \o <<t>> # <<>>
    BY ONLY <2>3, EndsWithOne
  <2> QED
    BY <1>6, <1>8, <2>1, <2>2, <2>4
<1>10. \A i \in DOMAIN lines :
         /\ lines[i] \in Seq(Characters)
         /\ LineWidth(lines[i]) <= columns + s \/ Len(lines[i]) <= 1
  <2> SUFFICES ASSUME NEW i \in DOMAIN lines
               PROVE  /\ lines[i] \in Seq(Characters)
                      /\ LineWidth(lines[i]) <= columns + s \/ Len(lines[i]) <= 1
    OBVIOUS
  <2>1. lines[i] \in T
    BY <1>9, LenProperties, ElementOfSeq
  <2>2. Visible \subseteq Characters
    BY DEF Visible
  <2> QED
    BY <1>2, <2>1, <2>2 DEF Fitting
<1>11. lines \in Lines
  <2>1. DOMAIN lines = 1..Len(lines) /\ Len(lines) \in Nat
    BY <1>9, LenProperties
  <2>2. \A i \in 1..Len(lines) : lines[i] \in Seq(Characters)
    BY <1>10, <2>1
  <2>3. lines \in Seq(Seq(Characters))
    BY <1>9, <2>1, <2>2
  <2> QED
    BY <2>3 DEF Lines
<1>12. Fits(prompt, lines, columns)
  BY <1>1, <1>10 DEF Fits
<1> QED
  BY <1>7, <1>9, <1>11, <1>12

-------------------------------------------------------------------------------
(* What wrapping keeps of the prompt.                                      *)

(* The glyphs of a text.                                                   *)
SeenStep(glyphs, c, k) == Seen(glyphs, c)
G == INSTANCE FoldLemmas WITH Op <- SeenStep

LEMMA GlyphsIs == ASSUME NEW s PROVE Glyphs(s) = G!Fold(<<>>, s, 0)
  BY DEF Glyphs, SeenStep, G!Fold, FoldLeft, G!FoldLeft, MapThenFoldSet, G!MapThenFoldSet,
         Max, G!Max

LEMMA GlyphsType == ASSUME NEW s \in Seq(Characters) PROVE Glyphs(s) \in Seq(Characters)
<1>1. PICK V : V = Seq(Characters)
  OBVIOUS
<1>2. \A g \in V, c \in Characters : SeenStep(g, c, 0) \in V
  BY <1>1 DEF SeenStep, Seen
<1>3. <<>> \in V
  BY <1>1
<1>4. G!Fold(<<>>, s, 0) \in V
  BY <1>2, <1>3, G!FoldInSet
<1> QED
  BY <1>1, <1>4, GlyphsIs

LEMMA GlyphsNone == Glyphs(<<>>) = <<>>
  BY GlyphsIs, G!FoldEmpty

LEMMA GlyphsAppend ==
  ASSUME NEW s \in Seq(Characters), NEW c \in Characters
  PROVE  Glyphs(Append(s, c)) = Seen(Glyphs(s), c)
<1>1. PICK n \in Nat : n = Len(s) /\ DOMAIN s = 1..n
  BY LenProperties
<1>2. PICK more : more = Append(s, c)
  OBVIOUS
<1>3. DOMAIN more = 1..n + 1 /\ more[n + 1] = c /\ \A i \in 1..n : s[i] = more[i]
  BY <1>1, <1>2, AppendProperties
<1>4. G!Fold(<<>>, more, 0) = SeenStep(G!Fold(<<>>, s, 0), more[n + 1], 0)
  BY <1>1, <1>3, G!FoldLast
<1> QED
  BY <1>2, <1>3, <1>4, GlyphsIs DEF SeenStep

(* A beginning of a text, and one character more of it.                    *)
LEMMA BeginningGrows ==
  ASSUME NEW S, NEW s \in Seq(S), NEW i \in 1..Len(s)
  PROVE  /\ SubSeq(s, 1, i) = Append(SubSeq(s, 1, i - 1), s[i])
         /\ SubSeq(s, 1, i - 1) \in Seq(S) /\ SubSeq(s, 1, i) \in Seq(S) /\ s[i] \in S
<1>1. PICK n \in Nat : n = Len(s) /\ i \in 1..n
  BY LenProperties
<1>2. \A k \in 1..n : s[k] \in S
  BY <1>1, ElementOfSeq
<1>3. SubSeq(s, 1, i - 1) \in Seq(S) /\ SubSeq(s, 1, i) \in Seq(S)
  BY <1>1, <1>2, SubSeqProperties
<1>4. 1 \in 1..Len(s) /\ i \in 1..Len(s)
  BY <1>1
<1> QED
  BY <1>1, <1>2, <1>3, <1>4, SubSeqRecursiveSecond, AppendIsConcat

LEMMA GlyphsGrow ==
  ASSUME NEW s \in Seq(Characters), NEW i \in 1..Len(s)
  PROVE  Glyphs(SubSeq(s, 1, i)) = Seen(Glyphs(SubSeq(s, 1, i - 1)), s[i])
  BY BeginningGrows, GlyphsAppend

(* A character is seen after others as it is seen alone.                   *)
LEMMA SeenTwice ==
  ASSUME NEW g \in Seq(Characters), NEW h \in Seq(Characters), NEW c \in Characters
  PROVE  g \o Seen(h, c) = Seen(g \o h, c)
<1>1. CASE IsGlyph(c)
  <2>1. g \o Append(h, c) = Append(g \o h, c)
    OBVIOUS
  <2> QED
    BY <1>1, <2>1 DEF Seen
<1>2. CASE ~IsGlyph(c)
  BY <1>2 DEF Seen
<1> QED
  BY <1>1, <1>2

(* The glyphs of two texts after each other.                               *)
LEMMA GlyphsConcat ==
  ASSUME NEW s \in Seq(Characters), NEW t \in Seq(Characters)
  PROVE  Glyphs(s \o t) = Glyphs(s) \o Glyphs(t)
<1>1. PICK n \in Nat : n = Len(t)
  BY LenProperties
<1> DEFINE T == {m \in 0..n : Glyphs(s \o SubSeq(t, 1, m)) = Glyphs(s) \o Glyphs(SubSeq(t, 1, m))}
<1>2. Glyphs(s) \in Seq(Characters)
  BY GlyphsType
<1>3. 0 \in T
  <2>1. SubSeq(t, 1, 0) = <<>>
    BY SubSeqEmpty
  <2>2. s \o <<>> = s /\ Glyphs(s) \o <<>> = Glyphs(s)
    BY <1>2
  <2>3. Glyphs(s \o SubSeq(t, 1, 0)) = Glyphs(s) \o Glyphs(SubSeq(t, 1, 0))
    BY ONLY <2>1, <2>2, GlyphsNone
  <2> QED
    BY <1>1, <2>3
<1>4. \A m \in 1..n : m - 1 \in T => m \in T
  <2> SUFFICES ASSUME NEW m \in 1..n, m - 1 \in T PROVE m \in T
    OBVIOUS
  <2>0. PICK u, v, c : u = SubSeq(t, 1, m - 1) /\ v = SubSeq(t, 1, m) /\ c = t[m]
    OBVIOUS
  <2>1. u \in Seq(Characters) /\ c \in Characters /\ v = Append(u, c)
    BY <1>1, <2>0, BeginningGrows
  <2>2. Glyphs(s \o u) = Glyphs(s) \o Glyphs(u)
    BY <2>0
  <2>3. s \o v = Append(s \o u, c) /\ s \o u \in Seq(Characters)
    BY <2>1
  <2>4. Glyphs(s \o v) = Seen(Glyphs(s \o u), c)
    BY <2>1, <2>3, GlyphsAppend
  <2>5. Glyphs(v) = Seen(Glyphs(u), c) /\ Glyphs(u) \in Seq(Characters)
    BY <2>1, GlyphsAppend, GlyphsType
  <2>6. Glyphs(s \o v) = Glyphs(s) \o Glyphs(v)
    <3>1. Glyphs(s) \o Seen(Glyphs(u), c) = Seen(Glyphs(s) \o Glyphs(u), c)
      BY <1>2, <2>1, <2>5, SeenTwice
    <3> QED
      BY ONLY <2>2, <2>4, <2>5, <3>1
  <2> QED
    BY <2>0, <2>6
<1>5. n \in T
  <2> HIDE DEF T
  <2>1. 0..n \subseteq T
    BY <1>1, <1>3, <1>4, StepByStep
  <2> QED
    BY <2>1
<1>6. SubSeq(t, 1, n) = t
  BY <1>1, SubSeqFull
<1> QED
  BY <1>5, <1>6

(* There are none in white space.                                          *)
LEMMA NoGlyphs ==
  ASSUME NEW s \in Seq(Characters), \A i \in 1..Len(s) : IsSpace(s[i])
  PROVE  Glyphs(s) = <<>>
<1>1. PICK n \in Nat : n = Len(s)
  BY LenProperties
<1> DEFINE T == {m \in 0..n : Glyphs(SubSeq(s, 1, m)) = <<>>}
<1>2. 0 \in T
  <2>1. SubSeq(s, 1, 0) = <<>>
    BY SubSeqEmpty
  <2>2. Glyphs(SubSeq(s, 1, 0)) = <<>>
    BY ONLY <2>1, GlyphsNone
  <2> QED
    BY <1>1, <2>2
<1>3. \A m \in 1..n : m - 1 \in T => m \in T
  <2> SUFFICES ASSUME NEW m \in 1..n, m - 1 \in T PROVE m \in T
    OBVIOUS
  <2>1. Glyphs(SubSeq(s, 1, m)) = Seen(Glyphs(SubSeq(s, 1, m - 1)), s[m])
    BY <1>1, GlyphsGrow
  <2>2. ~IsGlyph(s[m])
    BY <1>1 DEF IsGlyph, NotSpace
  <2> QED
    BY <2>1, <2>2 DEF Seen
<1>4. n \in T
  <2> HIDE DEF T
  <2>1. 0..n \subseteq T
    BY <1>1, <1>2, <1>3, StepByStep
  <2> QED
    BY <2>1
<1>5. SubSeq(s, 1, n) = s
  BY <1>1, SubSeqFull
<1> QED
  BY <1>4, <1>5

(* A line in two parts.                                                    *)
LEMMA LineSplits ==
  ASSUME NEW line \in Seq(Visible), NEW i \in 0..Len(line)
  PROVE  /\ SubSeq(line, 1, i) \in Seq(Visible) /\ SubSeq(line, i + 1, Len(line)) \in Seq(Visible)
         /\ Len(SubSeq(line, 1, i)) = i /\ Len(SubSeq(line, i + 1, Len(line))) = Len(line) - i
         /\ \A k \in 1..i : SubSeq(line, 1, i)[k] = line[k]
         /\ \A k \in 1..Len(line) - i : SubSeq(line, i + 1, Len(line))[k] = line[i + k]
         /\ line = SubSeq(line, 1, i) \o SubSeq(line, i + 1, Len(line))
<1>1. PICK n \in Nat : n = Len(line) /\ i \in 0..n
  BY LenProperties
<1>2. \A k \in 1..n : line[k] \in Visible
  BY <1>1, ElementOfSeq
<1>3. /\ SubSeq(line, 1, i) \in Seq(Visible) /\ Len(SubSeq(line, 1, i)) = i
      /\ \A k \in 1..i : SubSeq(line, 1, i)[k] = line[k]
  <2>1. \A k \in 1..i : line[k] \in Visible
    BY <1>1, <1>2
  <2>2. 1 \in Int /\ i \in Int
    BY <1>1
  <2>3. /\ SubSeq(line, 1, i) \in Seq(Visible)
        /\ Len(SubSeq(line, 1, i)) = IF 1 <= i THEN i - 1 + 1 ELSE 0
        /\ \A k \in 1..i - 1 + 1 : SubSeq(line, 1, i)[k] = line[1 + k - 1]
    BY <2>1, <2>2, SubSeqProperties
  <2> QED
    BY <1>1, <2>3
<1>4. /\ SubSeq(line, i + 1, n) \in Seq(Visible) /\ Len(SubSeq(line, i + 1, n)) = n - i
      /\ \A k \in 1..n - i : SubSeq(line, i + 1, n)[k] = line[i + k]
  <2>1. \A k \in i + 1..n : line[k] \in Visible
    BY <1>1, <1>2
  <2>2. i + 1 \in Int /\ n \in Int
    BY <1>1
  <2>3. /\ SubSeq(line, i + 1, n) \in Seq(Visible)
        /\ Len(SubSeq(line, i + 1, n)) = IF i + 1 <= n THEN n - (i + 1) + 1 ELSE 0
        /\ \A k \in 1..n - (i + 1) + 1 : SubSeq(line, i + 1, n)[k] = line[i + 1 + k - 1]
    BY <2>1, <2>2, SubSeqProperties
  <2> QED
    BY <1>1, <2>3
<1>5. line = SubSeq(line, 1, i) \o SubSeq(line, i + 1, n)
  <2>1. 1 \in 1..n + 1 /\ i \in 1 - 1..n /\ n \in i..n
    BY <1>1
  <2>2. SubSeq(line, 1, i) \o SubSeq(line, i + 1, n) = SubSeq(line, 1, n)
    BY <1>1, <2>1, ConcatAdjacentSubSeq
  <2> QED
    BY <1>1, <2>2, SubSeqFull
<1> QED
  BY <1>1, <1>3, <1>4, <1>5

LEMMA VisibleText == ASSUME NEW line \in Seq(Visible) PROVE line \in Seq(Characters)
<1>1. PICK n \in Nat : n = Len(line) /\ line \in [1..n -> Visible]
  BY LenProperties
<1>2. Visible \subseteq Characters
  BY DEF Visible
<1> QED
  BY <1>1, <1>2, SeqDef

(* The last place of a kind in a line.                                     *)
LEMMA LastPlace ==
  ASSUME NEW n \in Nat, NEW I, I \subseteq 1..n, NEW k, k = IF I # {} THEN Max(I) ELSE 0
  PROVE  /\ k \in 0..n
         /\ k = 0 => I = {}
         /\ k # 0 => k \in I
         /\ \A i \in k + 1..n : i \notin I
<1>1. CASE I = {}
  BY <1>1
<1>2. CASE I # {}
  <2>1. I \subseteq Int /\ n \in Int /\ \A i \in I : i <= n
    OBVIOUS
  <2>2. k \in I /\ \A i \in I : i <= k
    BY <1>2, <2>1, GreatestElement
  <2> QED
    BY <2>2
<1> QED
  BY <1>1, <1>2

(* Trimming a line leaves its glyphs, and all of it if it has no white     *)
(* space at its end.                                                       *)
LEMMA TrimmedKeeps ==
  ASSUME NEW line \in Seq(Visible)
  PROVE  /\ Trimmed(line) \in Seq(Visible)
         /\ Glyphs(Trimmed(line)) = Glyphs(line)
         /\ Len(line) # 0 /\ NotSpace(line[Len(line)]) => Trimmed(line) = line
<1>1. PICK n \in Nat : n = Len(line)
  BY LenProperties
<1>2. PICK I : I = {i \in 1..n : NotSpace(line[i])}
  OBVIOUS
<1>3. PICK k : k = SelectLastInSeq(line, NotSpace)
  OBVIOUS
<1>4. k = IF I # {} THEN Max(I) ELSE 0
  BY <1>1, <1>2, <1>3 DEF SelectLastInSeq
<1>5. I \subseteq 1..n
  BY <1>2
<1>6. k \in 0..n /\ \A i \in k + 1..n : i \notin I
  BY <1>4, <1>5, LastPlace
<1>7. PICK u, v : u = SubSeq(line, 1, k) /\ v = SubSeq(line, k + 1, n)
  OBVIOUS
<1>8. Trimmed(line) = u
  BY <1>3, <1>7 DEF Trimmed
<1>9. /\ u \in Seq(Visible) /\ v \in Seq(Visible) /\ Len(v) = n - k
      /\ \A i \in 1..n - k : v[i] = line[k + i]
      /\ line = u \o v
  BY <1>1, <1>6, <1>7, LineSplits
<1>10. Glyphs(v) = <<>>
  <2>1. \A i \in 1..Len(v) : IsSpace(v[i])
    <3> SUFFICES ASSUME NEW i \in 1..n - k PROVE IsSpace(v[i])
      BY <1>9
    <3>1. k + i \in k + 1..n /\ k + i \in 1..n
      BY <1>6
    <3>2. k + i \notin I
      BY <1>6, <3>1
    <3> QED
      BY <1>2, <1>9, <3>1, <3>2 DEF NotSpace
  <2> QED
    BY <1>9, <2>1, VisibleText, NoGlyphs
<1>11. Glyphs(u) = Glyphs(line)
  <2>1. Glyphs(line) = Glyphs(u) \o Glyphs(v)
    BY <1>9, VisibleText, GlyphsConcat
  <2>2. Glyphs(u) \in Seq(Characters)
    BY <1>9, VisibleText, GlyphsType
  <2> QED
    BY <1>10, <2>1, <2>2
<1>12. ASSUME n # 0, NotSpace(line[n]) PROVE u = line
  <2>1. n \in I
    BY <1>1, <1>2, <1>12
  <2>2. k = n
    BY <1>6, <2>1
  <2> QED
    BY <1>1, <1>7, <2>2, SubSeqFull
<1> QED
  BY <1>1, <1>8, <1>9, <1>11, <1>12

Unspaced(line) == \A i \in 1..Len(line) : ~IsSpace(line[i])

(* The last word of a line, and what is before it.                         *)
LEMMA LastWordSplits ==
  ASSUME NEW line \in Seq(Visible)
  PROVE  \/ /\ LastWord(line) = <<>>
            /\ Unspaced(line) \/ (Len(line) # 0 /\ IsSpace(line[Len(line)]))
         \/ \E b \in 1..Len(line) :
              /\ LastWord(line) \in Seq(Visible) /\ Len(LastWord(line)) = Len(line) - b
              /\ b # Len(line)
              /\ Unspaced(LastWord(line)) /\ IsSpace(line[b])
              /\ line = SubSeq(line, 1, b) \o LastWord(line)
<1>1. PICK n \in Nat : n = Len(line)
  BY LenProperties
<1>2. PICK I : I = {i \in 1..n : IsSpace(line[i])}
  OBVIOUS
<1>3. PICK b : b = SelectLastInSeq(line, IsSpace)
  OBVIOUS
<1>4. b = IF I # {} THEN Max(I) ELSE 0
  BY <1>1, <1>2, <1>3 DEF SelectLastInSeq
<1>5. I \subseteq 1..n
  BY <1>2
<1>6. b \in 0..n /\ (b = 0 => I = {}) /\ (b # 0 => b \in I) /\ \A i \in b + 1..n : i \notin I
  BY <1>4, <1>5, LastPlace
<1>7. LastWord(line) = IF b = 0 THEN <<>> ELSE SubSeq(line, b + 1, n)
  BY <1>1, <1>3 DEF LastWord
<1>8. CASE b = 0
  <2>1. Unspaced(line)
    BY <1>1, <1>2, <1>6, <1>8 DEF Unspaced
  <2> QED
    BY <1>7, <1>8, <2>1
<1>9. CASE b = n /\ b # 0
  <2>1. LastWord(line) = <<>>
    <3>1. LastWord(line) = SubSeq(line, n + 1, n)
      BY <1>7, <1>9
    <3> QED
      BY <3>1, SubSeqEmpty
  <2>2. IsSpace(line[n])
    BY <1>2, <1>6, <1>9
  <2> QED
    BY <1>1, <1>9, <2>1, <2>2
<1>10. CASE b # n /\ b # 0
  <2>1. PICK word : word = SubSeq(line, b + 1, n) /\ word = LastWord(line)
    BY <1>7, <1>10
  <2>2. /\ word \in Seq(Visible) /\ Len(word) = n - b
        /\ \A i \in 1..n - b : word[i] = line[b + i]
        /\ line = SubSeq(line, 1, b) \o word
    <3>1. b \in 0..Len(line)
      BY <1>1, <1>6
    <3>2. /\ SubSeq(line, b + 1, n) \in Seq(Visible) /\ Len(SubSeq(line, b + 1, n)) = n - b
          /\ \A i \in 1..n - b : SubSeq(line, b + 1, n)[i] = line[b + i]
          /\ line = SubSeq(line, 1, b) \o SubSeq(line, b + 1, n)
      BY <1>1, <3>1, LineSplits
    <3> QED
      BY ONLY <2>1, <3>2
  <2>3. Unspaced(word)
    <3> SUFFICES ASSUME NEW i \in 1..n - b PROVE ~IsSpace(word[i])
      BY <2>2 DEF Unspaced
    <3>1. b + i \in b + 1..n /\ b + i \in 1..n
      BY <1>6
    <3>2. b + i \notin I
      BY <1>6, <3>1
    <3> QED
      BY <1>2, <2>2, <3>1, <3>2
  <2>4. b \in 1..n /\ IsSpace(line[b])
    BY <1>2, <1>6, <1>10
  <2> QED
    BY <1>1, <1>10, <2>1, <2>2, <2>3, <2>4
<1> QED
  BY <1>8, <1>9, <1>10

(* The glyphs of the lines above.                                          *)
Above(lines) == Glyphs(FlattenSeq(lines))

LEMMA AboveNone == Above(<<>>) = <<>>
<1>1. FlattenSeq(<<>>) = <<>>
  BY DEF FlattenSeq
<1> QED
  BY <1>1, GlyphsNone DEF Above

(* A line more above.                                                      *)
LEMMA AboveMore ==
  ASSUME NEW lines \in Seq(Seq(Visible)), NEW line \in Seq(Visible)
  PROVE  /\ Above(lines) \in Seq(Characters) /\ Glyphs(line) \in Seq(Characters)
         /\ Append(lines, line) \in Seq(Seq(Visible))
         /\ Above(Append(lines, line)) = Above(lines) \o Glyphs(line)
<1>1. PICK f : f = FlattenSeq(lines) /\ f \in Seq(Visible)
  BY FlattenSeqType
<1>2. FlattenSeq(Append(lines, line)) = f \o line
  BY <1>1, FlattenSeqAppend
<1>3. f \in Seq(Characters) /\ line \in Seq(Characters)
  BY <1>1, VisibleText
<1>4. Glyphs(f \o line) = Glyphs(f) \o Glyphs(line)
  BY <1>3, GlyphsConcat
<1>5. Glyphs(f) \in Seq(Characters) /\ Glyphs(line) \in Seq(Characters)
  BY <1>3, GlyphsType
<1> QED
  BY <1>1, <1>2, <1>4, <1>5 DEF Above

(* What has been told when i characters of the prompt are read.            *)
Told(prompt, i) == Glyphs(SubSeq(prompt, 1, i))

SpacedSoFar(prompt, i, n) == \E j \in 1..i : IsSpace(prompt[j]) /\ Len(Told(prompt, j)) = n

(* A line that ends after n glyphs, within a word.                         *)
Full(prompt, i, columns, n, line) ==
  /\ n < Len(Told(prompt, i))
  /\ Unspaced(line)
  /\ LineWidth(line) + Width(Told(prompt, i)[n + 1]) > columns

Ends(prompt, i, columns, lines, line) ==
  \/ SpacedSoFar(prompt, i, Len(Above(lines)))
  \/ Full(prompt, i, columns, Len(Above(lines)), line)

LinesEnd(prompt, i, columns, lines) ==
  \A j \in 1..Len(lines) : Ends(prompt, i, columns, SubSeq(lines, 1, j), lines[j])

(* White space in the last line is white space of the prompt.              *)
SpacesTold(prompt, i, told, line) ==
  \A b \in 1..Len(line) :
    IsSpace(line[b]) => SpacedSoFar(prompt, i, told + Len(Glyphs(SubSeq(line, 1, b))))

LEMMA ToldType ==
  ASSUME NEW prompt \in Seq(Characters), NEW i \in 0..Len(prompt)
  PROVE  Told(prompt, i) \in Seq(Characters) /\ Len(Told(prompt, i)) \in Nat
<1>1. PICK n \in Nat : n = Len(prompt) /\ i \in 0..n
  BY LenProperties
<1>2. \A k \in 1..i : prompt[k] \in Characters
  BY <1>1, ElementOfSeq
<1>3. SubSeq(prompt, 1, i) \in Seq(Characters)
  BY <1>1, <1>2, SubSeqProperties
<1> QED
  BY <1>3, GlyphsType, LenProperties DEF Told

(* One character more is read.                                             *)
LEMMA ReadOn ==
  ASSUME NEW prompt \in Seq(Characters), NEW i \in 1..Len(prompt), NEW columns \in Int
  PROVE  /\ prompt[i] \in Characters
         /\ Told(prompt, i) = Seen(Told(prompt, i - 1), prompt[i])
         /\ Told(prompt, i) \in Seq(Characters) /\ Told(prompt, i - 1) \in Seq(Characters)
         /\ IsSpace(prompt[i]) => SpacedSoFar(prompt, i, Len(Told(prompt, i)))
         /\ \A n : SpacedSoFar(prompt, i - 1, n) => SpacedSoFar(prompt, i, n)
         /\ \A n \in Nat : \A line :
              Full(prompt, i - 1, columns, n, line) => Full(prompt, i, columns, n, line)
<1>1. PICK m \in Nat : m = Len(prompt) /\ i \in 1..m
  BY LenProperties
<1>2. prompt[i] \in Characters
  BY <1>1, ElementOfSeq
<1>3. Told(prompt, i) = Seen(Told(prompt, i - 1), prompt[i])
  BY GlyphsGrow DEF Told
<1>4. i \in 0..Len(prompt) /\ i - 1 \in 0..Len(prompt)
  BY <1>1
<1>5. Told(prompt, i) \in Seq(Characters) /\ Told(prompt, i - 1) \in Seq(Characters)
  BY <1>4, ToldType
<1>6. IsSpace(prompt[i]) => SpacedSoFar(prompt, i, Len(Told(prompt, i)))
  <2>1. i \in 1..i
    BY <1>1
  <2> QED
    BY <2>1 DEF SpacedSoFar
<1>7. \A n : SpacedSoFar(prompt, i - 1, n) => SpacedSoFar(prompt, i, n)
  <2>1. \A j \in 1..i - 1 : j \in 1..i
    BY <1>1
  <2> QED
    BY <2>1 DEF SpacedSoFar
<1>8. \A n \in Nat : \A line :
        Full(prompt, i - 1, columns, n, line) => Full(prompt, i, columns, n, line)
  <2> SUFFICES ASSUME NEW n \in Nat, NEW line, Full(prompt, i - 1, columns, n, line)
               PROVE  Full(prompt, i, columns, n, line)
    OBVIOUS
  <2>1. PICK g, h : /\ g = Told(prompt, i - 1) /\ h = Told(prompt, i)
    OBVIOUS
  <2>2. /\ g \in Seq(Characters) /\ h = Seen(g, prompt[i]) /\ n < Len(g) /\ Len(g) \in Nat
        /\ Unspaced(line) /\ LineWidth(line) + Width(g[n + 1]) > columns
    BY <1>3, <1>5, <2>1, LenProperties DEF Full
  <2>3. CASE h = g
    BY <2>1, <2>2, <2>3 DEF Full
  <2>4. CASE h = Append(g, prompt[i])
    <3>1. n + 1 \in 1..Len(g)
      BY <2>2
    <3>2. Len(h) = Len(g) + 1 /\ h[n + 1] = g[n + 1]
      BY <1>2, <2>2, <2>4, <3>1, AppendProperties
    <3>3. n < Len(h)
      BY <2>2, <3>2
    <3> QED
      BY <2>1, <2>2, <3>2, <3>3 DEF Full
  <2> QED
    BY <2>2, <2>3, <2>4 DEF Seen
<1> QED
  BY <1>2, <1>3, <1>5, <1>6, <1>7, <1>8

(* The lines still end well when one character more is read,               *)
LEMMA LinesEndOn ==
  ASSUME NEW prompt \in Seq(Characters), NEW i \in 1..Len(prompt), NEW columns \in Int,
         NEW lines \in Seq(Seq(Visible)), LinesEnd(prompt, i - 1, columns, lines)
  PROVE  LinesEnd(prompt, i, columns, lines)
<1> SUFFICES ASSUME NEW j \in 1..Len(lines)
             PROVE  Ends(prompt, i, columns, SubSeq(lines, 1, j), lines[j])
  BY DEF LinesEnd
<1>1. Ends(prompt, i - 1, columns, SubSeq(lines, 1, j), lines[j])
  BY DEF LinesEnd
<1>2. Len(Above(SubSeq(lines, 1, j))) \in Nat
  <2>1. SubSeq(lines, 1, j) \in Seq(Seq(Visible))
    BY BeginningGrows
  <2>2. FlattenSeq(SubSeq(lines, 1, j)) \in Seq(Visible)
    BY <2>1, FlattenSeqType
  <2> QED
    BY <2>2, VisibleText, GlyphsType, LenProperties DEF Above
<1> QED
  BY <1>1, <1>2, ReadOn DEF Ends

LEMMA BeginningOfAppended ==
  ASSUME NEW lines \in Seq(Seq(Visible)), NEW line \in Seq(Visible), NEW j \in 1..Len(lines)
  PROVE  SubSeq(Append(lines, line), 1, j) = SubSeq(lines, 1, j)
<1>1. PICK e, T : e = <<line>> /\ T = Seq(Visible) /\ line \in T
  OBVIOUS
<1>2. Append(lines, line) = lines \o e
  BY <1>1, AppendIsConcat
<1>3. e \in Seq(T) /\ lines \in Seq(T)
  BY <1>1
<1>4. 1 \in 1..Len(lines) /\ j \in 1..Len(lines)
  BY LenProperties
<1>5. SubSeq(lines \o e, 1, j) = SubSeq(lines, 1, j)
  BY ONLY <1>3, <1>4, SubSeqOfConcat1
<1> QED
  BY ONLY <1>2, <1>5

(* and when another line that ends well is added.                          *)
LEMMA LinesEndMore ==
  ASSUME NEW prompt, NEW i, NEW columns,
         NEW lines \in Seq(Seq(Visible)), NEW line \in Seq(Visible),
         LinesEnd(prompt, i, columns, lines),
         Ends(prompt, i, columns, Append(lines, line), line)
  PROVE  LinesEnd(prompt, i, columns, Append(lines, line))
<1>1. PICK more : more = Append(lines, line)
  OBVIOUS
<1>2. PICK n \in Nat : n = Len(lines)
  BY LenProperties
<1>3. /\ more \in Seq(Seq(Visible)) /\ Len(more) = n + 1 /\ more[n + 1] = line
      /\ \A j \in 1..n : more[j] = lines[j]
  BY <1>1, <1>2, AppendProperties
<1> SUFFICES ASSUME NEW j \in 1..n + 1
             PROVE  Ends(prompt, i, columns, SubSeq(more, 1, j), more[j])
  BY <1>1, <1>3 DEF LinesEnd
<1>4. CASE j = n + 1
  <2>1. SubSeq(more, 1, j) = more
    BY <1>3, <1>4, SubSeqFull
  <2> QED
    BY <1>1, <1>3, <1>4, <2>1
<1>5. CASE j # n + 1
  <2>1. j \in 1..n
    BY <1>5
  <2>2. SubSeq(more, 1, j) = SubSeq(lines, 1, j)
    BY <1>1, <1>2, <2>1, BeginningOfAppended
  <2> QED
    BY <1>2, <1>3, <2>1, <2>2 DEF LinesEnd
<1> QED
  BY <1>4, <1>5

Plain(prompt) == \A i \in DOMAIN prompt : prompt[i] # "combining"

(* The lines and what has been read.  Ready is when the lines are those    *)
(* that the next character, the i-th, is about to be put in; Kept is after *)
(* it was read.                                                            *)
Ready(prompt, i, columns, front, line) ==
  /\ front \in Seq(Seq(Visible)) /\ line \in Seq(Visible)
  /\ Above(front) \o Glyphs(line) = Told(prompt, i - 1)
  /\ Plain(prompt) => /\ LinesEnd(prompt, i, columns, front)
                      /\ SpacesTold(prompt, i, Len(Above(front)), line)

Kept(prompt, i, columns, front, line, room, dropping) ==
  /\ front \in Seq(Seq(Visible)) /\ line \in Seq(Visible)
  /\ room \in Int /\ dropping \in BOOLEAN
  /\ Above(front) \o Glyphs(line) = Told(prompt, i)
  /\ Plain(prompt) => /\ LinesEnd(prompt, i, columns, front)
                      /\ SpacesTold(prompt, i, Len(Above(front)), line)
                      /\ dropping => SpacedSoFar(prompt, i, Len(Told(prompt, i)))
                      /\ dropping => room = columns - 1
                      /\ ~dropping => room + LineWidth(line) >= columns

(* Between two characters nothing is lost.                                 *)
LEMMA KeptReady ==
  ASSUME NEW prompt \in Seq(Characters), NEW i \in 1..Len(prompt), NEW columns \in Int,
         NEW front, NEW line, NEW room, NEW dropping,
         Kept(prompt, i - 1, columns, front, line, room, dropping)
  PROVE  Ready(prompt, i, columns, front, line)
<1>1. /\ front \in Seq(Seq(Visible)) /\ line \in Seq(Visible)
      /\ Above(front) \o Glyphs(line) = Told(prompt, i - 1)
  BY DEF Kept
<1>2. ASSUME Plain(prompt)
      PROVE  /\ LinesEnd(prompt, i, columns, front)
             /\ SpacesTold(prompt, i, Len(Above(front)), line)
  <2>1. /\ LinesEnd(prompt, i - 1, columns, front)
        /\ SpacesTold(prompt, i - 1, Len(Above(front)), line)
    BY <1>2 DEF Kept
  <2>2. LinesEnd(prompt, i, columns, front)
    BY <1>1, <2>1, LinesEndOn
  <2>3. \A n : SpacedSoFar(prompt, i - 1, n) => SpacedSoFar(prompt, i, n)
    BY ReadOn
  <2> QED
    BY <2>1, <2>2, <2>3 DEF SpacesTold
<1> QED
  BY <1>1, <1>2 DEF Ready

(* A character is read that is no glyph and changes nothing.               *)
LEMMA KeptStays ==
  ASSUME NEW prompt \in Seq(Characters), NEW i \in 1..Len(prompt), NEW columns \in Int,
         NEW front, NEW line, NEW room, NEW dropping,
         Kept(prompt, i - 1, columns, front, line, room, dropping), ~IsGlyph(prompt[i])
  PROVE  Kept(prompt, i, columns, front, line, room, dropping)
<1>1. Ready(prompt, i, columns, front, line)
  BY KeptReady
<1>2. Told(prompt, i) = Told(prompt, i - 1)
  BY ReadOn DEF Seen
<1>3. \A n : SpacedSoFar(prompt, i - 1, n) => SpacedSoFar(prompt, i, n)
  BY ReadOn
<1> QED
  BY <1>1, <1>2, <1>3 DEF Kept, Ready

(* It is dropped.                                                          *)
LEMMA KeptDrops ==
  ASSUME NEW prompt \in Seq(Characters), NEW i \in 1..Len(prompt), NEW columns \in Int,
         NEW front, NEW line, Ready(prompt, i, columns, front, line), IsSpace(prompt[i])
  PROVE  Kept(prompt, i, columns, front, line, columns - 1, TRUE)
<1>1. Told(prompt, i) = Told(prompt, i - 1) /\ SpacedSoFar(prompt, i, Len(Told(prompt, i)))
  BY ReadOn DEF Seen, IsGlyph, NotSpace
<1> QED
  BY <1>1 DEF Kept, Ready

(* It is put at the end of the last line.                                  *)
LEMMA KeptPushes ==
  ASSUME NEW prompt \in Seq(Characters), NEW i \in 1..Len(prompt), NEW columns \in Int,
         NEW front, NEW line, Ready(prompt, i, columns, front, line), NEW room \in Int,
         prompt[i] \in Visible,
         Plain(prompt) => room + LineWidth(line) + Width(prompt[i]) >= columns
  PROVE  Kept(prompt, i, columns, front, Append(line, prompt[i]), room, FALSE)
<1>1. PICK c, more : c = prompt[i] /\ more = Append(line, c)
  OBVIOUS
<1>2. PICK told : told = Above(front)
  OBVIOUS
<1>3. /\ front \in Seq(Seq(Visible)) /\ line \in Seq(Visible) /\ c \in Visible
      /\ told \o Glyphs(line) = Told(prompt, i - 1)
      /\ Plain(prompt) => /\ LinesEnd(prompt, i, columns, front)
                          /\ SpacesTold(prompt, i, Len(told), line)
  BY <1>1, <1>2 DEF Ready
<1>4. told \in Seq(Characters) /\ Glyphs(line) \in Seq(Characters) /\ line \in Seq(Characters)
  BY <1>2, <1>3, AboveMore, VisibleText
<1>5. PICK n \in Nat : n = Len(line)
  BY <1>3, LenProperties
<1>6. /\ more \in Seq(Visible) /\ Len(more) = n + 1 /\ more[n + 1] = c
      /\ \A k \in 1..n : more[k] = line[k]
  BY <1>1, <1>3, <1>5, AppendProperties
<1>7. Told(prompt, i) = Seen(Told(prompt, i - 1), c)
      /\ (IsSpace(c) => SpacedSoFar(prompt, i, Len(Told(prompt, i))))
  BY <1>1, ReadOn
<1>8. told \o Glyphs(more) = Told(prompt, i)
  <2>1. c \in Characters
    BY <1>3 DEF Visible
  <2>2. Glyphs(more) = Seen(Glyphs(line), c)
    BY <1>1, <1>4, <2>1, GlyphsAppend
  <2>3. told \o Seen(Glyphs(line), c) = Seen(told \o Glyphs(line), c)
    BY <1>4, <2>1, SeenTwice
  <2> QED
    BY <1>3, <1>7, <2>2, <2>3
<1>9. ASSUME Plain(prompt)
      PROVE  SpacesTold(prompt, i, Len(told), more)
  <2> SUFFICES ASSUME NEW b \in 1..n + 1, IsSpace(more[b])
               PROVE  SpacedSoFar(prompt, i, Len(told) + Len(Glyphs(SubSeq(more, 1, b))))
    BY <1>6 DEF SpacesTold
  <2>1. CASE b = n + 1
    <3>1. SubSeq(more, 1, b) = more
      BY <1>6, <2>1, SubSeqFull
    <3>2. Glyphs(more) \in Seq(Characters)
      BY <1>6, VisibleText, GlyphsType
    <3>3. Len(told) + Len(Glyphs(more)) = Len(Told(prompt, i))
      BY <1>4, <1>8, <3>2, ConcatProperties
    <3> QED
      BY <1>6, <1>7, <2>1, <3>1, <3>3
  <2>2. CASE b # n + 1
    <3>1. b \in 1..n
      BY <2>2
    <3>2. SubSeq(more, 1, b) = SubSeq(line, 1, b)
      <4>1. PICK e : e = <<c>>
        OBVIOUS
      <4>2. e \in Seq(Visible)
        BY ONLY <1>3, <4>1
      <4>2a. more = line \o e
        BY ONLY <1>1, <1>3, <4>1, AppendIsConcat
      <4>3. 1 \in 1..Len(line) /\ b \in 1..Len(line)
        BY <1>5, <3>1
      <4> QED
        BY <1>3, <4>2, <4>2a, <4>3, SubSeqOfConcat1
    <3> QED
      BY <1>3, <1>5, <1>6, <1>9, <3>1, <3>2 DEF SpacesTold
  <2> QED
    BY <2>1, <2>2
<1>10. Plain(prompt) => room + LineWidth(more) >= columns
  <2>1. LineWidth(more) = LineWidth(line) + Width(c) /\ LineWidth(line) \in Nat
    BY <1>1, <1>3, LineWidthAppend, LineWidthType
  <2>2. Width(c) \in Int
    BY <1>3, VisibleWidth
  <2> QED
    BY <1>1, <2>1, <2>2
<1> QED
  BY <1>1, <1>2, <1>3, <1>6, <1>8, <1>9, <1>10 DEF Kept

(* A line of white space is used again.                                    *)
LEMMA ReadyEmpty ==
  ASSUME NEW prompt, NEW i, NEW columns, NEW front, NEW line,
         Ready(prompt, i, columns, front, line), Glyphs(line) = <<>>
  PROVE  Ready(prompt, i, columns, front, <<>>)
<1>1. /\ front \in Seq(Seq(Visible)) /\ line \in Seq(Visible)
      /\ Above(front) \o Glyphs(line) = Told(prompt, i - 1)
      /\ Plain(prompt) => LinesEnd(prompt, i, columns, front)
  BY DEF Ready
<1>2. PICK none : none = <<>>
  OBVIOUS
<1>3. none \in Seq(Visible) /\ Len(none) = 0
  BY <1>2
<1>4. Glyphs(none) = Glyphs(line)
  BY <1>2, GlyphsNone
<1>5. SpacesTold(prompt, i, Len(Above(front)), none)
  BY <1>3 DEF SpacesTold
<1>6. Ready(prompt, i, columns, front, none)
  BY <1>1, <1>3, <1>4, <1>5 DEF Ready
<1> QED
  BY <1>2, <1>6

(* A line ends where the prompt has white space, or is full.               *)
LEMMA ReadyBreaks ==
  ASSUME NEW prompt, NEW i, NEW columns, NEW front, NEW line,
         Ready(prompt, i, columns, front, line),
         NEW kept \in Seq(Visible), NEW moved \in Seq(Visible), line = kept \o moved,
         Unspaced(moved), NEW n, n = Len(Above(front) \o Glyphs(kept)),
         Plain(prompt) => SpacedSoFar(prompt, i, n) \/ Full(prompt, i, columns, n, Trimmed(kept))
  PROVE  Ready(prompt, i, columns, Append(front, Trimmed(kept)), moved)
<1>1. /\ front \in Seq(Seq(Visible))
      /\ Above(front) \o Glyphs(line) = Told(prompt, i - 1)
      /\ Plain(prompt) => LinesEnd(prompt, i, columns, front)
  BY DEF Ready
<1>2. PICK t : t = Trimmed(kept)
  OBVIOUS
<1>3. t \in Seq(Visible) /\ Glyphs(t) = Glyphs(kept)
  BY <1>2, TrimmedKeeps
<1>4. PICK more : more = Append(front, t)
  OBVIOUS
<1>5. /\ more \in Seq(Seq(Visible)) /\ Above(more) = Above(front) \o Glyphs(kept)
      /\ Above(front) \in Seq(Characters)
  BY <1>1, <1>3, <1>4, AboveMore
<1>6. Above(more) \o Glyphs(moved) = Told(prompt, i - 1)
  <2>1. Glyphs(line) = Glyphs(kept) \o Glyphs(moved)
    BY VisibleText, GlyphsConcat
  <2>2. PICK a, b, c : a = Above(front) /\ b = Glyphs(kept) /\ c = Glyphs(moved)
    OBVIOUS
  <2>3. a \in Seq(Characters) /\ b \in Seq(Characters) /\ c \in Seq(Characters)
    BY <1>5, <2>2, VisibleText, GlyphsType
  <2>4. (a \o b) \o c = a \o (b \o c)
    BY ONLY <2>3, ConcatAssociative
  <2> QED
    BY ONLY <1>1, <1>5, <2>1, <2>2, <2>4
<1>7. ASSUME Plain(prompt)
      PROVE  LinesEnd(prompt, i, columns, more)
  <2>1. Ends(prompt, i, columns, more, t)
    BY <1>2, <1>5, <1>7 DEF Ends
  <2> QED
    BY <1>1, <1>3, <1>4, <1>7, <2>1, LinesEndMore
<1>8. SpacesTold(prompt, i, Len(Above(more)), moved)
  BY DEF SpacesTold, Unspaced
<1>9. Ready(prompt, i, columns, more, moved)
  BY <1>5, <1>6, <1>7, <1>8 DEF Ready
<1> QED
  BY <1>2, <1>4, <1>9

(* The ends of a sequence that was appended to.                            *)
LEMMA EndsOfAppended ==
  ASSUME NEW T, NEW f \in Seq(T), NEW x \in T
  PROVE  /\ Front(Append(f, x)) = f /\ Last(Append(f, x)) = x
         /\ \A y \in T : f \o <<y>> = Append(f, y)
         /\ \A y \in T, z \in T : f \o <<y, z>> = Append(Append(f, y), z)
<1>1. PICK m : m = Append(f, x)
  OBVIOUS
<1>2. PICK n \in Nat : n = Len(f)
  BY LenProperties
<1>3. m \in Seq(T) /\ Len(m) = n + 1 /\ m[n + 1] = x /\ \A j \in 1..n : m[j] = f[j]
  BY <1>1, <1>2, AppendProperties
<1>4. Last(m) = x
  BY <1>3 DEF Last
<1>5. Front(m) = f
  <2>1. Front(m) = SubSeq(m, 1, n)
    BY <1>2, <1>3 DEF Front
  <2>2. /\ SubSeq(m, 1, n) \in Seq(T) /\ Len(SubSeq(m, 1, n)) = n
        /\ \A j \in 1..n : SubSeq(m, 1, n)[j] = m[j]
    <3>1. \A j \in 1..n : m[j] \in T
      BY <1>3, <1>2, ElementOfSeq
    <3>2. 1 \in Int /\ n \in Int
      BY <1>2
    <3>3. /\ SubSeq(m, 1, n) \in Seq(T)
          /\ Len(SubSeq(m, 1, n)) = IF 1 <= n THEN n - 1 + 1 ELSE 0
          /\ \A j \in 1..n - 1 + 1 : SubSeq(m, 1, n)[j] = m[1 + j - 1]
      BY <3>1, <3>2, SubSeqProperties
    <3> QED
      BY <1>2, <3>3
  <2> QED
    BY <1>2, <1>3, <2>1, <2>2, SeqEqual
<1>6. \A y \in T : f \o <<y>> = Append(f, y)
  BY AppendIsConcat
<1>7. ASSUME NEW y \in T, NEW z \in T
      PROVE  f \o <<y, z>> = Append(Append(f, y), z)
  OBVIOUS
<1> QED
  BY <1>1, <1>4, <1>5, <1>6, <1>7

(* When the character may be put on the next line: within a word only      *)
(* behind a line that it alone has filled.                                 *)
Moves(prompt, i, columns, line, separates) ==
  /\ Plain(prompt) /\ ~separates => SpacedSoFar(prompt, i, Len(Told(prompt, i - 1)))
  /\ separates => Len(line) # 0 /\ NotSpace(line[Len(line)])
  /\ Plain(prompt) /\ separates /\ Unspaced(line) =>
       Full(prompt, i, columns, Len(Told(prompt, i - 1)), line)

NextReady(prompt, i, columns, room, dropping, u) ==
  \E m, moved :
    /\ u = [lines |-> Append(m, moved), room |-> room - LineWidth(moved), dropping |-> dropping]
    /\ Ready(prompt, i, columns, m, moved)

(* What NextLine leaves to put the character in.                           *)
LEMMA NextLineReady ==
  ASSUME NEW prompt \in Seq(Characters), NEW i \in 1..Len(prompt), NEW columns \in Int,
         NEW front, NEW line, Ready(prompt, i, columns, front, line),
         NEW room \in Int, NEW dropping, NEW separates \in BOOLEAN,
         NEW v, v = [lines |-> Append(front, line), room |-> room, dropping |-> dropping],
         Moves(prompt, i, columns, line, separates)
  PROVE  NextReady(prompt, i, columns, room, dropping, NextLine(v, separates))
<1>1. /\ front \in Seq(Seq(Visible)) /\ line \in Seq(Visible)
      /\ Above(front) \o Glyphs(line) = Told(prompt, i - 1)
      /\ Plain(prompt) => SpacesTold(prompt, i, Len(Above(front)), line)
  BY DEF Ready
<1> SUFFICES \E m, moved :
                 /\ NextLine(v, separates)
                      = [lines |-> Append(m, moved), room |-> room - LineWidth(moved), dropping |-> dropping]
                 /\ Ready(prompt, i, columns, m, moved)
  BY Zenon DEF NextReady
<1> /\ Plain(prompt) /\ ~separates => SpacedSoFar(prompt, i, Len(Told(prompt, i - 1)))
    /\ separates => Len(line) # 0 /\ NotSpace(line[Len(line)])
    /\ Plain(prompt) /\ separates /\ Unspaced(line) =>
         Full(prompt, i, columns, Len(Told(prompt, i - 1)), line)
  BY DEF Moves
<1>2. PICK l : l = Append(front, line)
  OBVIOUS
<1>3. v = [lines |-> l, room |-> room, dropping |-> dropping] /\ v.lines = l /\ v.room = room
  BY <1>2
<1>4. PICK none, T : none = <<>> /\ T = Seq(Visible)
  OBVIOUS
<1>5. none \in T /\ line \in T /\ front \in Seq(T)
  BY <1>1, <1>4
<1>6. /\ Front(l) = front /\ Last(l) = line
      /\ \A y \in T : front \o <<y>> = Append(front, y)
      /\ \A y \in T, z \in T : front \o <<y, z>> = Append(Append(front, y), z)
  BY ONLY <1>2, <1>5, EndsOfAppended
<1>7. PICK n \in Nat : n = Len(line)
  BY <1>1, LenProperties
<1>8. CASE SelectInSeq(line, NotSpace) = 0
  <2>1. \A j \in 1..n : IsSpace(line[j])
    <3>1. PICK I : I = {j \in 1..n : NotSpace(line[j])}
      OBVIOUS
    <3>2. I # {} => Min(I) = 0
      BY <1>7, <1>8, <3>1 DEF SelectInSeq
    <3>3. I \subseteq Nat /\ 0 \notin I
      BY <3>1
    <3>4. I = {}
      BY <3>2, <3>3, MinIsLeast
    <3> QED
      BY <3>1, <3>4 DEF NotSpace
  <2>2. Glyphs(line) = <<>>
    BY <1>1, <1>7, <2>1, VisibleText, NoGlyphs
  <2>3. NextLine(v, separates) = [v EXCEPT !.lines = Append(front, none)]
    <3>1. front \o <<none>> = Append(front, none)
      BY ONLY <1>5, <1>6
    <3>2. NextLine(v, separates) = [v EXCEPT !.lines = front \o <<none>>]
      BY <1>3, <1>4, <1>6, <1>8, Zenon DEF NextLine
    <3> QED
      BY ONLY <3>1, <3>2
  <2>4. PICK m : m = Append(front, none)
    OBVIOUS
  <2>5. NextLine(v, separates) = [lines |-> m, room |-> room, dropping |-> dropping]
    BY ONLY <1>3, <2>3, <2>4, WrapUpdate
  <2>6. room = room - LineWidth(none)
    BY <1>4, LineWidthNone
  <2>7. Ready(prompt, i, columns, front, none)
    BY <1>4, <2>2, ReadyEmpty
  <2> QED
    BY ONLY <1>4, <2>4, <2>5, <2>6, <2>7
<1>9. CASE SelectInSeq(line, NotSpace) # 0
  <2>1. PICK moved : moved = IF separates THEN LastWord(line) ELSE none
    OBVIOUS
  <2>2. PICK kept : kept = SubSeq(line, 1, n - Len(moved))
    OBVIOUS
  <2>3. PICK told : told = Len(Above(front) \o Glyphs(kept))
    OBVIOUS
  <2>4. /\ kept \in Seq(Visible) /\ moved \in Seq(Visible) /\ line = kept \o moved
        /\ Unspaced(moved)
        /\ Plain(prompt) => \/ SpacedSoFar(prompt, i, told)
                            \/ Full(prompt, i, columns, told, Trimmed(kept))
    <3>1. CASE moved = none
      <4>1. kept = line
        <5>1. n - Len(moved) = Len(line)
          BY <1>4, <1>7, <3>1
        <5> QED
          BY <1>1, <2>2, <5>1, SubSeqFull
      <4>2. line = line \o moved /\ Unspaced(moved) /\ moved \in Seq(Visible)
        BY <1>1, <1>4, <3>1 DEF Unspaced
      <4>3. told = Len(Told(prompt, i - 1))
        BY <1>1, <2>3, <4>1
      <4>4. ASSUME Plain(prompt), separates
            PROVE  Full(prompt, i, columns, told, Trimmed(kept))
        <5>1. LastWord(line) = <<>> /\ ~IsSpace(line[n]) /\ n # 0
          BY <1>4, <1>7, <2>1, <3>1, <4>4 DEF NotSpace
        <5>2. Unspaced(line)
          <6>1. ~ \E b \in 1..Len(line) : Len(LastWord(line)) = Len(line) - b /\ b # Len(line)
            BY <1>7, <5>1
          <6> QED
            BY <1>1, <1>7, <5>1, <6>1, LastWordSplits
        <5>3. Trimmed(line) = line
          BY <1>1, <1>7, <5>1, TrimmedKeeps DEF NotSpace
        <5> QED
          BY <4>1, <4>3, <4>4, <5>2, <5>3
      <4> QED
        BY <1>1, <4>1, <4>2, <4>3, <4>4
    <3>2. CASE moved # none
      <4>1. separates /\ moved = LastWord(line) /\ moved # <<>>
        BY <1>4, <2>1, <3>2
      <4>2. PICK b \in 1..n :
              /\ moved \in Seq(Visible) /\ Len(moved) = n - b
              /\ Unspaced(moved) /\ IsSpace(line[b])
              /\ line = SubSeq(line, 1, b) \o moved
        BY <1>1, <1>7, <4>1, LastWordSplits
      <4>3. kept = SubSeq(line, 1, b)
        <5>1. n - Len(moved) = b
          BY <1>7, <4>2
        <5> QED
          BY <2>2, <5>1
      <4>4. kept \in Seq(Visible)
        <5>1. b \in 0..Len(line)
          BY <1>7
        <5> QED
          BY <1>1, <4>3, <5>1, LineSplits
      <4>5. told = Len(Above(front)) + Len(Glyphs(kept))
        BY <1>1, <2>3, <4>4, AboveMore, ConcatProperties
      <4>6. Plain(prompt) => SpacedSoFar(prompt, i, told)
        BY <1>1, <1>7, <4>2, <4>3, <4>5 DEF SpacesTold
      <4> QED
        BY <4>2, <4>3, <4>4, <4>6
    <3> QED
      BY <3>1, <3>2
  <2>5. PICK m, t : t = Trimmed(kept) /\ m = Append(front, t)
    OBVIOUS
  <2>6. Ready(prompt, i, columns, m, moved)
    BY <2>3, <2>4, <2>5, ReadyBreaks
  <2>7. PICK more : more = Append(m, moved)
    OBVIOUS
  <2>8. front \o <<t, moved>> = more
    <3>1. t \in T /\ moved \in T
      BY <1>4, <2>4, <2>5, TrimmedKeeps
    <3> QED
      BY ONLY <1>6, <2>5, <2>7, <3>1
  <2>9. NextLine(v, separates) = [v EXCEPT !.lines = more, !.room = room - LineWidth(moved)]
    <3>1. NextLine(v, separates) = [v EXCEPT !.lines = Front(v.lines) \o <<t, moved>>,
                                             !.room = v.room - LineWidth(moved)]
      BY <1>3, <1>4, <1>6, <1>7, <1>9, <2>1, <2>2, <2>5, Zenon DEF NextLine
    <3> QED
      BY ONLY <1>3, <1>6, <2>8, <3>1
  <2>10. NextLine(v, separates) = [lines |-> more, room |-> room - LineWidth(moved), dropping |-> dropping]
    BY ONLY <1>3, <2>9, WrapUpdates
  <2> QED
    BY ONLY <2>4, <2>6, <2>7, <2>10
<1> QED
  BY <1>8, <1>9

(* What a wrap has kept of the first i characters.                         *)
Keeps(prompt, i, columns, w) ==
  \E front, line, room, dropping :
    /\ w = [lines |-> Append(front, line), room |-> room, dropping |-> dropping]
    /\ Kept(prompt, i, columns, front, line, room, dropping)

(* The wrap whose last line is line.                                       *)
At(front, line, room, dropping) ==
  [lines |-> Append(front, line), room |-> room, dropping |-> dropping]

(* A character is pushed onto it.                                          *)
LEMMA PushedAt ==
  ASSUME NEW front \in Seq(Seq(Visible)), NEW line \in Seq(Visible), NEW c \in Visible,
         NEW room, NEW dropping
  PROVE  Pushed(At(front, line, room, dropping), c)
           = [lines |-> Append(front, Append(line, c)), room |-> room, dropping |-> FALSE]
<1> DEFINE v == At(front, line, room, dropping)
<1>1. PICK l, T, more : l = Append(front, line) /\ T = Seq(Visible) /\ more = Append(line, c)
  OBVIOUS
<1>2. v = [lines |-> l, room |-> room, dropping |-> dropping] /\ v.lines = l
  BY <1>1 DEF At
<1> HIDE DEF v
<1>3. front \in Seq(T) /\ line \in T /\ more \in T
  BY <1>1, AppendProperties
<1>4. Front(l) = front /\ Last(l) = line /\ front \o <<more>> = Append(front, more)
  BY ONLY <1>1, <1>3, EndsOfAppended
<1>5. PICK m : m = Append(front, more)
  OBVIOUS
<1>6. Pushed(v, c) = [v EXCEPT !.lines = m, !.dropping = FALSE]
  <2>1. Pushed(v, c) = [v EXCEPT !.lines = Front(v.lines) \o <<Append(Last(v.lines), c)>>,
                                 !.dropping = FALSE]
    BY Zenon DEF Pushed
  <2> QED
    BY ONLY <1>1, <1>2, <1>4, <1>5, <2>1
<1>7. Pushed(v, c) = [lines |-> m, room |-> room, dropping |-> FALSE]
  BY ONLY <1>2, <1>6, WrapUpdates
<1> QED
  BY ONLY <1>1, <1>5, <1>7 DEF v

(* A line that is put aside, and a character in the one that follows.      *)
LEMMA NextLineKept ==
  ASSUME NEW prompt \in Seq(Characters), NEW i \in 1..Len(prompt), NEW columns \in Int,
         NEW front, NEW line, Ready(prompt, i, columns, front, line),
         NEW room \in Int, NEW dropping, NEW separates \in BOOLEAN,
         NEW v, v = [lines |-> Append(front, line), room |-> room, dropping |-> dropping],
         Moves(prompt, i, columns, line, separates),
         prompt[i] \in Visible,
         Plain(prompt) => room + Width(prompt[i]) >= columns
  PROVE  Keeps(prompt, i, columns, Pushed(NextLine(v, separates), prompt[i]))
<1>1. PICK u : u = NextLine(v, separates)
  OBVIOUS
<1>2. PICK m, moved :
        /\ u = [lines |-> Append(m, moved), room |-> room - LineWidth(moved), dropping |-> dropping]
        /\ Ready(prompt, i, columns, m, moved)
  <2>1. NextReady(prompt, i, columns, room, dropping, u)
    BY <1>1, NextLineReady
  <2> QED
    BY <2>1, Zenon DEF NextReady
<1>3. m \in Seq(Seq(Visible)) /\ moved \in Seq(Visible)
  BY <1>2 DEF Ready
<1>4. PICK rest : rest = room - LineWidth(moved)
  OBVIOUS
<1>5. LineWidth(moved) \in Nat /\ rest \in Int /\ Width(prompt[i]) \in Int
  BY <1>3, <1>4, LineWidthType, VisibleWidth
<1>6. Plain(prompt) => rest + LineWidth(moved) + Width(prompt[i]) >= columns
  BY <1>4, <1>5
<1>7. Kept(prompt, i, columns, m, Append(moved, prompt[i]), rest, FALSE)
  BY <1>2, <1>5, <1>6, KeptPushes
<1>8. Pushed(u, prompt[i])
        = [lines |-> Append(m, Append(moved, prompt[i])), room |-> rest, dropping |-> FALSE]
  <2>1. u = At(m, moved, rest, dropping)
    BY <1>2, <1>4, Zenon DEF At
  <2> QED
    BY <1>3, <2>1, PushedAt
<1> QED
  BY <1>1, <1>7, <1>8 DEF Keeps

(* A newline ends the line.                                                *)
LEMMA BrokenKept ==
  ASSUME NEW prompt \in Seq(Characters), NEW i \in 1..Len(prompt), NEW columns \in Int,
         NEW front, NEW line, Ready(prompt, i, columns, front, line), NEW room,
         NEW v, v = [lines |-> Append(front, line), room |-> room, dropping |-> FALSE],
         IsSpace(prompt[i])
  PROVE  Keeps(prompt, i, columns, Broken(v, columns))
<1>1. /\ front \in Seq(Seq(Visible)) /\ line \in Seq(Visible)
      /\ Above(front) \o Glyphs(line) = Told(prompt, i - 1)
  BY DEF Ready
<1>2. PICK l, T, t, none : l = Append(front, line) /\ T = Seq(Visible) /\ t = Trimmed(line) /\ none = <<>>
  OBVIOUS
<1>3. v = [lines |-> l, room |-> room, dropping |-> FALSE] /\ v.lines = l
  BY <1>2
<1>4. front \in Seq(T) /\ line \in T /\ t \in T /\ none \in T
  BY <1>1, <1>2, TrimmedKeeps
<1>5. Front(l) = front /\ Last(l) = line /\ front \o <<t>> = Append(front, t)
  BY ONLY <1>2, <1>4, EndsOfAppended
<1>6. PICK m, more : m = Append(front, t) /\ more = Append(m, none)
  OBVIOUS
<1>7. Broken(v, columns) = [v EXCEPT !.lines = more, !.room = columns]
  <2>1. Broken(v, columns) = [v EXCEPT !.lines = Append(Front(v.lines) \o <<Trimmed(Last(v.lines))>>, none),
                                       !.room = columns]
    BY <1>2, Zenon DEF Broken
  <2> QED
    BY ONLY <1>2, <1>3, <1>5, <1>6, <2>1
<1>8. Broken(v, columns) = [lines |-> more, room |-> columns, dropping |-> FALSE]
  BY ONLY <1>3, <1>7, WrapUpdates
<1>9. Told(prompt, i) = Told(prompt, i - 1) /\ SpacedSoFar(prompt, i, Len(Told(prompt, i)))
  BY ReadOn DEF Seen, IsGlyph, NotSpace
<1>10. Ready(prompt, i, columns, m, none)
  <2>1. line = line \o none /\ Unspaced(none)
    BY <1>1, <1>2 DEF Unspaced
  <2>2. SpacedSoFar(prompt, i, Len(Above(front) \o Glyphs(line)))
    BY <1>1, <1>9
  <2>3. Ready(prompt, i, columns, Append(front, Trimmed(line)), none)
    BY <1>1, <1>2, <1>4, <2>1, <2>2, ReadyBreaks
  <2> QED
    BY <1>2, <1>6, <2>3
<1>11. columns + LineWidth(none) >= columns
  BY <1>2, LineWidthNone
<1>12. Kept(prompt, i, columns, m, none, columns, FALSE)
  BY <1>9, <1>10, <1>11 DEF Kept, Ready
<1> QED
  BY <1>6, <1>8, <1>12 DEF Keeps

LEMMA WrapDropped ==
  ASSUME NEW v, NEW x, NEW y, NEW z, v = [lines |-> x, room |-> y, dropping |-> z]
  PROVE  [v EXCEPT !.dropping = TRUE] = [lines |-> x, room |-> y, dropping |-> TRUE]
<1>1. PICK d : d = TRUE
  OBVIOUS
<1>2. [v EXCEPT !.dropping = d] = [lines |-> x, room |-> y, dropping |-> d]
  BY WrapUpdate
<1> QED
  BY <1>1, <1>2, Zenon

(* A character that does not fit.                                          *)
LEMMA WrappedKept ==
  ASSUME NEW prompt \in Seq(Characters), NEW i \in 1..Len(prompt), NEW columns \in Int,
         NEW front, NEW line, NEW room,
         Kept(prompt, i - 1, columns, front, line, room, FALSE),
         NEW w, w = [lines |-> Append(front, line), room |-> room, dropping |-> FALSE],
         prompt[i] \in Visible, Width(prompt[i]) > 0, line # <<>>, room - Width(prompt[i]) < 0
  PROVE  Keeps(prompt, i, columns, Wrapped(w, prompt[i], columns))
<1>1. PICK c : c = prompt[i]
  OBVIOUS
<1>2. /\ front \in Seq(Seq(Visible)) /\ line \in Seq(Visible) /\ room \in Int
      /\ Above(front) \o Glyphs(line) = Told(prompt, i - 1)
      /\ Plain(prompt) => room + LineWidth(line) >= columns
  BY DEF Kept
<1>3. Ready(prompt, i, columns, front, line)
  BY KeptReady
<1>4. /\ c \in Visible /\ Width(c) \in 1..2 /\ (IsSpace(c) => Width(c) = 1)
      /\ room < Width(c)
  BY <1>1, <1>2, VisibleWidth
<1>5. PICK n \in Nat : n = Len(line) /\ n # 0
  BY <1>2, LenProperties, EmptySeq
<1>6. PICK l, T : l = Append(front, line) /\ T = Seq(Visible)
  OBVIOUS
<1>7. w = [lines |-> l, room |-> room, dropping |-> FALSE] /\ w.lines = l
  BY <1>6
<1>8. Last(l) = line /\ Last(line) = line[n]
  <2>1. front \in Seq(T) /\ line \in T
    BY <1>2, <1>6
  <2>2. Last(l) = line
    BY ONLY <1>6, <2>1, EndsOfAppended
  <2> QED
    BY <1>5, <2>2 DEF Last
<1>9. PICK left : left = columns - Width(c) /\ left \in Int
  BY <1>4
<1>10. PICK v : v = [w EXCEPT !.room = left]
  OBVIOUS
<1>11. v = [lines |-> l, room |-> left, dropping |-> FALSE]
  BY ONLY <1>7, <1>10, WrapUpdate
<1>12. PICK separates \in BOOLEAN : separates = NotSpace(line[n])
  BY DEF NotSpace
<1>13. Wrapped(w, c, columns) =
         IF IsSpace(c) THEN [v EXCEPT !.dropping = TRUE] ELSE Pushed(NextLine(v, separates), c)
  BY <1>7, <1>8, <1>9, <1>10, <1>12, Zenon DEF Wrapped
<1>14. CASE IsSpace(c)
  <2>1. [v EXCEPT !.dropping = TRUE] = [lines |-> l, room |-> left, dropping |-> TRUE]
    BY ONLY <1>11, WrapDropped
  <2>2. left = columns - 1
    BY <1>4, <1>9, <1>14
  <2>3. Kept(prompt, i, columns, front, line, columns - 1, TRUE)
    BY <1>1, <1>3, <1>14, KeptDrops
  <2> QED
    BY <1>1, <1>6, <1>13, <1>14, <2>1, <2>2, <2>3 DEF Keeps
<1>15. CASE ~IsSpace(c)
  <2>1. /\ Told(prompt, i) = Seen(Told(prompt, i - 1), c) /\ c \in Characters
        /\ Told(prompt, i - 1) \in Seq(Characters)
    BY <1>1, ReadOn
  <2>2. Told(prompt, i) = Append(Told(prompt, i - 1), c)
    BY <1>4, <1>15, <2>1 DEF Seen, IsGlyph, NotSpace
  <2>3. ASSUME Plain(prompt), ~separates
        PROVE  SpacedSoFar(prompt, i, Len(Told(prompt, i - 1)))
    <3>1. SpacesTold(prompt, i, Len(Above(front)), line)
      BY <1>3, <2>3 DEF Ready
    <3>2. n \in 1..Len(line) /\ IsSpace(line[n])
      <4>1. n \in 1..Len(line)
        BY <1>5
      <4>2. IsSpace(line[n])
        BY <1>12, <2>3, Zenon DEF NotSpace
      <4> QED
        BY <4>1, <4>2
    <3>3. SpacedSoFar(prompt, i, Len(Above(front)) + Len(Glyphs(SubSeq(line, 1, n))))
      BY <3>1, <3>2 DEF SpacesTold
    <3>4. SubSeq(line, 1, n) = line
      BY <1>2, <1>5, SubSeqFull
    <3>5. Len(Above(front) \o Glyphs(line)) = Len(Above(front)) + Len(Glyphs(line))
      <4>1. Above(front) \in Seq(Characters) /\ Glyphs(line) \in Seq(Characters)
        BY <1>2, AboveMore
      <4> QED
        BY <4>1, ConcatProperties
    <3> QED
      BY <1>2, <3>3, <3>4, <3>5
  <2>4. ASSUME Plain(prompt), Unspaced(line)
        PROVE  Full(prompt, i, columns, Len(Told(prompt, i - 1)), line)
    <3>1. PICK g, h : g = Told(prompt, i - 1) /\ h = Told(prompt, i)
      OBVIOUS
    <3>2. Len(g) \in Nat /\ Len(h) = Len(g) + 1 /\ h[Len(g) + 1] = c
      BY <2>1, <2>2, <3>1, AppendProperties, LenProperties
    <3>3. LineWidth(line) + Width(c) > columns
      <4>1. LineWidth(line) \in Nat /\ room + LineWidth(line) >= columns
        BY <1>2, <2>4, LineWidthType
      <4> QED
        BY <1>2, <1>4, <4>1
    <3> QED
      BY <2>4, <3>1, <3>2, <3>3 DEF Full
  <2>5. separates => Len(line) # 0 /\ NotSpace(line[Len(line)])
    BY <1>5, <1>12
  <2>6. left + Width(c) >= columns
    BY <1>4, <1>9
  <2>7. v = [lines |-> Append(front, line), room |-> left, dropping |-> FALSE]
    BY <1>6, <1>11
  <2>8. PICK dropping : dropping = FALSE
    OBVIOUS
  <2>9. Keeps(prompt, i, columns, Pushed(NextLine(v, separates), prompt[i]))
    <3>1. Moves(prompt, i, columns, line, separates)
      BY <2>3, <2>4, <2>5, Zenon DEF Moves
    <3>2. prompt[i] \in Visible /\ (Plain(prompt) => left + Width(prompt[i]) >= columns)
      BY <1>1, <1>4, <2>6
    <3> QED
      BY <1>2, <1>3, <1>9, <2>7, <3>1, <3>2, NextLineKept
  <2> QED
    BY <1>1, <1>13, <1>15, <2>9
<1> QED
  BY <1>14, <1>15

(* Every turn of the loop.                                                 *)
LEMMA TurnKept ==
  ASSUME NEW prompt \in Seq(Characters), NEW i \in 1..Len(prompt), NEW columns \in Int,
         NEW w, Keeps(prompt, i - 1, columns, w)
  PROVE  Keeps(prompt, i, columns, Turn(w, prompt[i], columns))
<1>1. PICK front, line, room, dropping :
        /\ w = [lines |-> Append(front, line), room |-> room, dropping |-> dropping]
        /\ Kept(prompt, i - 1, columns, front, line, room, dropping)
  BY DEF Keeps
<1>2. /\ front \in Seq(Seq(Visible)) /\ line \in Seq(Visible)
      /\ room \in Int /\ dropping \in BOOLEAN
  BY <1>1 DEF Kept
<1>3. PICK c, l : c = prompt[i] /\ l = Append(front, line) /\ c \in Characters
  BY ReadOn
<1>4. w = [lines |-> l, room |-> room, dropping |-> dropping]
      /\ w.lines = l /\ w.room = room /\ w.dropping = dropping
  BY <1>1, <1>3
<1>5. Last(l) = line
  <2>1. PICK T : T = Seq(Visible)
    OBVIOUS
  <2>2. front \in Seq(T) /\ line \in T
    BY <1>2, <2>1
  <2> QED
    BY ONLY <1>3, <2>2, EndsOfAppended
<1>6. Ready(prompt, i, columns, front, line)
  BY <1>1, KeptReady
<1>7. c \in Visible <=> c # "newline"
  BY <1>3 DEF Visible
<1>8. c \in Visible => Width(c) \in 0..2
  BY VisibleWidth
<1>9. ASSUME Turn(w, c, columns) = w, ~IsGlyph(c)
      PROVE  Keeps(prompt, i, columns, Turn(w, c, columns))
  BY <1>1, <1>3, <1>9, KeptStays DEF Keeps
<1>10. CASE dropping /\ IsSpace(c)
  <2>1. Turn(w, c, columns) = w
    BY <1>4, <1>10, Zenon DEF Turn
  <2> QED
    BY <1>3, <1>9, <1>10, <2>1 DEF IsGlyph, NotSpace
<1>11. CASE dropping /\ ~IsSpace(c)
  <2>1. Turn(w, c, columns) = Pushed(NextLine(w, FALSE), c)
    BY <1>4, <1>11, Zenon DEF Turn
  <2>2. Plain(prompt) => SpacedSoFar(prompt, i, Len(Told(prompt, i - 1)))
    BY <1>1, <1>11, ReadOn DEF Kept
  <2>3. c \in Visible
    BY <1>7, <1>11 DEF IsSpace
  <2>4. Plain(prompt) => room + Width(c) >= columns
    <3> SUFFICES ASSUME Plain(prompt) PROVE room + Width(c) >= columns
      OBVIOUS
    <3>1. room = columns - 1
      BY <1>1, <1>11 DEF Kept
    <3>2. c # "combining"
      BY <1>3, LenProperties DEF Plain
    <3>3. Width(c) \in 1..2
      BY <1>11, <2>3, <3>2 DEF Visible, Characters, Width
    <3> QED
      BY <3>1, <3>3
  <2>5. PICK separates \in BOOLEAN : separates = FALSE
    OBVIOUS
  <2>6. Keeps(prompt, i, columns, Pushed(NextLine(w, separates), prompt[i]))
    <3>1. Moves(prompt, i, columns, line, separates)
      BY <2>2, <2>5 DEF Moves
    <3>2. prompt[i] \in Visible /\ (Plain(prompt) => room + Width(prompt[i]) >= columns)
      BY <1>3, <2>3, <2>4
    <3> QED
      BY <1>1, <1>2, <1>6, <3>1, <3>2, NextLineKept
  <2> QED
    BY <1>3, <2>1, <2>5, <2>6
<1>12. CASE ~dropping /\ c = "newline"
  <2>1. Turn(w, c, columns) = Broken(w, columns)
    BY <1>4, <1>12, Zenon DEF Turn
  <2>2. IsSpace(c) /\ dropping = FALSE
    BY <1>2, <1>12 DEF IsSpace
  <2>3. Keeps(prompt, i, columns, Broken(w, columns))
    BY <1>1, <1>3, <1>6, <2>2, BrokenKept
  <2> QED
    BY <1>3, <2>1, <2>3
<1>13. CASE ~dropping /\ c # "newline"
  <2>1. PICK left : left = room - Width(c)
    OBVIOUS
  <2>2. Turn(w, c, columns) =
          IF Width(c) <= 0 THEN w
          ELSE IF left >= 0 \/ line = <<>> THEN Pushed([w EXCEPT !.room = left], c)
          ELSE Wrapped(w, c, columns)
    BY <1>4, <1>5, <1>13, <2>1, Zenon DEF Turn
  <2>3. c \in Visible /\ Width(c) \in 0..2 /\ dropping = FALSE
    BY <1>2, <1>7, <1>8, <1>13
  <2>7. c \in Visible /\ Width(c) \in 0..2
    BY <2>3
  <2>8. front \in Seq(Seq(Visible)) /\ line \in Seq(Visible) /\ room \in Int
    BY <1>2
  <2>4. CASE Width(c) <= 0
    <3>1. ~IsGlyph(c)
      BY <2>3, <2>4 DEF IsGlyph
    <3>2. Turn(w, c, columns) = w
      BY <2>2, <2>4
    <3> QED
      BY <1>3, <1>9, <3>1, <3>2
  <2>5. CASE Width(c) > 0 /\ (left >= 0 \/ line = <<>>)
    <3>1. PICK v : v = [w EXCEPT !.room = left]
      OBVIOUS
    <3>2. v = [lines |-> l, room |-> left, dropping |-> dropping]
      BY ONLY <1>4, <3>1, WrapUpdate
    <3>3. Pushed(v, c) = [lines |-> Append(front, Append(line, c)), room |-> left, dropping |-> FALSE]
      <4>1. PICK d : d = dropping
        OBVIOUS
      <4>2. v = [lines |-> Append(front, line), room |-> left, dropping |-> d]
        BY ONLY <1>3, <3>2, <4>1
      <4>3. c \in Visible /\ front \in Seq(Seq(Visible)) /\ line \in Seq(Visible)
        BY <2>7, <2>8
      <4> QED
        <5>1. v = At(front, line, left, d)
          BY <4>2, Zenon DEF At
        <5>2. Pushed(At(front, line, left, d), c)
                = [lines |-> Append(front, Append(line, c)), room |-> left, dropping |-> FALSE]
          BY ONLY <4>3, PushedAt
        <5> QED
          BY <5>1, <5>2, Zenon
    <3>4. left \in Int /\ (Plain(prompt) => left + LineWidth(line) + Width(c) >= columns)
      <4>1. Plain(prompt) => room + LineWidth(line) >= columns
        BY <1>1, <1>13 DEF Kept
      <4>2. LineWidth(line) \in Nat
        BY <1>2, LineWidthType
      <4>3. left \in Int /\ room = left + Width(c)
        BY <2>1, <2>7, <2>8
      <4> SUFFICES ASSUME Plain(prompt) PROVE left + LineWidth(line) + Width(c) >= columns
        BY <4>3
      <4> QED
        BY <2>7, <4>1, <4>2, <4>3
    <3>5. Kept(prompt, i, columns, front, Append(line, prompt[i]), left, FALSE)
      BY <1>3, <1>6, <2>3, <3>4, KeptPushes
    <3>6. Turn(w, c, columns) = Pushed(v, c)
      BY <2>2, <2>3, <2>5, <3>1
    <3> QED
      BY <1>3, <3>3, <3>5, <3>6 DEF Keeps
  <2>6. CASE Width(c) > 0 /\ ~(left >= 0) /\ line # <<>>
    <3>1. left < 0
      BY <1>2, <2>1, <2>3, <2>6
    <3>2. Keeps(prompt, i, columns, Wrapped(w, prompt[i], columns))
      BY <1>1, <1>3, <2>1, <2>3, <2>6, <3>1, WrappedKept
    <3>3. Turn(w, c, columns) = Wrapped(w, c, columns)
      BY <2>2, <2>3, <2>6
    <3> QED
      BY <1>3, <3>2, <3>3
  <2> QED
    BY <2>3, <2>4, <2>5, <2>6
<1> QED
  BY <1>3, <1>10, <1>11, <1>12, <1>13

(* Nothing is read.                                                        *)
LEMMA NewWrapKept ==
  ASSUME NEW prompt \in Seq(Characters), NEW columns \in Int
  PROVE  Keeps(prompt, 0, columns, NewWrap(columns))
<1>1. PICK none, rows : none = <<>> /\ rows = <<>>
  OBVIOUS
<1>2. PICK m : m = Append(rows, none)
  OBVIOUS
<1>3. NewWrap(columns) = [lines |-> m, room |-> columns, dropping |-> FALSE]
  <2>1. m = << <<>> >>
    BY <1>1, <1>2
  <2> QED
    BY <2>1, Zenon DEF NewWrap
<1>4. /\ rows \in Seq(Seq(Visible)) /\ Len(rows) = 0
      /\ none \in Seq(Visible) /\ Len(none) = 0
  BY <1>1
<1>5. Above(rows) = <<>> /\ Glyphs(none) = <<>>
  BY <1>1, AboveNone, GlyphsNone
<1>6. Told(prompt, 0) = <<>>
  <2>1. SubSeq(prompt, 1, 0) = <<>>
    <3>1. PICK n \in Nat : n = Len(prompt)
      BY LenProperties
    <3>2. \A k \in 1..0 : prompt[k] \in Characters
      OBVIOUS
    <3>3. SubSeq(prompt, 1, 0) \in Seq(Characters) /\ Len(SubSeq(prompt, 1, 0)) = 0
      BY <3>2, SubSeqProperties
    <3> QED
      BY <3>3, EmptySeq
  <2> QED
    BY <2>1, GlyphsNone DEF Told
<1>7. Above(rows) \o Glyphs(none) = Told(prompt, 0)
  BY <1>5, <1>6
<1>8. LinesEnd(prompt, 0, columns, rows)
  BY <1>4 DEF LinesEnd
<1>9. SpacesTold(prompt, 0, Len(Above(rows)), none)
  BY <1>4 DEF SpacesTold
<1>10. columns + LineWidth(none) >= columns
  BY <1>1, LineWidthNone
<1>11. Kept(prompt, 0, columns, rows, none, columns, FALSE)
  BY <1>4, <1>7, <1>8, <1>9, <1>10 DEF Kept
<1> QED
  BY <1>2, <1>3, <1>11 DEF Keeps

(* The whole prompt is read.                                               *)
LEMMA PromptReadKept ==
  ASSUME NEW prompt \in Seq(Characters), NEW columns \in Int
  PROVE  Keeps(prompt, Len(prompt), columns, F!Fold(NewWrap(columns), prompt, columns))
<1>1. PICK n \in Nat : n = Len(prompt) /\ DOMAIN prompt = 1..n
  BY LenProperties
<1>2. PICK base : base = NewWrap(columns)
  OBVIOUS
<1>3. PICK v : F!Steps(v, base, prompt, columns, n) /\ F!Fold(base, prompt, columns) = v[n]
  BY ONLY <1>1, F!FoldValues
<1>4. v[0] = NewWrap(columns) /\ \A i \in 1..n : v[i] = Turn(v[i - 1], prompt[i], columns)
  BY <1>2, <1>3 DEF F!Steps
<1> DEFINE Wrong == {i \in 0..n : ~Keeps(prompt, i, columns, v[i])}
<1>5. Wrong = {}
  <2>1. SUFFICES ASSUME Wrong # {} PROVE FALSE
    OBVIOUS
  <2>2. PICK w \in Wrong : \A i \in Wrong : w <= i
    <3>1. Wrong \subseteq Nat
      OBVIOUS
    <3> HIDE DEF Wrong
    <3> QED
      BY <2>1, <3>1, LeastElement
  <2>3. w # 0
    BY <1>4, <2>2, NewWrapKept
  <2>4. w \in 1..n /\ w - 1 \in 0..n /\ w - 1 \notin Wrong
    BY <2>2, <2>3
  <2>5. Keeps(prompt, w - 1, columns, v[w - 1])
    BY <2>4
  <2>6. Keeps(prompt, w, columns, Turn(v[w - 1], prompt[w], columns))
    BY <1>1, <2>4, <2>5, TurnKept
  <2> QED
    BY <1>4, <2>2, <2>4, <2>6
<1> QED
  BY <1>1, <1>2, <1>3, <1>5

(* create_prompt_lines loses no visible character and swaps none, whatever *)
(* the prompt and the width, and where the prompt has no combining         *)
(* character it cuts a word only behind a line that this word has filled.  *)
THEOREM PromptWordsKept ==
  ASSUME NEW prompt \in Seq(Characters), NEW columns \in Int
  PROVE  /\ Glyphs(FlattenSeq(CreatePromptLines(prompt, columns))) = Glyphs(prompt)
         /\ ~Contains(prompt, "combining") =>
              Uncut(prompt, CreatePromptLines(prompt, columns), columns)
<1>1. PICK n \in Nat : n = Len(prompt) /\ DOMAIN prompt = 1..n
  BY LenProperties
<1>2. PICK w : w = F!Fold(NewWrap(columns), prompt, columns)
  OBVIOUS
<1>3. PICK front, line, room, dropping :
        /\ w = [lines |-> Append(front, line), room |-> room, dropping |-> dropping]
        /\ Kept(prompt, n, columns, front, line, room, dropping)
  BY <1>1, <1>2, PromptReadKept, Zenon DEF Keeps
<1>4. /\ front \in Seq(Seq(Visible)) /\ line \in Seq(Visible)
      /\ Above(front) \o Glyphs(line) = Told(prompt, n)
      /\ Plain(prompt) => LinesEnd(prompt, n, columns, front)
  BY <1>3 DEF Kept
<1>5. PICK l : l = Append(front, line)
  OBVIOUS
<1>6. w.lines = l /\ w.dropping = dropping
  BY <1>3, <1>5
<1>7. PICK last : last = IF dropping THEN Trimmed(line) ELSE line
  OBVIOUS
<1>8. last \in Seq(Visible) /\ Glyphs(last) = Glyphs(line)
  BY <1>4, <1>7, TrimmedKeeps
<1>9. PICK lines : lines = Append(front, last)
  OBVIOUS
<1>10. CreatePromptLines(prompt, columns) = lines
  <2>1. CreatePromptLines(prompt, columns)
          = IF w.dropping THEN Front(w.lines) \o <<Trimmed(Last(w.lines))>> ELSE w.lines
    BY <1>2 DEF CreatePromptLines, F!Fold, FoldLeft, F!FoldLeft, MapThenFoldSet,
                F!MapThenFoldSet, Max, F!Max
  <2>2. PICK T, t : T = Seq(Visible) /\ t = Trimmed(line)
    OBVIOUS
  <2>3. front \in Seq(T) /\ line \in T /\ t \in T
    BY <1>4, <2>2, TrimmedKeeps
  <2>4. Front(l) = front /\ Last(l) = line /\ front \o <<t>> = Append(front, t)
    BY ONLY <1>5, <2>3, EndsOfAppended
  <2>5. Front(w.lines) \o <<Trimmed(Last(w.lines))>> = Append(front, t)
    BY ONLY <1>6, <2>2, <2>4
  <2>6. CASE dropping
    BY <1>6, <1>7, <1>9, <2>1, <2>2, <2>5, <2>6
  <2>7. CASE ~dropping
    BY <1>5, <1>6, <1>7, <1>9, <2>1, <2>7
  <2> QED
    BY <2>6, <2>7
<1>11. Told(prompt, n) = Glyphs(prompt)
  BY <1>1, SubSeqFull DEF Told
<1>12. Above(lines) = Told(prompt, n)
  BY <1>4, <1>8, <1>9, AboveMore
<1>13. ASSUME ~Contains(prompt, "combining") PROVE Uncut(prompt, lines, columns)
  <2>1. Plain(prompt)
    BY <1>13 DEF Contains, Plain
  <2>2. PICK m \in Nat : m = Len(front)
    BY <1>4, LenProperties
  <2>3. Len(lines) = m + 1 /\ \A i \in 1..m : lines[i] = front[i]
    BY <1>4, <1>8, <1>9, <2>2, AppendProperties
  <2> SUFFICES ASSUME NEW i \in 1..m, NEW k, k = Len(Above(SubSeq(lines, 1, i))),
                      k > 0, k < Len(Glyphs(prompt)), ~Spaced(prompt, k)
               PROVE  /\ SelectInSeq(lines[i], IsSpace) = 0
                      /\ LineWidth(lines[i]) + Width(Glyphs(prompt)[k + 1]) > columns
    BY <2>3 DEF Uncut, Above
  <2>4. SubSeq(lines, 1, i) = SubSeq(front, 1, i)
    BY <1>4, <1>8, <1>9, <2>2, BeginningOfAppended
  <2>5. Ends(prompt, n, columns, SubSeq(front, 1, i), front[i])
    BY <1>4, <2>1, <2>2 DEF LinesEnd
  <2>6. ~SpacedSoFar(prompt, n, k)
    BY <1>1 DEF Spaced, SpacedSoFar, Told
  <2>7. Full(prompt, n, columns, k, front[i])
    BY <2>4, <2>5, <2>6 DEF Ends
  <2>8. SelectInSeq(front[i], IsSpace) = 0
    BY <2>7, Zenon DEF Full, Unspaced, SelectInSeq
  <2> QED
    BY <1>11, <2>3, <2>7, <2>8 DEF Full
<1> QED
  BY <1>10, <1>11, <1>12, <1>13 DEF Above

-------------------------------------------------------------------------------
(* The lines of a prompt in a screen.                                      *)
LEMMA PromptLinesAre ==
  ASSUME args \in ArgSets, NEW s \in Screens(args)
  PROVE  /\ PromptLines[<<args, s>>] = LinesOf(args.prompt, s.columns)
         /\ PromptLines[<<args, s>>] \in Lines
<1>1. PICK D : D = UNION {{a} \X Screens(a) : a \in ArgSets}
  OBVIOUS
<1> DEFINE table == [p \in D |-> LinesOf(p[1].prompt, p[2].columns)]
<1>2. PromptLines = table
  <2>1. PromptLines = CHOOSE t \in {table} : t = t
    BY <1>1 DEF PromptLines
  <2> HIDE DEF table
  <2> QED
    BY <2>1
<1>3. PICK p : p = <<args, s>>
  OBVIOUS
<1>4. p \in D /\ p[1] = args /\ p[2] = s
  BY <1>1, <1>3
<1>5. PromptLines[p] = LinesOf(args.prompt, s.columns)
  BY <1>2, <1>4
<1>6. args.prompt \in Lines /\ s.columns \in Nat
  BY ArgSetsAssumption, ScreensAssumption DEF ArgType, ScreenType
<1>7. LinesOf(args.prompt, s.columns) \in Lines
  <2>1. CASE args.prompt = <<>>
    BY <2>1 DEF LinesOf, Lines
  <2>2. CASE args.prompt # <<>>
    <3>1. 1 \in 1..Len(args.prompt)
      BY <1>6, <2>2, EmptySeq DEF Lines
    <3>2. args.prompt[1] \in Seq(Characters) /\ s.columns - 2 \in Int
      BY <1>6, <3>1, ElementOfSeq DEF Lines
    <3> QED
      BY <2>2, <3>2, PromptLinesFit DEF LinesOf
  <2> QED
    BY <2>1, <2>2
<1> QED
  BY <1>3, <1>5, <1>7

-------------------------------------------------------------------------------
(* The windows have been laid out.                                         *)
LaidOut == phase \in {"drawing", "waiting", "pressed"}

(* Before that, and while locked out, the scroll is where the last layout  *)
(* left it, which is all that the next one needs.                          *)
CursorInv ==
  /\ args \in ArgSets /\ size \in Nat /\ screen \in Screens(args)
  /\ cursor \in Cursors /\ selection_rows \in Nat
  /\ size > 0 => cursor.scroll >= 0
  /\ LaidOut => selection_rows >= 1 /\ Settled(cursor, size, selection_rows)

(* A layout settles the cursor, from any scroll that is not negative.      *)
LEMMA OnResizeKeeps ==
  ASSUME CursorInv, args' = args, screen' \in Screens(args), size' = size, OnResize
  PROVE  CursorInv'
<1>1. CASE TooSmall(screen')
  <2>1. phase' = "locked" /\ UNCHANGED <<cursor, selection_rows>>
    BY <1>1 DEF OnResize
  <2> QED
    BY <2>1 DEF CursorInv, LaidOut
<1>2. CASE ~TooSmall(screen')
  <2> DEFINE rows == SelectionRows(screen'.rows, prompt_lines')
             pulled == PulledDown(cursor, size, rows)
  <2>1. /\ phase' = "drawing" /\ selection_rows' = rows
        /\ cursor' = ApplyConstraints(PulledDown(cursor, size, selection_rows'),
                                      size, selection_rows')
    BY <1>2 DEF OnResize
  <2>2. screen'.rows \in Nat /\ Len(prompt_lines') \in Nat
    <3>1. args \in ArgSets
      BY DEF CursorInv
    <3>2. prompt_lines' \in Lines
      BY <1>2, <3>1, PromptLinesAre DEF OnResize
    <3> QED
      BY <3>1, <3>2, ScreensAssumption DEF ScreenType, Lines
  <2>3. PromptRows(prompt_lines') \in Nat
    BY <2>2, SMT DEF PromptRows
  <2>4. rows \in Nat /\ rows >= 1
    BY <2>2, <2>3, SMT DEF SelectionRows
  <2>5. cursor' = ApplyConstraints(pulled, size, rows)
    BY <2>1
  <2> HIDE DEF rows
  <2>6. /\ pulled \in Cursors
        /\ size > 0 => pulled.scroll >= 0
        /\ size >= rows => pulled.scroll + rows <= size
    BY <2>4, SMT DEF CursorInv, PulledDown, Cursors
  <2> HIDE DEF pulled
  <2>7. size \in Nat
    BY DEF CursorInv
  <2>8. Settled(cursor', size, rows)
    BY <2>4, <2>5, <2>6, <2>7, ConstraintsSettle
  <2> QED
    BY <2>1, <2>4, <2>7, <2>8 DEF CursorInv, LaidOut, Settled, IsVisible
<1> QED
  BY <1>1, <1>2

LEMMA CursorInit == Init => CursorInv
<1> SUFFICES ASSUME Init
             PROVE  CursorInv
  OBVIOUS
<1>1. args \in ArgSets /\ size \in Nat /\ screen \in Screens(args)
  BY SizesAssumption DEF Init
<1>2. /\ cursor \in [position : (0..size - 1) \cup {0, IF args.end THEN size - 1 ELSE 0},
                     scroll : {0}]
      /\ selection_rows = 0 /\ phase = "starting"
  BY DEF Init
<1>3. cursor.scroll = 0 /\ cursor \in Cursors
  BY <1>1, <1>2, SMT DEF Cursors
<1> QED
  BY <1>1, <1>2, <1>3 DEF CursorInv, LaidOut

(* A step that leaves the layout alone, and is not the first one after it  *)
(* was missing.                                                            *)
LEMMA LayoutUnchanged ==
  ASSUME CursorInv, args' = args, size' = size, screen' \in Screens(args),
         UNCHANGED <<cursor, selection_rows>>, LaidOut' => LaidOut
  PROVE  CursorInv'
BY DEF CursorInv, LaidOut

LEMMA CursorNext == CursorInv /\ [Next]_vars => CursorInv'
<1> SUFFICES ASSUME CursorInv, [Next]_vars
             PROVE  CursorInv'
  OBVIOUS
<1> USE DEF Handles
<1>1. size \in Nat /\ screen \in Screens(args)
  BY DEF CursorInv
<1>2. CASE Start
  BY <1>1, <1>2, OnResizeKeeps DEF Start
<1>3. CASE Unlock
  BY <1>3, OnResizeKeeps DEF Unlock
<1>4. CASE Resize
  BY <1>1, <1>4, OnResizeKeeps DEF Resize
<1>5. CASE ResizeScreen
  BY <1>5, LayoutUnchanged DEF ResizeScreen, LaidOut
<1>6. CASE Move
  <2>1. /\ phase = "pressed" /\ phase' = "drawing"
        /\ cursor' = Moved(ch, cursor, size, selection_rows)
        /\ UNCHANGED <<args, size, screen, selection_rows>>
    BY <1>6 DEF Move
  <2>2. /\ selection_rows \in Nat /\ selection_rows >= 1
        /\ Settled(cursor, size, selection_rows)
    BY <2>1 DEF CursorInv, LaidOut
  <2>3. Settled(cursor', size, selection_rows)
    BY <1>1, <2>1, <2>2, MovedSettles
  <2> QED
    BY <1>1, <2>1, <2>2, <2>3 DEF CursorInv, LaidOut, Settled, IsVisible
<1>7. CASE Draw
  BY <1>1, <1>7, LayoutUnchanged DEF Draw, layout, LaidOut
<1>8. CASE Press
  BY <1>1, <1>8, LayoutUnchanged DEF Press, layout, LaidOut
<1>9. CASE Timeout
  BY <1>1, <1>9, LayoutUnchanged DEF Timeout, layout, LaidOut
<1>10. CASE Interrupt
  BY <1>1, <1>10, LayoutUnchanged DEF Interrupt, layout, LaidOut
<1>11. CASE Quit
  <2>1. phase = "pressed" /\ UNCHANGED <<args, size, layout>>
    BY <1>11 DEF Quit
  <2> QED
    BY <1>1, <2>1, LayoutUnchanged DEF layout, LaidOut
<1>12. CASE Clear
  BY <1>1, <1>12, LayoutUnchanged DEF Clear, layout, LaidOut
<1>13. CASE Toggle
  BY <1>1, <1>13, LayoutUnchanged DEF Toggle, layout, LaidOut
<1>14. CASE ConfirmNothing
  BY <1>1, <1>14, LayoutUnchanged DEF ConfirmNothing, layout, LaidOut
<1>15. CASE Confirm
  <2>1. phase = "pressed" /\ UNCHANGED <<args, size, layout>>
    BY <1>15 DEF Confirm
  <2> QED
    BY <1>1, <2>1, LayoutUnchanged DEF layout, LaidOut
<1>16. CASE Leave
  BY <1>1, <1>16, LayoutUnchanged DEF Leave, layout, LaidOut
<1>17. CASE UNCHANGED vars
  BY <1>1, <1>17, LayoutUnchanged DEF vars, layout, LaidOut
<1> QED
  BY <1>2, <1>3, <1>4, <1>5, <1>6, <1>7, <1>8, <1>9, <1>10, <1>11, <1>12, <1>13,
     <1>14, <1>15, <1>16, <1>17 DEF Next, Step, Handle, Terminated

LEMMA CursorInvariance == Spec => []CursorInv
BY CursorInit, CursorNext, PTL DEF Spec

(* The cursor is on a token and its line is in the window, for every       *)
(* number of tokens and every sequence of keys and resizes.                *)
THEOREM CursorStaysVisible == Spec => []CursorVisible
<1>1. CursorInv => CursorVisible
  BY DEF CursorInv, CursorVisible, LaidOut, Settled
<1> QED
  BY <1>1, CursorInvariance, PTL

(* The window never shows empty lines that tokens could fill.              *)
THEOREM WindowStaysFilled == Spec => []NoEmptyLines
<1>1. CursorInv => NoEmptyLines
  BY DEF CursorInv, NoEmptyLines, LaidOut, Settled
<1> QED
  BY <1>1, CursorInvariance, PTL

-------------------------------------------------------------------------------
(* The prompt that is drawn was wrapped for this screen: from when the     *)
(* terminal is resized until on_resize nothing is drawn.                   *)
Wrapping == Drawn \/ (phase = "pressed" /\ ch # "resize")

PromptInv ==
  /\ CursorInv
  /\ Wrapping => prompt_lines = LinesOf(args.prompt, screen.columns)

LEMMA OnResizeWraps ==
  ASSUME CursorInv, args' = args, screen' \in Screens(args), OnResize
  PROVE  Wrapping' => prompt_lines' = LinesOf(args'.prompt, screen'.columns)
<1>1. CASE TooSmall(screen')
  BY <1>1 DEF OnResize, Wrapping, Drawn
<1>2. CASE ~TooSmall(screen')
  <2>1. prompt_lines' = PromptLines[<<args, screen'>>] /\ args \in ArgSets
    BY <1>2 DEF OnResize, CursorInv
  <2>2. prompt_lines' = LinesOf(args.prompt, screen'.columns)
    BY <2>1, PromptLinesAre
  <2> QED
    BY <2>2
<1> QED
  BY <1>1, <1>2

LEMMA PromptNext == PromptInv /\ [Next]_vars => PromptInv'
<1> SUFFICES ASSUME PromptInv, [Next]_vars
             PROVE  Wrapping' => prompt_lines' = LinesOf(args'.prompt, screen'.columns)
  BY CursorNext DEF PromptInv
<1>1. /\ CursorInv /\ screen \in Screens(args)
      /\ Wrapping => prompt_lines = LinesOf(args.prompt, screen.columns)
  BY DEF PromptInv, CursorInv
<1>2. CASE Start
  BY <1>1, <1>2, OnResizeWraps DEF Start
<1>3. CASE Unlock
  BY <1>1, <1>3, OnResizeWraps DEF Unlock
<1>4. CASE Resize
  BY <1>1, <1>4, OnResizeWraps DEF Resize
<1>5. CASE ResizeScreen
  BY <1>5 DEF ResizeScreen, Wrapping, Drawn
<1>6. ASSUME UNCHANGED <<args, screen, prompt_lines>>, Wrapping' => Wrapping
      PROVE  Wrapping' => prompt_lines' = LinesOf(args'.prompt, screen'.columns)
  BY <1>1, <1>6
<1>7. CASE Draw
  BY <1>6, <1>7 DEF Draw, layout, Wrapping, Drawn
<1>8. CASE Press \/ Timeout \/ Interrupt
  BY <1>6, <1>8 DEF Press, Timeout, Interrupt, layout, Wrapping, Drawn
<1>9. CASE Quit
  <2>1. phase' \in {"leaving", "exited"}
    BY <1>9 DEF Quit, Wrote
  <2> QED
    BY <2>1 DEF Wrapping, Drawn
<1>10. CASE Clear \/ Toggle \/ Move
  <2>1. phase = "pressed" /\ ch \in MoveKeys \cup {"none", "clear", "space"}
        /\ UNCHANGED <<args, screen, prompt_lines>>
    BY <1>10 DEF Clear, Toggle, Move, Handles, layout
  <2>2. Wrapping
    BY <2>1 DEF Wrapping, MoveKeys
  <2> QED
    BY <1>6, <2>1, <2>2
<1>11. CASE Confirm
  <2>1. phase = "pressed" /\ ch = "confirm" /\ UNCHANGED <<args, screen, prompt_lines>>
    BY <1>11 DEF Confirm, Handles, layout
  <2>2. Wrapping
    BY <2>1 DEF Wrapping
  <2> QED
    BY <1>6, <2>1, <2>2
<1>12. CASE ConfirmNothing \/ Leave
  BY <1>12 DEF ConfirmNothing, Leave, Wrapping, Drawn
<1>13. CASE UNCHANGED vars
  BY <1>6, <1>13 DEF vars, layout, Wrapping, Drawn
<1> QED
  BY <1>2, <1>3, <1>4, <1>5, <1>7, <1>8, <1>9, <1>10, <1>11, <1>12, <1>13
     DEF Next, Step, Handle, Terminated

LEMMA PromptInvariance == Spec => []PromptInv
<1>1. Init => PromptInv
  BY CursorInit DEF Init, PromptInv, Wrapping, Drawn
<1> QED
  BY <1>1, PromptNext, PTL DEF Spec

(* The prompt that is drawn fits in its box, for every prompt and every    *)
(* sequence of resizes.                                                    *)
THEOREM PromptStaysInBox == Spec => []PromptFits
<1>1. PromptInv => PromptFits
  <2> SUFFICES ASSUME PromptInv, NEW i \in DOMAIN args.prompt, Drawn
               PROVE  Fits(args.prompt[i], prompt_lines, screen.columns - 2)
    BY DEF PromptFits
  <2>1. args \in ArgSets /\ screen \in Screens(args)
        /\ prompt_lines = LinesOf(args.prompt, screen.columns)
    BY DEF PromptInv, CursorInv, Wrapping
  <2>2. args.prompt \in Seq(Seq(Characters)) /\ Len(args.prompt) <= 1 /\ screen.columns \in Nat
    BY <2>1, ArgSetsAssumption, ScreensAssumption DEF ArgType, ScreenType, Lines
  <2>3. i = 1 /\ args.prompt # <<>>
    BY <2>2
  <2>4. args.prompt[1] \in Seq(Characters) /\ screen.columns - 2 \in Int
    BY <2>2, <2>3, ElementOfSeq
  <2>5. prompt_lines = CreatePromptLines(args.prompt[1], screen.columns - 2)
    BY <2>1, <2>3 DEF LinesOf
  <2> QED
    BY <2>3, <2>4, <2>5, PromptLinesFit
<1> QED
  BY <1>1, PromptInvariance, PTL

(* The prompt that is drawn has every visible character of the prompt, in  *)
(* its order, and a word of it is cut only where a line cannot hold it.    *)
THEOREM PromptKeepsWords == Spec => []PromptKept
<1>1. PromptInv => PromptKept
  <2> SUFFICES ASSUME PromptInv, NEW i \in DOMAIN args.prompt, Drawn
               PROVE  /\ Glyphs(FlattenSeq(prompt_lines)) = Glyphs(args.prompt[i])
                      /\ ~Contains(args.prompt[i], "combining") =>
                           Uncut(args.prompt[i], prompt_lines, screen.columns - 2)
    BY DEF PromptKept
  <2>1. args \in ArgSets /\ screen \in Screens(args)
        /\ prompt_lines = LinesOf(args.prompt, screen.columns)
    BY DEF PromptInv, CursorInv, Wrapping
  <2>2. args.prompt \in Seq(Seq(Characters)) /\ Len(args.prompt) <= 1 /\ screen.columns \in Nat
    BY <2>1, ArgSetsAssumption, ScreensAssumption DEF ArgType, ScreenType, Lines
  <2>3. i = 1 /\ args.prompt # <<>>
    BY <2>2
  <2>4. args.prompt[1] \in Seq(Characters) /\ screen.columns - 2 \in Int
    BY <2>2, <2>3, ElementOfSeq
  <2>5. prompt_lines = CreatePromptLines(args.prompt[1], screen.columns - 2)
    BY <2>1, <2>3 DEF LinesOf
  <2> QED
    BY <2>3, <2>4, <2>5, PromptWordsKept
<1> QED
  BY <1>1, PromptInvariance, PTL

-------------------------------------------------------------------------------
(* ncurses is left when the program is, and never before.                  *)
EndwinInv ==
  /\ phase \in Phases
  /\ endwins = IF phase \in {"leaving", "exited"} THEN 1 ELSE 0
  /\ phase \notin {"leaving", "exited"} => terminal # "ended"

LEMMA EndwinNext == EndwinInv /\ [Next]_vars => EndwinInv'
<1> SUFFICES ASSUME EndwinInv, [Next]_vars
             PROVE  EndwinInv'
  OBVIOUS
<1> USE DEF Handles, EndwinInv, Phases, output, EndwinBefore, EndwinOnFailure
<1>1. CASE Start \/ Unlock \/ Resize
  BY <1>1 DEF Start, Unlock, Resize, OnResize
<1>2. CASE Draw \/ Press \/ ResizeScreen \/ Timeout
  BY <1>2 DEF Draw, Press, ResizeScreen, Timeout
<1>3. CASE Interrupt
  BY <1>3 DEF Interrupt
<1>4. CASE Clear \/ Toggle \/ Move
  BY <1>4 DEF Clear, Toggle, Move
<1>5. CASE ConfirmNothing \/ Leave
  BY <1>5 DEF ConfirmNothing, Leave
<1>6. CASE Quit
  <2>1. phase = "pressed" /\ Wrote(os, FinishOutput(os, args), "ended", "leaving")
    BY <1>6 DEF Quit
  <2> QED
    BY <2>1 DEF Wrote
<1>7. CASE Confirm
  <2> DEFINE written == WriteBatch(os, args, Chosen)
  <2>1. /\ phase = "pressed"
        /\ IF args.tenacious THEN Wrote(os, written, ModeToWrite, "drawing")
           ELSE Wrote(os, FinishOutput(written, args), ModeToWrite, "leaving")
    BY <1>7 DEF Confirm
  <2> HIDE DEF written
  <2>2. CASE args.tenacious
    <3>1. ModeToWrite = terminal \/ ModeToWrite = "released"
      BY <2>2 DEF ModeToWrite
    <3> QED
      BY <2>1, <2>2, <3>1 DEF Wrote
  <2>3. CASE ~args.tenacious
    <3>1. ModeToWrite = "ended"
      BY <2>3 DEF ModeToWrite
    <3> QED
      BY <2>1, <2>3, <3>1 DEF Wrote
  <2> QED
    BY <2>2, <2>3
<1>8. CASE UNCHANGED vars
  BY <1>8 DEF vars
<1> QED
  BY <1>1, <1>2, <1>3, <1>4, <1>5, <1>6, <1>7, <1>8 DEF Next, Step, Handle, Terminated

(* endwin is called before the program exits and not twice, whatever was   *)
(* confirmed, also if SIGINT or a failed write ends it.                    *)
THEOREM EndwinCalledOnce == Spec => []EndwinOnce
<1>1. Init => EndwinInv
  BY DEF Init, EndwinInv, Phases
<1>2. EndwinInv => EndwinOnce
  BY DEF EndwinInv, EndwinOnce
<1> QED
  BY <1>1, <1>2, EndwinNext, PTL DEF Spec

-------------------------------------------------------------------------------
(* Sorting.                                                                *)

(* There is an order to put numbers in: equal ones by their places.        *)
SortOrder(s, n) ==
  {pair \in (1..n) \X (1..n) :
     \/ s[pair[1]] < s[pair[2]]
     \/ s[pair[1]] = s[pair[2]] /\ pair[1] < pair[2]}

Sorts(p, s, n) == \A i, j \in 1..n : i < j => s[p[i]] <= s[p[j]]

LEMMA SortedIs ==
  ASSUME NEW n \in Nat, NEW s \in [1..n -> Int]
  PROVE  \E p \in Bijection(1..n, 1..n) :
           Sorts(p, s, n) /\ Sorted(s) = [i \in 1..n |-> s[p[i]]]
<1>1. \A k, l \in 1..n : <<k, l>> \in SortOrder(s, n) <=>
                           s[k] < s[l] \/ (s[k] = s[l] /\ k < l)
  BY DEF SortOrder
<1>2. \A k \in 1..n : s[k] \in Int
  OBVIOUS
<1>3. StrictOrder(SortOrder(s, n), 1..n)
  <2>1. \A k \in 1..n : <<k, k>> \notin SortOrder(s, n)
    BY <1>1, <1>2
  <2>2. ASSUME NEW k \in 1..n, NEW l \in 1..n, NEW m \in 1..n,
               <<k, l>> \in SortOrder(s, n), <<l, m>> \in SortOrder(s, n)
        PROVE  <<k, m>> \in SortOrder(s, n)
    <3>1. s[k] \in Int /\ s[l] \in Int /\ s[m] \in Int
      BY <1>2
    <3>2. /\ s[k] < s[l] \/ (s[k] = s[l] /\ k < l)
          /\ s[l] < s[m] \/ (s[l] = s[m] /\ l < m)
      BY <1>1, <2>2
    <3>3. s[k] < s[m] \/ (s[k] = s[m] /\ k < m)
      BY <3>1, <3>2
    <3> QED
      BY <1>1, <3>3
  <2>3. ASSUME NEW k \in 1..n, NEW l \in 1..n, k # l
        PROVE  <<k, l>> \in SortOrder(s, n) \/ <<l, k>> \in SortOrder(s, n)
    <3>1. s[k] \in Int /\ s[l] \in Int
      BY <1>2
    <3>2. \/ s[k] < s[l]
          \/ s[k] = s[l] /\ k < l
          \/ s[l] < s[k]
          \/ s[l] = s[k] /\ l < k
      BY <2>3, <3>1
    <3>3. /\ <<k, l>> \in SortOrder(s, n) <=> s[k] < s[l] \/ (s[k] = s[l] /\ k < l)
          /\ <<l, k>> \in SortOrder(s, n) <=> s[l] < s[k] \/ (s[l] = s[k] /\ l < k)
      BY <1>1
    <3> QED
      BY <3>2, <3>3
  <2> QED
    BY <2>1, <2>2, <2>3 DEF StrictOrder
<1>4. PICK g : Enumerates(g, n, SortOrder(s, n))
  BY <1>3, OrderListed
<1>5. g \in Bijection(1..n, 1..n)
  BY <1>4 DEF Enumerates, Bijection, Injection, Surjection, IsInjective
<1>6. Sorts(g, s, n)
  <2>1. g \in [1..n -> 1..n] /\ \A i, j \in 1..n : i < j => <<g[i], g[j]>> \in SortOrder(s, n)
    BY <1>4 DEF Enumerates
  <2> SUFFICES ASSUME NEW i \in 1..n, NEW j \in 1..n, i < j PROVE s[g[i]] <= s[g[j]]
    BY DEF Sorts
  <2>2. PICK k \in 1..n, l \in 1..n : k = g[i] /\ l = g[j] /\ <<k, l>> \in SortOrder(s, n)
    BY <2>1
  <2>3. s[k] < s[l] \/ s[k] = s[l]
    BY <1>1, <2>2
  <2>4. s[k] \in Int /\ s[l] \in Int
    BY <1>2
  <2> QED
    BY <2>2, <2>3, <2>4
<1> DEFINE p == CHOOSE q \in Bijection(1..n, 1..n) : Sorts(q, s, n)
<1>7. p \in Bijection(1..n, 1..n) /\ Sorts(p, s, n)
  BY <1>5, <1>6
<1>8. Sorted(s) = [i \in 1..n |-> s[p[i]]]
  <2>1. DOMAIN s = 1..n
    OBVIOUS
  <2> QED
    BY <2>1 DEF Sorted, Sorts
<1> HIDE DEF p
<1> QED
  BY <1>7, <1>8

LEMMA SortedType ==
  ASSUME NEW S, S \subseteq Int, NEW s \in Seq(S)
  PROVE  Sorted(s) \in Seq(S) /\ Len(Sorted(s)) = Len(s)
<1>1. PICK n \in Nat : n = Len(s) /\ s \in [1..n -> S]
  BY LenProperties
<1>2. s \in [1..n -> Int]
  BY <1>1
<1>3. PICK p \in Bijection(1..n, 1..n) : Sorted(s) = [i \in 1..n |-> s[p[i]]]
  BY <1>2, SortedIs
<1>4. p \in [1..n -> 1..n]
  BY DEF Bijection, Injection
<1>5. Sorted(s) \in [1..n -> S]
  BY <1>1, <1>3, <1>4
<1> QED
  BY <1>1, <1>5

-------------------------------------------------------------------------------
(* What is selected.                                                       *)

(* The places of the tokens; without any, no token is confirmed.           *)
Positions == IF size > 0 THEN 0..size - 1 ELSE Int

LEMMA FirstRemoved ==
  ASSUME NEW S, NEW s \in Seq(S), NEW e, Contains(s, e)
  PROVE  \E m \in 1..Len(s) :
           /\ s[m] = e /\ \A i \in 1..m - 1 : s[i] # e
           /\ RemoveFirst(s, e) = SubSeq(s, 1, m - 1) \o SubSeq(s, m + 1, Len(s))
<1> DEFINE I == {i \in 1..Len(s) : s[i] = e}
<1>1. I # {} /\ I \subseteq Nat
  BY DEF Contains
<1>2. Min(I) \in I /\ \A i \in I : Min(I) <= i
  BY <1>1, MinIsLeast
<1>3. SelectInSeq(s, LAMBDA v : v = e) = Min(I)
  BY <1>1 DEF SelectInSeq
<1>4. RemoveFirst(s, e) = SubSeq(s, 1, Min(I) - 1) \o SubSeq(s, Min(I) + 1, Len(s))
  BY <1>1, <1>3 DEF RemoveFirst, RemoveAt
<1>5. PICK m : m = Min(I)
  OBVIOUS
<1>6. m \in 1..Len(s) /\ s[m] = e
  BY <1>2, <1>5
<1>7. \A i \in 1..m - 1 : s[i] # e
  <2> SUFFICES ASSUME NEW i \in 1..m - 1, s[i] = e PROVE FALSE
    OBVIOUS
  <2>1. Len(s) \in Nat
    BY LenProperties
  <2>2. i \in I
    BY <1>6, <2>1
  <2>3. m <= i
    BY <1>2, <1>5, <2>2
  <2> QED
    BY <1>6, <2>1, <2>3
<1> HIDE DEF I
<1> QED
  BY <1>4, <1>5, <1>6, <1>7

LEMMA ToggledType ==
  ASSUME NEW S, NEW s \in Seq(S), NEW e \in S
  PROVE  Toggled(s, e) \in Seq(S)
<1>1. CASE Contains(s, e)
  <2>1. PICK m \in 1..Len(s) :
          RemoveFirst(s, e) = SubSeq(s, 1, m - 1) \o SubSeq(s, m + 1, Len(s))
    BY <1>1, FirstRemoved
  <2>2. Len(s) \in Nat /\ \A i \in 1..Len(s) : s[i] \in S
    BY LenProperties, ElementOfSeq
  <2>3. SubSeq(s, 1, m - 1) \in Seq(S)
    BY <2>2, SubSeqProperties
  <2>4. SubSeq(s, m + 1, Len(s)) \in Seq(S)
    BY <2>2, SubSeqProperties
  <2> QED
    BY <1>1, <2>1, <2>3, <2>4, ConcatProperties DEF Toggled
<1>2. CASE ~Contains(s, e)
  BY <1>2, AppendProperties DEF Toggled
<1> QED
  BY <1>1, <1>2

-------------------------------------------------------------------------------
(* Texts of batches.                                                       *)

Continues(f, s, e, n) ==
  /\ DOMAIN f = 1..n + 1 /\ f = [i \in 1..n + 1 |-> f[i]]
  /\ f[n + 1] = e /\ \A i \in 1..n : f[i] = s[i]

LEMMA AppendedIs ==
  ASSUME NEW n \in Nat, NEW s, IsSequence(s), Len(s) = n, NEW e, NEW f, Continues(f, s, e, n)
  PROVE  f = Append(s, e)
<1> USE DEF Continues
<1>1. IsSequence(f) /\ Len(f) = n + 1
  BY ListedSequence
<1>2. /\ IsSequence(Append(s, e)) /\ Append(s, e)[n + 1] = e
      /\ \A i \in 1..n : Append(s, e)[i] = s[i]
      /\ DOMAIN Append(s, e) = 1..n + 1
  BY AppendedSequence
<1>3. Len(Append(s, e)) = n + 1
  BY <1>2, SequenceFacts
<1>4. \A i \in 1..n + 1 : f[i] = Append(s, e)[i]
  <2>1. \A i \in 1..n + 1 : i \in 1..n \/ i = n + 1
    OBVIOUS
  <2> QED
    BY <1>2, <2>1
<1> QED
  BY <1>1, <1>2, <1>3, <1>4, SameSequence

LEMMA JoinedAppend ==
  ASSUME NEW S, NEW ss \in Seq(Seq(S)), NEW s \in Seq(S), NEW sep \in S
  PROVE  /\ Joined(ss, sep) \in Seq(S)
         /\ Joined(Append(ss, s), sep) =
              Joined(ss, sep) \o IF ss = <<>> THEN s ELSE <<sep>> \o s
<1> DEFINE more == Append(ss, s)
           led == [i \in DOMAIN ss |-> IF i = 1 THEN ss[i] ELSE <<sep>> \o ss[i]]
           last == IF ss = <<>> THEN s ELSE <<sep>> \o s
           both == [i \in DOMAIN more |-> IF i = 1 THEN more[i] ELSE <<sep>> \o more[i]]
<1>1. PICK n \in Nat : n = Len(ss) /\ DOMAIN ss = 1..n
  BY LenProperties
<1>2. <<sep>> \in Seq(S)
  OBVIOUS
<1>3. led \in Seq(Seq(S)) /\ Len(led) = n
  <2>1. \A i \in 1..n : ss[i] \in Seq(S) /\ <<sep>> \o ss[i] \in Seq(S)
    BY <1>1, <1>2, ElementOfSeq, ConcatProperties
  <2>2. led \in [1..n -> Seq(S)]
    BY <1>1, <2>1
  <2> QED
    BY <2>2
<1>4. last \in Seq(S)
  BY <1>2, ConcatProperties
<1>5. DOMAIN more = 1..n + 1 /\ more[n + 1] = s /\ \A i \in 1..n : more[i] = ss[i]
  BY <1>1
<1>6. both = Append(led, last)
  <2>1. ss = <<>> <=> n = 0
    BY <1>1
  <2>2. both[n + 1] = last
    BY <1>5, <2>1
  <2>3. \A i \in 1..n : both[i] = led[i]
    BY <1>1, <1>5
  <2>4. DOMAIN both = 1..n + 1 /\ both = [i \in 1..n + 1 |-> both[i]]
    BY <1>5
  <2> HIDE DEF both, led, last
  <2>5. IsSequence(led)
    BY <1>3 DEF IsSequence
  <2>6. Continues(both, led, last, n)
    BY <2>2, <2>3, <2>4 DEF Continues
  <2> QED
    BY <1>3, <2>5, <2>6, AppendedIs
<1>7. Joined(ss, sep) = FlattenSeq(led) /\ Joined(more, sep) = FlattenSeq(both)
  BY DEF Joined
<1>8. FlattenSeq(Append(led, last)) = FlattenSeq(led) \o last /\ FlattenSeq(led) \in Seq(S)
  <2> HIDE DEF led, last
  <2> QED
    BY <1>3, <1>4, FlattenSeqAppend, FlattenSeqType
<1> QED
  BY <1>6, <1>7, <1>8

LEMMA JoinedNone == ASSUME NEW sep PROVE Joined(<<>>, sep) = <<>>
<1>1. [i \in DOMAIN <<>> |-> IF i = 1 THEN <<>>[i] ELSE <<sep>> \o <<>>[i]] = <<>>
  OBVIOUS
<1> QED
  BY <1>1 DEF Joined, FlattenSeq

LEMMA ItemsAre ==
  /\ \A n \in Nat : Item("token", n) \in Items
  /\ Item("delimiter", 0) \in Items /\ Item("batch", 0) \in Items
  BY DEF Item, Items

LEMMA BatchTextAppend ==
  ASSUME NEW s \in Seq(Nat), NEW n \in Nat
  PROVE  /\ BatchText(s) \in Seq(Items)
         /\ BatchText(Append(s, n)) =
              BatchText(s) \o IF s = <<>> THEN <<Item("token", n)>>
                              ELSE <<Item("delimiter", 0)>> \o <<Item("token", n)>>
<1> DEFINE ss == [i \in DOMAIN s |-> <<Item("token", s[i])>>]
           more == Append(s, n)
           both == [i \in DOMAIN more |-> <<Item("token", more[i])>>]
<1>1. PICK m \in Nat : m = Len(s) /\ DOMAIN s = 1..m
  BY LenProperties
<1>2. ss \in Seq(Seq(Items)) /\ Len(ss) = m
  <2>1. \A i \in 1..m : <<Item("token", s[i])>> \in Seq(Items)
    <3> SUFFICES ASSUME NEW i \in 1..m PROVE <<Item("token", s[i])>> \in Seq(Items)
      OBVIOUS
    <3>1. Item("token", s[i]) \in Items
      BY <1>1, ElementOfSeq, ItemsAre
    <3> QED
      BY <3>1
  <2>2. ss \in [1..m -> Seq(Items)]
    BY <1>1, <2>1
  <2> QED
    BY <2>2
<1>3. <<Item("token", n)>> \in Seq(Items)
  BY ItemsAre
<1>4. both = Append(ss, <<Item("token", n)>>)
  <2>1. DOMAIN more = 1..m + 1 /\ more[m + 1] = n /\ \A i \in 1..m : more[i] = s[i]
    BY <1>1
  <2>2. DOMAIN both = 1..m + 1 /\ both = [i \in 1..m + 1 |-> both[i]]
    BY <2>1
  <2>3. both[m + 1] = <<Item("token", n)>> /\ \A i \in 1..m : both[i] = ss[i]
    BY <1>1, <2>1
  <2> HIDE DEF both, ss, more
  <2>4. IsSequence(ss) /\ Len(ss) = m
    BY <1>2 DEF IsSequence
  <2>5. Continues(both, ss, <<Item("token", n)>>, m)
    BY <2>2, <2>3 DEF Continues
  <2> QED
    BY <2>4, <2>5, AppendedIs
<1>5. s = <<>> <=> ss = <<>>
  BY <1>1, <1>2
<1>6. BatchText(s) = Joined(ss, Item("delimiter", 0))
      /\ BatchText(more) = Joined(both, Item("delimiter", 0))
  BY DEF BatchText
<1> HIDE DEF ss, both, more
<1>7. PICK d \in Items : d = Item("delimiter", 0)
  BY ItemsAre
<1>8. PICK t \in Seq(Items) : t = <<Item("token", n)>>
  BY <1>3
<1>9. /\ Joined(ss, d) \in Seq(Items)
      /\ Joined(Append(ss, t), d) = Joined(ss, d) \o IF ss = <<>> THEN t ELSE <<d>> \o t
  BY <1>2, JoinedAppend, ZenonT(60)
<1> QED
  BY <1>4, <1>5, <1>6, <1>7, <1>8, <1>9 DEF more

(* The text of the batches confirmed, and of one more.                     *)
LEMMA TextAppend ==
  ASSUME NEW bs \in Seq(Seq(Nat)), NEW b \in Seq(Nat)
  PROVE  /\ Text(bs) \in Seq(Items) /\ BatchText(b) \in Seq(Items)
         /\ Text(Append(bs, b)) =
              Text(bs) \o IF bs = <<>> THEN BatchText(b)
                          ELSE <<Item("batch", 0)>> \o BatchText(b)
<1> DEFINE ss == [i \in DOMAIN bs |-> BatchText(bs[i])]
           more == Append(bs, b)
           both == [i \in DOMAIN more |-> BatchText(more[i])]
<1>1. PICK m \in Nat : m = Len(bs) /\ DOMAIN bs = 1..m
  BY LenProperties
<1>2. \A s \in Seq(Nat) : BatchText(s) \in Seq(Items)
  BY BatchTextAppend
<1>3. ss \in Seq(Seq(Items)) /\ Len(ss) = m
  <2>1. \A i \in 1..m : BatchText(bs[i]) \in Seq(Items)
    BY <1>1, <1>2, ElementOfSeq
  <2>2. ss \in [1..m -> Seq(Items)]
    BY <1>1, <2>1
  <2> QED
    BY <2>2
<1>4. both = Append(ss, BatchText(b))
  <2>1. DOMAIN more = 1..m + 1 /\ more[m + 1] = b /\ \A i \in 1..m : more[i] = bs[i]
    BY <1>1
  <2>2. DOMAIN both = 1..m + 1 /\ both = [i \in 1..m + 1 |-> both[i]]
    BY <2>1
  <2>3. both[m + 1] = BatchText(b) /\ \A i \in 1..m : both[i] = ss[i]
    BY <1>1, <2>1
  <2> HIDE DEF both, ss, more
  <2>4. IsSequence(ss) /\ Len(ss) = m
    BY <1>3 DEF IsSequence
  <2>5. Continues(both, ss, BatchText(b), m)
    BY <2>2, <2>3 DEF Continues
  <2> QED
    BY <2>4, <2>5, AppendedIs
<1>5. bs = <<>> <=> ss = <<>>
  <2> HIDE DEF ss
  <2> QED
    BY <1>1, <1>3
<1>6. Text(bs) = Joined(ss, Item("batch", 0)) /\ Text(more) = Joined(both, Item("batch", 0))
  BY DEF Text
<1> HIDE DEF ss, both, more
<1>7. PICK d \in Items : d = Item("batch", 0)
  BY ItemsAre
<1>8. PICK t \in Seq(Items) : t = BatchText(b)
  BY <1>2
<1>9. /\ Joined(ss, d) \in Seq(Items)
      /\ Joined(Append(ss, t), d) = Joined(ss, d) \o IF ss = <<>> THEN t ELSE <<d>> \o t
  BY <1>3, JoinedAppend, ZenonT(60)
<1> QED
  BY <1>4, <1>5, <1>6, <1>7, <1>8, <1>9 DEF more

LEMMA NoText == Text(<<>>) = <<>> /\ BatchText(<<>>) = <<>>
<1>1. [b \in DOMAIN <<>> |-> BatchText(<<>>[b])] = <<>>
  OBVIOUS
<1>2. [i \in DOMAIN <<>> |-> <<Item("token", <<>>[i])>>] = <<>>
  OBVIOUS
<1> QED
  BY <1>1, <1>2, JoinedNone DEF Text, BatchText

-------------------------------------------------------------------------------
(* Writing.                                                                *)

(* v is o with x written where the options say.                            *)
Added(v, o, a, x) ==
  /\ v \in Streams
  /\ IF IsQueued(a) THEN v.out = o.out /\ v.queue = o.queue \o x
                    ELSE v.out = o.out \o x /\ v.queue = o.queue

LEMMA StreamFields ==
  ASSUME NEW o \in Streams
  PROVE  /\ o.out \in Seq(Items) /\ o.queue \in Seq(Items)
         /\ o.first_within_batch \in BOOLEAN /\ o.first_batch \in BOOLEAN
  BY DEF Streams

LEMMA WriteAdds ==
  ASSUME NEW v, NEW o \in Streams, NEW a, NEW x \in Seq(Items), NEW y \in Seq(Items),
         Added(v, o, a, x)
  PROVE  /\ Added(Write(v, a, y), o, a, x \o y)
         /\ Write(v, a, y).first_batch = v.first_batch
         /\ Write(v, a, y).first_within_batch = v.first_within_batch
<1>1. v \in Streams /\ v.out \in Seq(Items) /\ v.queue \in Seq(Items)
  BY StreamFields DEF Added
<1>2. o.out \in Seq(Items) /\ o.queue \in Seq(Items)
  BY StreamFields
<1>3. CASE IsQueued(a)
  <2>1. v.out = o.out /\ v.queue = o.queue \o x
    BY <1>3 DEF Added
  <2>2. Write(v, a, y) = [v EXCEPT !.queue = v.queue \o y]
    BY <1>3 DEF Write
  <2>3. v.queue \o y \in Seq(Items)
    BY <1>1
  <2>4. v.queue \o y = o.queue \o (x \o y)
    <3>1. PICK p \in Seq(Items) : p = o.queue
      BY <1>2
    <3>2. (p \o x) \o y = p \o (x \o y)
      BY ConcatAssociative
    <3> QED
      BY <2>1, <3>1, <3>2
  <2>5. PICK q \in Seq(Items) : q = v.queue \o y
    BY <2>3
  <2>6. Write(v, a, y) = [v EXCEPT !.queue = q]
    BY <2>2, <2>5
  <2>7. /\ Write(v, a, y) \in Streams
        /\ Write(v, a, y).out = v.out /\ Write(v, a, y).queue = q
        /\ Write(v, a, y).first_batch = v.first_batch
        /\ Write(v, a, y).first_within_batch = v.first_within_batch
    BY <1>1, <2>6 DEF Streams
  <2> QED
    BY <1>3, <2>1, <2>4, <2>5, <2>7 DEF Added
<1>4. CASE ~IsQueued(a)
  <2>1. v.out = o.out \o x /\ v.queue = o.queue
    BY <1>4 DEF Added
  <2>2. Write(v, a, y) = [v EXCEPT !.out = v.out \o y]
    BY <1>4 DEF Write
  <2>3. v.out \o y \in Seq(Items)
    BY <1>1
  <2>4. v.out \o y = o.out \o (x \o y)
    <3>1. PICK p \in Seq(Items) : p = o.out
      BY <1>2
    <3>2. (p \o x) \o y = p \o (x \o y)
      BY ConcatAssociative
    <3> QED
      BY <2>1, <3>1, <3>2
  <2>5. PICK q \in Seq(Items) : q = v.out \o y
    BY <2>3
  <2>6. Write(v, a, y) = [v EXCEPT !.out = q]
    BY <2>2, <2>5
  <2>7. /\ Write(v, a, y) \in Streams
        /\ Write(v, a, y).out = q /\ Write(v, a, y).queue = v.queue
        /\ Write(v, a, y).first_batch = v.first_batch
        /\ Write(v, a, y).first_within_batch = v.first_within_batch
    BY <1>1, <2>6 DEF Streams
  <2> QED
    BY <1>4, <2>1, <2>4, <2>5, <2>7 DEF Added
<1> QED
  BY <1>3, <1>4

(* One token: with what separates it from what was written before.         *)
LEMMA OutputAdds ==
  ASSUME NEW v, NEW o \in Streams, NEW a, NEW x \in Seq(Items), NEW n \in Nat,
         Added(v, o, a, x)
  PROVE  /\ Added(WriteOutput(v, a, n), o, a, x \o (Separator(v) \o <<Item("token", n)>>))
         /\ WriteOutput(v, a, n).first_batch = v.first_batch
         /\ WriteOutput(v, a, n).first_within_batch = FALSE
<1>1. Separator(v) \in Seq(Items)
  BY ItemsAre DEF Separator
<1>2. <<Item("token", n)>> \in Seq(Items)
  BY ItemsAre
<1>3. PICK y \in Seq(Items) : y = Separator(v) \o <<Item("token", n)>>
  BY <1>1, <1>2, ConcatProperties
<1> DEFINE w == Write(v, a, y)
<1>4. Added(w, o, a, x \o y) /\ w.first_batch = v.first_batch
  BY WriteAdds
<1> HIDE DEF w
<1>5. WriteOutput(v, a, n) = [w EXCEPT !.first_within_batch = FALSE]
  BY <1>3 DEF WriteOutput, w
<1>6. w \in Streams
  BY <1>4 DEF Added
<1>7. /\ WriteOutput(v, a, n) \in Streams
      /\ WriteOutput(v, a, n).out = w.out /\ WriteOutput(v, a, n).queue = w.queue
      /\ WriteOutput(v, a, n).first_batch = w.first_batch
      /\ WriteOutput(v, a, n).first_within_batch = FALSE
  BY <1>5, <1>6 DEF Streams
<1> QED
  BY <1>3, <1>4, <1>7 DEF Added

LEMMA ItemsAssociative ==
  ASSUME NEW p \in Seq(Items), NEW q \in Seq(Items), NEW r \in Seq(Items)
  PROVE  (p \o q) \o r = p \o (q \o r)
  BY ConcatAssociative

SetWriteOutput(o, n, a) == WriteOutput(o, a, n)
B == INSTANCE FoldLemmas WITH Op <- SetWriteOutput

LEMMA WriteBatchIs ==
  ASSUME NEW o, NEW a, NEW s
  PROVE  WriteBatch(o, a, s) = FinishBatch(B!Fold(o, s, a))
<1>1. FoldLeft(LAMBDA v, n : WriteOutput(v, a, n), o, s) = B!Fold(o, s, a)
  BY DEF B!Fold, FoldLeft, B!FoldLeft, MapThenFoldSet, B!MapThenFoldSet, Max, B!Max,
         SetWriteOutput
<1> QED
  BY <1>1 DEF WriteBatch

Lead(o) == IF o.first_batch THEN <<>> ELSE <<Item("batch", 0)>>

LEMMA PrefixGrows ==
  ASSUME NEW S, NEW s \in Seq(S), NEW i \in 1..Len(s)
  PROVE  /\ SubSeq(s, 1, i - 1) \in Seq(S) /\ Len(SubSeq(s, 1, i - 1)) = i - 1
         /\ SubSeq(s, 1, i) = Append(SubSeq(s, 1, i - 1), s[i])
<1> DEFINE t == SubSeq(s, 1, i - 1)
           u == SubSeq(s, 1, i)
<1>1. Len(s) \in Nat /\ \A j \in 1..Len(s) : s[j] \in S
  BY LenProperties, ElementOfSeq
<1>2. t \in Seq(S) /\ Len(t) = i - 1 /\ \A j \in 1..i - 1 : t[j] = s[j]
  <2>1. \A j \in 1..i - 1 : s[j] \in S
    BY <1>1
  <2>2. i - 1 \in Int /\ 1 \in Int
    BY <1>1
  <2>3. /\ t \in Seq(S) /\ Len(t) = IF 1 <= i - 1 THEN (i - 1) - 1 + 1 ELSE 0
        /\ \A j \in 1..(i - 1) - 1 + 1 : t[j] = s[1 + j - 1]
    BY <2>1, <2>2, SubSeqProperties
  <2> HIDE DEF t
  <2> QED
    BY <1>1, <2>3
<1>3. u \in Seq(S) /\ Len(u) = i /\ \A j \in 1..i : u[j] = s[j]
  <2>1. \A j \in 1..i : s[j] \in S
    BY <1>1
  <2>2. i \in Int /\ 1 \in Int
    BY <1>1
  <2>3. /\ u \in Seq(S) /\ Len(u) = IF 1 <= i THEN i - 1 + 1 ELSE 0
        /\ \A j \in 1..i - 1 + 1 : u[j] = s[1 + j - 1]
    BY <2>1, <2>2, SubSeqProperties
  <2> HIDE DEF u
  <2> QED
    BY <1>1, <2>3
<1> HIDE DEF t, u
<1>4. PICK m \in Nat : m = i - 1 /\ m + 1 = i
  BY <1>1
<1>5. Continues(u, t, s[i], m)
  <2>1. DOMAIN u = 1..m + 1 /\ u = [j \in 1..m + 1 |-> u[j]]
    BY <1>3, <1>4
  <2>2. u[m + 1] = s[i] /\ \A j \in 1..m : u[j] = t[j]
    BY <1>2, <1>3, <1>4
  <2> QED
    BY <2>1, <2>2 DEF Continues
<1>6. u = Append(t, s[i])
  BY <1>2, <1>4, <1>5, AppendedIs DEF IsSequence
<1> QED
  BY <1>2, <1>6 DEF t, u

(* After the first i tokens of a batch.                                    *)
Begun(v, o, a, s, i) ==
  IF i = 0 THEN v = o
  ELSE /\ Added(v, o, a, Lead(o) \o BatchText(SubSeq(s, 1, i)))
       /\ v.first_batch = o.first_batch /\ v.first_within_batch = FALSE

LEMMA BegunNext ==
  ASSUME NEW o \in Streams, o.first_within_batch, NEW a, NEW s \in Seq(Nat),
         NEW i \in 1..Len(s), NEW v, Begun(v, o, a, s, i - 1)
  PROVE  Begun(WriteOutput(v, a, s[i]), o, a, s, i)
<1>1. PICK n \in Nat : n = s[i]
  BY ElementOfSeq
<1>2. PICK t \in Seq(Nat) : t = SubSeq(s, 1, i - 1) /\ Len(t) = i - 1
  BY PrefixGrows
<1>3. SubSeq(s, 1, i) = Append(t, n)
  BY <1>1, <1>2, PrefixGrows
<1>4. /\ BatchText(t) \in Seq(Items)
      /\ BatchText(Append(t, n)) =
           BatchText(t) \o IF t = <<>> THEN <<Item("token", n)>>
                           ELSE <<Item("delimiter", 0)>> \o <<Item("token", n)>>
  BY BatchTextAppend
<1>5. Lead(o) \in Seq(Items) /\ <<Item("token", n)>> \in Seq(Items)
  BY ItemsAre DEF Lead
<1>6. CASE i = 1
  <2>1. v = o /\ t = <<>>
    BY <1>2, <1>6 DEF Begun
  <2>2. Separator(v) = Lead(o)
    BY <2>1 DEF Separator, Lead
  <2>3. Added(o, o, a, <<>>)
    BY StreamFields DEF Added
  <2>4. <<>> \in Seq(Items)
    OBVIOUS
  <2>5. PICK e \in Seq(Items) : e = <<>>
    BY <2>4
  <2>6. Added(v, o, a, e)
    BY <2>1, <2>3, <2>5
  <2>7. /\ Added(WriteOutput(v, a, n), o, a, e \o (Separator(v) \o <<Item("token", n)>>))
        /\ WriteOutput(v, a, n).first_batch = v.first_batch
        /\ WriteOutput(v, a, n).first_within_batch = FALSE
    BY <2>6, OutputAdds
  <2>8. BatchText(Append(t, n)) = <<Item("token", n)>>
    <3>1. BatchText(Append(t, n)) = <<>> \o <<Item("token", n)>>
      BY <1>4, <2>1, NoText
    <3> QED
      BY <1>5, <3>1, ConcatEmptySeq
  <2>9. e \o (Separator(v) \o <<Item("token", n)>>) = Lead(o) \o BatchText(Append(t, n))
    BY <1>5, <2>2, <2>5, <2>8, ConcatEmptySeq, ConcatProperties
  <2>10. Added(WriteOutput(v, a, n), o, a, Lead(o) \o BatchText(SubSeq(s, 1, i)))
    BY <1>3, <2>7, <2>9
  <2> QED
    BY <1>1, <1>6, <2>1, <2>7, <2>10 DEF Begun
<1>7. CASE i # 1
  <2>1. /\ Added(v, o, a, Lead(o) \o BatchText(t))
        /\ v.first_batch = o.first_batch /\ v.first_within_batch = FALSE
    BY <1>2, <1>7 DEF Begun
  <2>2. t # <<>>
    BY <1>2, <1>7
  <2>3. Separator(v) = <<Item("delimiter", 0)>>
    BY <2>1 DEF Separator
  <2>4. PICK x \in Seq(Items) : x = Lead(o) \o BatchText(t)
    BY <1>4, <1>5, ConcatProperties
  <2>5. /\ Added(WriteOutput(v, a, n), o, a, x \o (Separator(v) \o <<Item("token", n)>>))
        /\ WriteOutput(v, a, n).first_batch = v.first_batch
        /\ WriteOutput(v, a, n).first_within_batch = FALSE
    BY <2>1, <2>4, OutputAdds, ZenonT(30)
  <2>6. PICK y \in Seq(Items) : y = <<Item("delimiter", 0)>> \o <<Item("token", n)>>
    <3>1. <<Item("delimiter", 0)>> \in Seq(Items)
      BY ItemsAre
    <3> QED
      BY <1>5, <3>1, ConcatProperties
  <2>7. BatchText(Append(t, n)) = BatchText(t) \o y
    BY <1>4, <2>2, <2>6
  <2>8. x \o y = Lead(o) \o BatchText(Append(t, n))
    <3>1. PICK p \in Seq(Items), q \in Seq(Items) : p = Lead(o) /\ q = BatchText(t)
      BY <1>4, <1>5
    <3>2. (p \o q) \o y = p \o (q \o y)
      BY ItemsAssociative
    <3> QED
      BY <2>4, <2>7, <3>1, <3>2
  <2>9. Added(WriteOutput(v, a, n), o, a, Lead(o) \o BatchText(SubSeq(s, 1, i)))
    BY <1>3, <2>3, <2>5, <2>6, <2>8
  <2> QED
    BY <1>1, <1>7, <2>1, <2>5, <2>9 DEF Begun
<1> QED
  BY <1>6, <1>7

(* A batch is written as its text, after the delimiter that it needs.      *)
LEMMA BatchWritten ==
  ASSUME NEW o \in Streams, o.first_within_batch, NEW a, NEW s \in Seq(Nat), s # <<>>
  PROVE  /\ Added(WriteBatch(o, a, s), o, a, Lead(o) \o BatchText(s))
         /\ WriteBatch(o, a, s).first_batch = FALSE
         /\ WriteBatch(o, a, s).first_within_batch = TRUE
<1>1. PICK n \in Nat \ {0} : n = Len(s) /\ DOMAIN s = 1..n
  BY LenProperties
<1>2. PICK v : B!Steps(v, o, s, a, n) /\ B!Fold(o, s, a) = v[n]
  BY <1>1, B!FoldValues
<1>3. v[0] = o /\ \A i \in 1..n : v[i] = WriteOutput(v[i - 1], a, s[i])
  BY <1>2 DEF B!Steps, SetWriteOutput
<1> DEFINE T == {i \in 0..n : Begun(v[i], o, a, s, i)}
<1>4. 0 \in T
  BY <1>3 DEF Begun
<1>5. ASSUME NEW i \in 1..n, i - 1 \in T PROVE i \in T
  <2>1. Begun(v[i - 1], o, a, s, i - 1)
    BY <1>5
  <2>2. Begun(WriteOutput(v[i - 1], a, s[i]), o, a, s, i)
    BY <1>1, <2>1, BegunNext
  <2> QED
    BY <1>3, <2>2
<1>6. 0..n \subseteq T
  <2> HIDE DEF T
  <2> QED
    BY <1>4, <1>5, StepByStep
<1>7. Begun(v[n], o, a, s, n)
  BY <1>6
<1>8. SubSeq(s, 1, n) = s
  BY <1>1
<1> DEFINE w == v[n]
<1>9. Added(w, o, a, Lead(o) \o BatchText(s)) /\ w \in Streams
  BY <1>7, <1>8 DEF Begun, Added
<1>10. WriteBatch(o, a, s) = FinishBatch(w)
  BY <1>2, WriteBatchIs
<1> HIDE DEF w
<1>11. /\ FinishBatch(w) \in Streams
       /\ FinishBatch(w).out = w.out /\ FinishBatch(w).queue = w.queue
       /\ FinishBatch(w).first_batch = FALSE /\ FinishBatch(w).first_within_batch = TRUE
  BY <1>9 DEF FinishBatch, Streams
<1> QED
  BY <1>9, <1>10, <1>11 DEF Added

Ending(o, a) == IF EndDelimited(o, a) THEN <<Item("batch", 0)>> ELSE <<>>

(* The end: the queue is written, and the delimiter after the last batch.  *)
LEMMA FinishAdds ==
  ASSUME NEW o \in Streams, NEW a, ~IsQueued(a) => o.queue = <<>>
  PROVE  /\ FinishOutput(o, a) \in Streams
         /\ FinishOutput(o, a).out = (o.out \o o.queue) \o Ending(o, a)
         /\ FinishOutput(o, a).queue = <<>>
<1>1. PICK p \in Seq(Items), q \in Seq(Items) : p = o.out /\ q = o.queue
  BY StreamFields
<1>2. PICK e \in Seq(Items) : e = Ending(o, a)
  <2>1. <<>> \in Seq(Items) /\ <<Item("batch", 0)>> \in Seq(Items)
    BY ItemsAre
  <2> QED
    BY <2>1 DEF Ending
<1> DEFINE ended == IF EndDelimited(o, a) THEN Write(o, a, <<Item("batch", 0)>>) ELSE o
<1>3. Added(ended, o, a, e)
  <2>1. CASE EndDelimited(o, a)
    <3>1. PICK none \in Seq(Items) : none = <<>>
      BY EmptySeq
    <3>2. Added(o, o, a, none)
      BY <1>1, <3>1, ConcatEmptySeq DEF Added
    <3>3. Added(Write(o, a, e), o, a, none \o e)
      BY <3>2, WriteAdds
    <3>4. none \o e = e
      BY <3>1, ConcatEmptySeq
    <3>5. e = <<Item("batch", 0)>>
      BY <1>2, <2>1 DEF Ending
    <3> QED
      BY <2>1, <3>3, <3>4, <3>5
  <2>2. CASE ~EndDelimited(o, a)
    <3>1. e = <<>> /\ ended = o
      BY <1>2, <2>2 DEF Ending
    <3>2. p \o e = p /\ q \o e = q
      BY <3>1, ConcatEmptySeq
    <3> HIDE DEF ended
    <3> QED
      BY <1>1, <3>1, <3>2 DEF Added
  <2> QED
    BY <2>1, <2>2
<1>4. FinishOutput(o, a) =
        [FlushOutput(ended) EXCEPT !.first_within_batch = TRUE, !.first_batch = TRUE]
  BY DEF FinishOutput
<1> HIDE DEF ended
<1>5. ended \in Streams
  BY <1>3 DEF Added
<1>6. PICK f \in Seq(Items) : f = ended.out \o ended.queue
  BY <1>5, StreamFields, ConcatProperties
<1>7. FlushOutput(ended) = [ended EXCEPT !.out = f, !.queue = <<>>]
  BY <1>6 DEF FlushOutput
<1>8. /\ FinishOutput(o, a) \in Streams
      /\ FinishOutput(o, a).out = f /\ FinishOutput(o, a).queue = <<>>
  <2> DEFINE flushed == FlushOutput(ended)
  <2>1. <<>> \in Seq(Items)
    BY EmptySeq
  <2>2. flushed \in Streams /\ flushed.out = f /\ flushed.queue = <<>>
    BY <1>5, <1>7, <2>1 DEF Streams
  <2>3. FinishOutput(o, a) = [flushed EXCEPT !.first_within_batch = TRUE, !.first_batch = TRUE]
    BY <1>4
  <2> HIDE DEF flushed
  <2> QED
    BY <2>2, <2>3 DEF Streams
<1>9. f = (p \o q) \o e
  <2>1. CASE IsQueued(a)
    <3>1. ended.out = p /\ ended.queue = q \o e
      BY <1>1, <1>3, <2>1 DEF Added
    <3>2. (p \o q) \o e = p \o (q \o e)
      BY ConcatAssociative
    <3> QED
      BY <1>6, <3>1, <3>2
  <2>2. CASE ~IsQueued(a)
    <3>1. ended.out = p \o e /\ ended.queue = q /\ q = <<>>
      BY <1>1, <1>3, <2>2 DEF Added
    <3>2. p \o q = p /\ p \o e \in Seq(Items)
      BY <3>1, ConcatEmptySeq, ConcatProperties
    <3>3. (p \o e) \o q = p \o e
      BY <3>1, <3>2, ConcatEmptySeq
    <3> QED
      BY <1>6, <3>1, <3>2, <3>3
  <2> QED
    BY <2>1, <2>2
<1> QED
  BY <1>1, <1>2, <1>8, <1>9

-------------------------------------------------------------------------------
(* Types.                                                                  *)

(* The program has not begun to leave.                                     *)
Writing == phase \notin {"leaving", "exited"}

RestTyped ==
  /\ prompt_lines \in Lines /\ prompt_rows \in Nat
  /\ indicator \in {0, 1} /\ selections \in Seq(Positions)
  /\ os \in Streams /\ terminal \in {"curses", "released", "ended"} /\ endwins \in Nat
  /\ sigint_occurred \in BOOLEAN /\ ch \in Keys(args) \cup {"resize", "none"}
  /\ phase \in Phases /\ exit_code \in {ExitSuccess, ExitFailure, ExitSigint}
  /\ picks \in Seq(Int) /\ confirmed \in Seq(Seq(Nat))

TypeInv ==
  /\ CursorInv
  /\ RestTyped
  /\ Writing => os.first_within_batch
  /\ Writing /\ ~IsQueued(args) => os.queue = <<>>

LEMMA ChosenIs ==
  ASSUME CursorInv, LaidOut, size > 0, selections \in Seq(Positions)
  PROVE  Chosen \in Seq(Positions) /\ Chosen \in Seq(Nat) /\ Chosen # <<>>
<1>1. size \in Nat /\ cursor.position \in 0..size - 1
  BY DEF CursorInv, Settled, IsVisible
<1>2. PICK S : S = 0..size - 1
  OBVIOUS
<1>3. Positions = S /\ S \subseteq Nat /\ S \subseteq Int /\ cursor.position \in S
  BY <1>1, <1>2 DEF Positions
<1>4. <<cursor.position>> \in Seq(S) /\ <<cursor.position>> # <<>>
  BY <1>3
<1>5. Sorted(selections) \in Seq(S) /\ Len(Sorted(selections)) = Len(selections)
  BY <1>3, SortedType
<1>6. selections # <<>> => Len(selections) # 0
  BY <1>3
<1>7. selections # <<>> => Sorted(selections) # <<>>
  BY <1>5, <1>6
<1>8. Chosen \in Seq(S) /\ Chosen # <<>>
  BY <1>3, <1>4, <1>5, <1>7 DEF Chosen
<1>9. Chosen \in Seq(Nat)
  <2>1. PICK n \in Nat : Chosen \in [1..n -> S]
    BY <1>8
  <2>2. Chosen \in [1..n -> Nat]
    BY <1>3, <2>1
  <2> QED
    BY <2>2
<1> QED
  BY <1>3, <1>8, <1>9

LEMMA TypeInit == Init => TypeInv
<1> SUFFICES ASSUME Init PROVE TypeInv
  OBVIOUS
<1>1. CursorInv
  BY CursorInit
<1>2. <<>> \in Lines /\ <<>> \in Seq(Positions) /\ <<>> \in Seq(Int) /\ <<>> \in Seq(Seq(Nat))
      /\ <<>> \in Seq(Items)
  BY EmptySeq DEF Lines
<1>3. NewStream \in Streams /\ NewStream.queue = <<>> /\ NewStream.first_within_batch
  BY <1>2 DEF NewStream, Streams
<1> QED
  BY <1>1, <1>2, <1>3
     DEF Init, TypeInv, RestTyped, Phases, ExitSuccess, ExitFailure, ExitSigint

(* A layout leaves no less than nothing to the prompt.                     *)
LEMMA OnResizeTyped ==
  ASSUME CursorInv, RestTyped, args' = args, screen' \in Screens(args), OnResize
  PROVE  /\ prompt_lines' \in Lines /\ prompt_rows' \in Nat
         /\ phase' \in {"locked", "drawing"}
<1>1. CASE TooSmall(screen')
  BY <1>1 DEF OnResize, RestTyped
<1>2. CASE ~TooSmall(screen')
  <2>1. /\ phase' = "drawing" /\ prompt_lines' = PromptLines[<<args, screen'>>]
        /\ selection_rows' = SelectionRows(screen'.rows, prompt_lines')
        /\ prompt_rows' = screen'.rows - selection_rows'
    BY <1>2 DEF OnResize
  <2>2. args \in ArgSets
    BY DEF CursorInv
  <2>3. prompt_lines' \in Lines
    BY <2>1, <2>2, PromptLinesAre
  <2>4. PICK rows \in Nat : rows = screen'.rows
    BY <2>2, ScreensAssumption DEF ScreenType
  <2>5. args \in ArgType
    BY <2>2, ArgSetsAssumption
  <2>6. args.prompt \in Lines
    BY <2>5 DEF ArgType
  <2>7. Len(args.prompt) \in Nat
    BY <2>6, LenProperties DEF Lines
  <2>8. rows >= 1
    BY <1>2, <2>4, <2>7 DEF TooSmall
  <2>9. Len(prompt_lines') \in Nat
    BY <2>3, LenProperties DEF Lines
  <2>10. PICK taken \in Nat : taken = PromptRows(prompt_lines')
    BY <2>9 DEF PromptRows
  <2>11. selection_rows' = IF rows - taken <= 0 THEN 1 ELSE rows - taken
    BY <2>1, <2>4, <2>10 DEF SelectionRows
  <2>12. prompt_rows' \in Nat
    BY <2>1, <2>4, <2>8, <2>10, <2>11
  <2> QED
    BY <2>1, <2>3, <2>12
<1> QED
  BY <1>1, <1>2

Modes == {"curses", "released", "ended"}
ExitCodes == {ExitSuccess, ExitFailure, ExitSigint}

(* What a write can come to.                                               *)
LEMMA WroteTyped ==
  ASSUME os \in Streams, endwins \in Nat, exit_code \in ExitCodes,
         NEW after \in Streams, NEW mode \in Modes, NEW next \in Phases,
         Wrote(os, after, mode, next)
  PROVE  /\ os' \in Streams /\ terminal' \in Modes /\ endwins' \in Nat
         /\ phase' \in Phases /\ exit_code' \in ExitCodes
         /\ \/ os' = after /\ phase' = next
            \/ phase' = "exited"
<1>1. CASE /\ os' = after /\ terminal' = mode /\ phase' = next
           /\ endwins' = endwins + EndwinBefore(mode)
           /\ exit_code' = exit_code
  BY <1>1 DEF EndwinBefore
<1>2. CASE /\ MayFail
           /\ \E n \in Len(os.out)..Len(after.out) - 1 :
                os' = [os EXCEPT !.out = SubSeq(after.out, 1, n)]
           /\ terminal' = "ended" /\ phase' = "exited"
           /\ endwins' = endwins + EndwinBefore(mode) + EndwinOnFailure(mode)
           /\ exit_code' = ExitFailure
  <2>1. PICK n \in Len(os.out)..Len(after.out) - 1 :
          os' = [os EXCEPT !.out = SubSeq(after.out, 1, n)]
    BY <1>2
  <2>2. os.out \in Seq(Items) /\ after.out \in Seq(Items)
    BY StreamFields
  <2>3. Len(os.out) \in Nat /\ Len(after.out) \in Nat
    BY <2>2, LenProperties
  <2>4. PICK t \in Seq(Items) : t = SubSeq(after.out, 1, n)
    <3>1. \A i \in 1..n : after.out[i] \in Items
      BY <2>2, <2>3, ElementOfSeq
    <3>2. n \in Int /\ 1 \in Int
      BY <2>3
    <3> QED
      BY <3>1, <3>2, SubSeqProperties
  <2>5. os' \in Streams
    BY <2>1, <2>4 DEF Streams
  <2> QED
    BY <1>2, <2>5 DEF Modes, Phases, ExitCodes, EndwinBefore, EndwinOnFailure
<1> QED
  BY <1>1, <1>2 DEF Wrote

(* A batch that is written, and the end of the output after it.            *)
LEMMA WritesTyped ==
  ASSUME os \in Streams, os.first_within_batch, ~IsQueued(args) => os.queue = <<>>,
         NEW s \in Seq(Nat), s # <<>>
  PROVE  /\ WriteBatch(os, args, s) \in Streams
         /\ WriteBatch(os, args, s).first_within_batch
         /\ ~IsQueued(args) => WriteBatch(os, args, s).queue = <<>>
         /\ FinishOutput(WriteBatch(os, args, s), args) \in Streams
<1>1. PICK w : w = WriteBatch(os, args, s)
  OBVIOUS
<1>2. /\ Added(w, os, args, Lead(os) \o BatchText(s))
      /\ w.first_within_batch = TRUE
  BY <1>1, BatchWritten
<1>3. w \in Streams /\ (~IsQueued(args) => w.queue = <<>>)
  BY <1>2 DEF Added
<1>4. FinishOutput(w, args) \in Streams
  BY <1>3, FinishAdds
<1> QED
  BY <1>1, <1>2, <1>3, <1>4

LEMMA TypeNext == TypeInv /\ [Next]_vars => TypeInv'
<1> SUFFICES ASSUME TypeInv, [Next]_vars PROVE TypeInv'
  OBVIOUS
<1> USE DEF Handles, output, history, layout
<1>1. CursorInv /\ CursorInv' /\ RestTyped
  BY CursorNext DEF TypeInv
<1>2. /\ prompt_lines \in Lines /\ prompt_rows \in Nat
      /\ indicator \in {0, 1} /\ selections \in Seq(Positions)
      /\ os \in Streams /\ terminal \in Modes /\ endwins \in Nat
      /\ sigint_occurred \in BOOLEAN /\ ch \in Keys(args) \cup {"resize", "none"}
      /\ phase \in Phases /\ exit_code \in ExitCodes
      /\ picks \in Seq(Int) /\ confirmed \in Seq(Seq(Nat))
  BY <1>1 DEF RestTyped, Modes, ExitCodes
<1>3. size' = size => (Positions)' = Positions
  BY DEF Positions
<1>4. /\ Writing => os.first_within_batch
      /\ Writing /\ ~IsQueued(args) => os.queue = <<>>
  BY DEF TypeInv
<1>5. CASE Start \/ Unlock \/ Resize
  <2>1. /\ args' = args /\ size' = size /\ screen' \in Screens(args) /\ OnResize /\ Writing
        /\ UNCHANGED <<indicator, selections, os, terminal, endwins, sigint_occurred, ch,
                       exit_code, picks, confirmed>>
    BY <1>1, <1>5 DEF Start, Unlock, Resize, CursorInv, Writing
  <2>2. /\ prompt_lines' \in Lines /\ prompt_rows' \in Nat /\ phase' \in Phases
    BY <1>1, <2>1, OnResizeTyped DEF Phases
  <2> QED
    BY <1>1, <1>2, <1>3, <1>4, <2>1, <2>2 DEF TypeInv, RestTyped, Modes, ExitCodes
<1>6. CASE Draw \/ Press \/ ResizeScreen \/ Timeout \/ Interrupt
  <2>1. /\ UNCHANGED <<args, size, prompt_lines, prompt_rows, indicator, selections, os,
                       endwins, exit_code, picks, confirmed>>
        /\ terminal' \in Modes /\ sigint_occurred' \in BOOLEAN
        /\ ch' \in Keys(args) \cup {"resize", "none"} /\ phase' \in Phases
        /\ Writing' => Writing
    BY <1>2, <1>6 DEF Draw, Press, ResizeScreen, Timeout, Interrupt, Modes, Phases, Writing
  <2> QED
    BY <1>1, <1>2, <1>3, <1>4, <2>1 DEF TypeInv, RestTyped, Modes, ExitCodes
<1>7. CASE Clear \/ Move
  <2>1. /\ UNCHANGED <<args, size, prompt_lines, prompt_rows, os, terminal, sigint_occurred, ch,
                       endwins, exit_code, confirmed>>
        /\ indicator' \in {0, 1} /\ phase' \in Phases /\ Writing
        /\ selections' = selections \/ selections' = <<>>
        /\ picks' = picks \/ picks' = <<>>
    BY <1>2, <1>7 DEF Clear, Move, Phases, Writing
  <2>2. selections' \in Seq(Positions) /\ picks' \in Seq(Int)
    BY <1>2, <2>1, EmptySeq
  <2> QED
    BY <1>1, <1>2, <1>3, <1>4, <2>1, <2>2 DEF TypeInv, RestTyped, Modes, ExitCodes
<1>8. CASE Toggle
  <2>1. /\ UNCHANGED <<args, size, prompt_lines, prompt_rows, indicator, os, terminal,
                       sigint_occurred, ch, endwins, exit_code, confirmed>>
        /\ phase' \in Phases /\ Writing /\ LaidOut
        /\ selections' = Toggled(selections, cursor.position)
        /\ picks' = Append(picks, cursor.position)
    BY <1>8 DEF Toggle, Phases, Writing, LaidOut
  <2>2. cursor.position \in Int /\ cursor.position \in Positions
    BY <1>1, <2>1 DEF CursorInv, Settled, IsVisible, Cursors, Positions
  <2>3. selections' \in Seq(Positions) /\ picks' \in Seq(Int)
    BY <1>2, <2>1, <2>2, ToggledType, AppendProperties
  <2> QED
    BY <1>1, <1>2, <1>3, <1>4, <2>1, <2>3 DEF TypeInv, RestTyped, Modes, ExitCodes
<1>9. CASE ConfirmNothing \/ Leave
  <2>1. /\ UNCHANGED <<args, size, prompt_lines, prompt_rows, indicator, selections, os,
                       sigint_occurred, ch, picks, confirmed>>
        /\ terminal' \in Modes /\ endwins' \in Nat
        /\ phase' \in Phases /\ exit_code' \in ExitCodes /\ ~Writing'
    BY <1>2, <1>9 DEF ConfirmNothing, Leave, Modes, Phases, ExitCodes, Writing
  <2> QED
    BY <1>1, <1>2, <1>3, <2>1 DEF TypeInv, RestTyped, Modes, ExitCodes
<1>10. CASE Quit
  <2>1. /\ UNCHANGED <<args, size, prompt_lines, prompt_rows, indicator, selections,
                       sigint_occurred, ch, picks, confirmed>>
        /\ Writing /\ Wrote(os, FinishOutput(os, args), "ended", "leaving")
    BY <1>10 DEF Quit, Writing
  <2>2. PICK after \in Streams : after = FinishOutput(os, args)
    BY <1>2, <1>4, <2>1, FinishAdds
  <2>3. PICK mode \in Modes : mode = "ended"
    BY DEF Modes
  <2>4. PICK next \in Phases : next = "leaving"
    BY DEF Phases
  <2>5. Wrote(os, after, mode, next)
    BY <2>1, <2>2, <2>3, <2>4
  <2>6. /\ os' \in Streams /\ terminal' \in Modes /\ endwins' \in Nat
        /\ phase' \in Phases /\ exit_code' \in ExitCodes
        /\ phase' \in {"leaving", "exited"}
    BY <1>2, <2>4, <2>5, WroteTyped
  <2> QED
    BY <1>1, <1>2, <1>3, <2>1, <2>6 DEF TypeInv, RestTyped, Modes, ExitCodes, Writing
<1>11. CASE Confirm
  <2>1. /\ UNCHANGED <<args, size, prompt_lines, prompt_rows, sigint_occurred, ch>>
        /\ Writing /\ LaidOut /\ size > 0
        /\ indicator' = IF selections = <<>> THEN 1 - indicator ELSE indicator
        /\ IF args.tenacious
           THEN Wrote(os, WriteBatch(os, args, Chosen), ModeToWrite, "drawing")
           ELSE Wrote(os, FinishOutput(WriteBatch(os, args, Chosen), args), ModeToWrite,
                      "leaving")
        /\ selections' = KeptSelections
        /\ confirmed' = Append(confirmed, Chosen)
        /\ picks' = <<>>
    BY <1>11 DEF Confirm, Writing, LaidOut
  <2>2. Chosen \in Seq(Positions) /\ Chosen \in Seq(Nat) /\ Chosen # <<>>
    BY <1>1, <1>2, <2>1, ChosenIs
  <2>3. /\ WriteBatch(os, args, Chosen) \in Streams
        /\ WriteBatch(os, args, Chosen).first_within_batch
        /\ ~IsQueued(args) => WriteBatch(os, args, Chosen).queue = <<>>
        /\ FinishOutput(WriteBatch(os, args, Chosen), args) \in Streams
    BY <1>2, <1>4, <2>1, <2>2, WritesTyped
  <2>4. PICK after \in Streams, next \in Phases :
          /\ Wrote(os, after, ModeToWrite, next)
          /\ \/ next = "leaving"
             \/ after = WriteBatch(os, args, Chosen)
    BY <2>1, <2>3 DEF Phases
  <2>5. PICK mode \in Modes : mode = ModeToWrite
    BY <1>2 DEF ModeToWrite, Modes
  <2>6. Wrote(os, after, mode, next)
    BY <2>4, <2>5
  <2>7. /\ os' \in Streams /\ terminal' \in Modes /\ endwins' \in Nat
        /\ phase' \in Phases /\ exit_code' \in ExitCodes
        /\ \/ os' = after /\ phase' = next
           \/ phase' = "exited"
    BY <1>2, <2>6, WroteTyped
  <2>8. Writing' => os' = WriteBatch(os, args, Chosen)
    BY <2>4, <2>7 DEF Writing
  <2>9. selections' \in Seq(Positions) /\ picks' \in Seq(Int) /\ confirmed' \in Seq(Seq(Nat))
    BY <1>2, <2>1, <2>2, EmptySeq, AppendProperties DEF KeptSelections
  <2>10. indicator' \in {0, 1}
    BY <1>2, <2>1
  <2>11. IsQueued(args)' <=> IsQueued(args)
    BY <2>1
  <2> QED
    BY <1>1, <1>2, <1>3, <2>1, <2>3, <2>7, <2>8, <2>9, <2>10, <2>11
       DEF TypeInv, RestTyped, Modes, ExitCodes
<1>12. CASE UNCHANGED vars
  BY <1>1, <1>2, <1>3, <1>4, <1>12 DEF vars, TypeInv, RestTyped, Modes, ExitCodes, Writing
<1> QED
  BY <1>5, <1>6, <1>7, <1>8, <1>9, <1>10, <1>11, <1>12 DEF Next, Step, Handle, Terminated

LEMMA TypeInvariance == Spec => []TypeInv
  BY TypeInit, TypeNext, PTL DEF Spec

(* Every variable keeps its type, for all options, sizes, screens and      *)
(* keys: so no layout gives the prompt a negative height, and what is      *)
(* sorted and written is what was selected.                                *)
THEOREM TypeCorrect == Spec => []TypeOK
<1>1. TypeInv => TypeOK
  <2> SUFFICES ASSUME TypeInv PROVE TypeOK
    OBVIOUS
  <2>1. CursorInv /\ RestTyped
    BY DEF TypeInv
  <2>2. args \in ArgType /\ screen \in ScreenType
    BY <2>1, ArgSetsAssumption, ScreensAssumption DEF CursorInv
  <2>3. Positions \subseteq Int /\ Nat \subseteq Int
    BY <2>1 DEF Positions, CursorInv
  <2>4. selections \in Seq(Int)
    BY <2>1, <2>3, SeqMonotonic DEF RestTyped
  <2>5. confirmed \in Seq(Seq(Int))
    <3>1. Seq(Nat) \subseteq Seq(Int)
      BY SeqMonotonic
    <3> QED
      BY <2>1, <3>1, SeqMonotonic DEF RestTyped
  <2> QED
    BY <2>1, <2>2, <2>4, <2>5 DEF TypeOK, CursorInv, RestTyped
<1> QED
  BY <1>1, TypeInvariance, PTL

-------------------------------------------------------------------------------
(* The output.                                                             *)

LEMMA PrefixIs ==
  ASSUME NEW S, NEW s \in Seq(S), NEW t \in Seq(S), Len(s) <= Len(t),
         \A i \in 1..Len(s) : s[i] = t[i]
  PROVE  IsPrefix(s, t)
<1>1. PICK n \in Nat : n = Len(s) /\ n \in 0..Len(t)
  BY LenProperties
<1>2. IsSequence(s) /\ IsSequence(t)
  BY DEF IsSequence
<1>3. n = IF 1 <= n THEN n - 1 + 1 ELSE 0
  BY <1>1
<1> DEFINE u == SubSeq(t, 1, n)
           v == SubSeq(s, 1, n)
<1>4. IsSequence(u) /\ Len(u) = n /\ \A i \in 1..n : u[i] = t[i]
  <2>1. 1 \in Nat \ {0} /\ n \in 0..Len(t)
    BY <1>1
  <2>2. /\ IsSequence(u) /\ Len(u) = IF 1 <= n THEN n - 1 + 1 ELSE 0
        /\ \A i \in 1..Len(u) : u[i] = t[1 + i - 1]
    BY <1>2, <2>1, PartSequence
  <2> HIDE DEF u
  <2> QED
    BY <1>3, <2>2
<1>5. IsSequence(v) /\ Len(v) = n /\ \A i \in 1..n : v[i] = s[i]
  <2>1. 1 \in Nat \ {0} /\ n \in 0..Len(s)
    BY <1>1
  <2>2. /\ IsSequence(v) /\ Len(v) = IF 1 <= n THEN n - 1 + 1 ELSE 0
        /\ \A i \in 1..Len(v) : v[i] = s[1 + i - 1]
    BY <1>2, <2>1, PartSequence
  <2> HIDE DEF v
  <2> QED
    BY <1>3, <2>2
<1>6. u = v
  <2> HIDE DEF u, v
  <2>1. \A i \in 1..Len(u) : u[i] = v[i]
    BY <1>1, <1>4, <1>5
  <2> QED
    BY <1>4, <1>5, <2>1, SameSequence
<1> QED
  BY <1>1, <1>6 DEF IsPrefix

(* A part at the beginning of s is one of s and what follows.              *)
LEMMA PrefixOfConcat ==
  ASSUME NEW S, NEW s \in Seq(S), NEW t \in Seq(S), NEW n \in 0..Len(s)
  PROVE  /\ SubSeq(s, 1, n) \in Seq(S)
         /\ IsPrefix(SubSeq(s, 1, n), s \o t) /\ IsPrefix(s, s \o t)
<1>1. Len(s) \in Nat /\ Len(t) \in Nat /\ \A i \in 1..Len(s) : s[i] \in S
  BY LenProperties, ElementOfSeq
<1>2. PICK c \in Seq(S) :
        /\ c = s \o t /\ Len(c) = Len(s) + Len(t)
        /\ \A i \in 1..Len(s) + Len(t) : c[i] = IF i <= Len(s) THEN s[i] ELSE t[i - Len(s)]
  <2> DEFINE c == s \o t
  <2>1. /\ c \in Seq(S) /\ Len(c) = Len(s) + Len(t)
        /\ \A i \in 1..Len(s) + Len(t) : c[i] = IF i <= Len(s) THEN s[i] ELSE t[i - Len(s)]
    BY ConcatProperties
  <2>2. c = s \o t
    OBVIOUS
  <2> HIDE DEF c
  <2> QED
    BY <2>1, <2>2
<1>3. Len(s) <= Len(c) /\ \A i \in 1..Len(s) : s[i] = c[i]
  BY <1>1, <1>2
<1>4. IsPrefix(s, c)
  BY <1>3, PrefixIs
<1>5. PICK u : u = SubSeq(s, 1, n)
  OBVIOUS
<1>6. u \in Seq(S) /\ Len(u) = n /\ \A i \in 1..n : u[i] = s[i]
  <2>1. \A i \in 1..n : s[i] \in S
    BY <1>1
  <2>2. n \in Int /\ 1 \in Int
    BY <1>1
  <2>3. /\ u \in Seq(S) /\ Len(u) = IF 1 <= n THEN n - 1 + 1 ELSE 0
        /\ \A i \in 1..n - 1 + 1 : u[i] = s[1 + i - 1]
    BY <1>5, <2>1, <2>2, SubSeqProperties
  <2> QED
    BY <1>1, <2>3
<1>7. Len(u) <= Len(c) /\ \A i \in 1..Len(u) : u[i] = c[i]
  BY <1>1, <1>2, <1>3, <1>6
<1>8. IsPrefix(u, c)
  BY <1>6, <1>7, PrefixIs
<1> QED
  BY <1>2, <1>4, <1>5, <1>6, <1>8

(* What is pending is written or queued, and o knows whether it is none.   *)
Pends(o, a, bs) ==
  /\ o \in Streams /\ (o.first_batch <=> bs = <<>>)
  /\ IF IsQueued(a) THEN o.out = <<>> /\ o.queue = Text(bs)
                    ELSE o.out = Text(bs) /\ o.queue = <<>>

LEMMA PendsMore ==
  ASSUME NEW o, NEW a, NEW bs \in Seq(Seq(Nat)), Pends(o, a, bs), o.first_within_batch,
         NEW b \in Seq(Nat), b # <<>>
  PROVE  Pends(WriteBatch(o, a, b), a, Append(bs, b))
<1>1. o \in Streams
  BY DEF Pends
<1>2. PICK w : w = WriteBatch(o, a, b)
  OBVIOUS
<1>3. Added(w, o, a, Lead(o) \o BatchText(b)) /\ w.first_batch = FALSE
  BY <1>1, <1>2, BatchWritten
<1>4. PICK p \in Seq(Items), q \in Seq(Items) : p = Text(bs) /\ q = BatchText(b)
  BY TextAppend
<1>5. PICK l \in Seq(Items) : l = Lead(o)
  <2>1. <<>> \in Seq(Items) /\ <<Item("batch", 0)>> \in Seq(Items)
    BY ItemsAre
  <2> QED
    BY <2>1 DEF Lead
<1>6. Text(Append(bs, b)) = p \o (l \o q)
  <2>1. Text(Append(bs, b)) = p \o IF bs = <<>> THEN q ELSE <<Item("batch", 0)>> \o q
    BY <1>4, TextAppend
  <2>2. CASE bs = <<>>
    <3>1. l = <<>>
      BY <1>5, <2>2 DEF Pends, Lead
    <3>2. l \o q = q
      BY <3>1, ConcatEmptySeq
    <3> QED
      BY <2>1, <2>2, <3>2
  <2>3. CASE bs # <<>>
    BY <1>5, <2>1, <2>3 DEF Pends, Lead
  <2> QED
    BY <2>2, <2>3
<1>7. PICK x \in Seq(Items) : x = l \o q
  BY ConcatProperties
<1>8. Append(bs, b) # <<>>
  <2>1. IsSequence(bs)
    BY DEF IsSequence
  <2>2. /\ IsSequence(Append(bs, b)) /\ Len(bs) \in Nat
        /\ DOMAIN Append(bs, b) = 1..Len(bs) + 1
    BY <2>1, AppendedSequence
  <2>3. Len(Append(bs, b)) # 0
    BY <2>2, SequenceFacts
  <2> QED
    BY <2>2, <2>3, SequenceFacts
<1>9. Added(w, o, a, x)
  BY <1>3, <1>4, <1>5, <1>7
<1>10. CASE IsQueued(a)
  BY <1>2, <1>3, <1>4, <1>6, <1>7, <1>8, <1>9, <1>10 DEF Pends, Added
<1>11. CASE ~IsQueued(a)
  BY <1>2, <1>3, <1>4, <1>6, <1>7, <1>8, <1>9, <1>11 DEF Pends, Added
<1> QED
  BY <1>10, <1>11

LEMMA PendsFinished ==
  ASSUME NEW o, NEW a, NEW bs \in Seq(Seq(Nat)), Pends(o, a, bs)
  PROVE  /\ FinishOutput(o, a) \in Streams
         /\ FinishOutput(o, a).out = FullText(bs, a)
         /\ FinishOutput(o, a).queue = <<>>
<1>1. o \in Streams /\ (~IsQueued(a) => o.queue = <<>>)
  BY DEF Pends
<1>2. /\ FinishOutput(o, a) \in Streams
      /\ FinishOutput(o, a).out = (o.out \o o.queue) \o Ending(o, a)
      /\ FinishOutput(o, a).queue = <<>>
  BY <1>1, FinishAdds
<1>3. PICK p \in Seq(Items) : p = Text(bs)
  BY TextAppend, EmptySeq
<1>4. o.out \o o.queue = p
  BY <1>3, ConcatEmptySeq DEF Pends
<1>5. Ending(o, a) = IF ~a.delimit_not_at_end /\ (bs # <<>> \/ a.delimit_on_empty)
                     THEN <<Item("batch", 0)>> ELSE <<>>
  BY DEF Pends, Ending, EndDelimited
<1> QED
  BY <1>2, <1>3, <1>4, <1>5 DEF FullText

(* The tui has been left, and not because a write failed.                  *)
Ended == phase = "leaving" \/ (phase = "exited" /\ exit_code # ExitFailure)

OutputInv ==
  /\ TypeInv
  /\ size = 0 => confirmed = <<>>
  /\ Writing => Pends(os, args, confirmed)
  /\ Ended /\ (size > 0 \/ ~args.delimit_on_empty) =>
       os.out = FullText(confirmed, args) /\ os.queue = <<>>
  /\ ~Writing => IsPrefix(os.out, FullText(confirmed, args))

LEMMA FullTextIs ==
  ASSUME NEW bs \in Seq(Seq(Nat)), NEW a
  PROVE  \E t \in Seq(Items) : FullText(bs, a) = Text(bs) \o t /\ FullText(bs, a) \in Seq(Items)
<1> DEFINE t == IF ~a.delimit_not_at_end /\ (bs # <<>> \/ a.delimit_on_empty)
                THEN <<Item("batch", 0)>> ELSE <<>>
<1>1. <<>> \in Seq(Items) /\ <<Item("batch", 0)>> \in Seq(Items)
  BY ItemsAre
<1>2. t \in Seq(Items)
  BY <1>1
<1>3. FullText(bs, a) = Text(bs) \o t
  BY DEF FullText
<1>4. Text(bs) \in Seq(Items)
  BY TextAppend, EmptySeq
<1> HIDE DEF t
<1>5. Text(bs) \o t \in Seq(Items)
  BY <1>2, <1>4, ConcatProperties
<1> QED
  BY <1>2, <1>3, <1>5

(* A write that fails leaves the beginning of what was to be there.        *)
LEMMA WroteText ==
  ASSUME NEW o \in Streams, NEW after \in Streams, NEW mode, NEW next, Wrote(o, after, mode, next),
         NEW bs \in Seq(Seq(Nat)), NEW a,
         after.out = Text(bs) \/ after.out = FullText(bs, a)
  PROVE  \/ os' = after /\ phase' = next /\ exit_code' = exit_code
         \/ /\ phase' = "exited" /\ exit_code' = ExitFailure
            /\ IsPrefix(os'.out, FullText(bs, a))
<1>1. CASE os' = after /\ phase' = next /\ exit_code' = exit_code
  BY <1>1
<1>2. CASE /\ \E n \in Len(o.out)..Len(after.out) - 1 :
                os' = [o EXCEPT !.out = SubSeq(after.out, 1, n)]
           /\ phase' = "exited" /\ exit_code' = ExitFailure
  <2>1. PICK n \in Len(o.out)..Len(after.out) - 1 :
          os' = [o EXCEPT !.out = SubSeq(after.out, 1, n)]
    BY <1>2
  <2>2. PICK x \in Seq(Items) : x = after.out
    BY StreamFields
  <2>3. n \in 0..Len(x)
    <3>1. o.out \in Seq(Items)
      BY StreamFields
    <3>2. Len(o.out) \in Nat /\ Len(x) \in Nat
      BY <3>1, LenProperties
    <3> QED
      BY <2>2, <3>2
  <2>4. os'.out = SubSeq(x, 1, n)
    BY <2>1, <2>2 DEF Streams
  <2>5. PICK t \in Seq(Items) : FullText(bs, a) = Text(bs) \o t
    BY FullTextIs
  <2>6. CASE x = Text(bs)
    BY <2>3, <2>4, <2>5, <2>6, <1>2, PrefixOfConcat
  <2>7. CASE x = FullText(bs, a)
    <3>1. PICK e \in Seq(Items) : e = <<>>
      BY EmptySeq
    <3>2. x \o e = x
      BY <3>1, ConcatEmptySeq
    <3>3. IsPrefix(SubSeq(x, 1, n), x \o e)
      BY <2>3, PrefixOfConcat
    <3> QED
      BY <1>2, <2>4, <2>7, <3>2, <3>3
  <2> QED
    BY <2>2, <2>6, <2>7
<1> QED
  BY <1>1, <1>2 DEF Wrote

LEMMA WholeIsPrefix ==
  ASSUME NEW bs \in Seq(Seq(Nat)), NEW a
  PROVE  /\ IsPrefix(FullText(bs, a), FullText(bs, a)) /\ IsPrefix(Text(bs), FullText(bs, a))
         /\ IsPrefix(<<>>, FullText(bs, a))
<1>1. PICK t \in Seq(Items), e \in Seq(Items), f \in Seq(Items), x \in Seq(Items) :
        f = FullText(bs, a) /\ x = Text(bs) /\ f = x \o t /\ e = <<>>
  BY FullTextIs, TextAppend, EmptySeq, ZenonT(30)
<1>2. f \o e = f /\ e \o f = f
  BY <1>1, ConcatEmptySeq
<1>3. \A s \in Seq(Items) : 0 \in 0..Len(s)
  BY LenProperties
<1>4. IsPrefix(f, f \o e) /\ IsPrefix(e, e \o f) /\ IsPrefix(x, x \o t)
  BY <1>3, PrefixOfConcat
<1> QED
  BY <1>1, <1>2, <1>4

LEMMA OutputInit == Init => OutputInv
<1> SUFFICES ASSUME Init PROVE OutputInv
  OBVIOUS
<1>1. TypeInv
  BY TypeInit
<1>2. confirmed = <<>> /\ os = NewStream /\ phase = "starting"
  BY DEF Init
<1>3. os \in Streams /\ os.out = <<>> /\ os.queue = <<>> /\ os.first_batch
  BY <1>1, <1>2 DEF TypeInv, RestTyped, NewStream
<1> QED
  BY <1>1, <1>2, <1>3, NoText DEF OutputInv, Pends, Writing, Ended

LEMMA OutputNext == OutputInv /\ [Next]_vars => OutputInv'
<1> SUFFICES ASSUME OutputInv, [Next]_vars PROVE OutputInv'
  OBVIOUS
<1> USE DEF Handles, output, history, layout
<1>1. TypeInv /\ TypeInv' /\ RestTyped
  BY TypeNext DEF OutputInv, TypeInv
<1>2. /\ size = 0 => confirmed = <<>>
      /\ Writing => Pends(os, args, confirmed)
      /\ Ended /\ (size > 0 \/ ~args.delimit_on_empty) =>
           os.out = FullText(confirmed, args) /\ os.queue = <<>>
      /\ ~Writing => IsPrefix(os.out, FullText(confirmed, args))
  BY DEF OutputInv
<1>3. confirmed \in Seq(Seq(Nat)) /\ os \in Streams /\ size \in Nat
  BY <1>1 DEF RestTyped, TypeInv, CursorInv
<1>4. ASSUME UNCHANGED <<args, size, os, confirmed>>, Writing' => Writing, Ended' => Ended,
             ~Writing' => ~Writing
      PROVE  OutputInv'
  <2>1. Pends(os, args, confirmed)' <=> Pends(os, args, confirmed)
    BY <1>4
  <2>2. FullText(confirmed, args)' = FullText(confirmed, args)
    BY <1>4
  <2> QED
    BY <1>1, <1>2, <1>4, <2>1, <2>2 DEF OutputInv
<1>5. CASE Start \/ Unlock \/ Resize
  <2>1. /\ UNCHANGED <<args, size, os, confirmed>> /\ Writing /\ phase' \in {"locked", "drawing"}
    BY <1>5 DEF Start, Unlock, Resize, OnResize, Writing
  <2> QED
    BY <1>4, <2>1 DEF Writing, Ended
<1>6. CASE Draw \/ Press \/ ResizeScreen \/ Timeout \/ Clear \/ Toggle \/ Move
  <2>1. UNCHANGED <<args, size, os, confirmed>> /\ Writing /\ Writing'
    BY <1>6 DEF Draw, Press, ResizeScreen, Timeout, Clear, Toggle, Move, Writing
  <2> QED
    BY <1>4, <2>1 DEF Writing, Ended
<1>7. CASE Interrupt \/ UNCHANGED vars
  <2>1. /\ UNCHANGED <<args, size, os, confirmed, exit_code>>
        /\ phase' = phase \/ (Writing /\ Writing')
    BY <1>7 DEF Interrupt, vars, Writing
  <2> QED
    BY <1>4, <2>1 DEF Writing, Ended
<1>8. CASE Leave
  <2>1. UNCHANGED <<args, size, os, confirmed>> /\ phase = "leaving" /\ phase' = "exited"
    BY <1>8 DEF Leave
  <2> QED
    BY <1>4, <2>1 DEF Writing, Ended
<1>9. CASE ConfirmNothing
  <2>1. /\ UNCHANGED <<args, size, os, confirmed>> /\ Writing /\ phase' = "leaving" /\ size = 0
    BY <1>9 DEF ConfirmNothing, Writing
  <2>2. confirmed = <<>> /\ Pends(os, args, confirmed) /\ Text(confirmed) = <<>>
    BY <1>2, <2>1, NoText
  <2>3. os.out = <<>> /\ os.queue = <<>>
    BY <2>2 DEF Pends
  <2>4. IsPrefix(os.out, FullText(confirmed, args))
    BY <1>3, <2>3, WholeIsPrefix
  <2>5. ~args.delimit_on_empty => FullText(confirmed, args) = <<>>
    <3>1. <<>> \in Seq(Items)
      BY EmptySeq
    <3>2. <<>> \o <<>> = <<>>
      BY <3>1, ConcatEmptySeq
    <3> QED
      BY <2>2, <3>2 DEF FullText
  <2>6. FullText(confirmed, args)' = FullText(confirmed, args)
    BY <2>1
  <2> QED
    BY <1>1, <2>1, <2>2, <2>3, <2>4, <2>5, <2>6 DEF OutputInv, Writing, Ended
<1>10. CASE Quit
  <2>1. /\ UNCHANGED <<args, size, confirmed>> /\ Writing
        /\ Wrote(os, FinishOutput(os, args), "ended", "leaving")
    BY <1>10 DEF Quit, Writing
  <2>2. PICK after \in Streams :
          /\ after = FinishOutput(os, args)
          /\ after.out = FullText(confirmed, args) /\ after.queue = <<>>
    BY <1>2, <1>3, <2>1, PendsFinished
  <2>3. \/ os' = after /\ phase' = "leaving"
        \/ /\ phase' = "exited" /\ exit_code' = ExitFailure
           /\ IsPrefix(os'.out, FullText(confirmed, args))
    BY <1>3, <2>1, <2>2, WroteText
  <2>4. FullText(confirmed, args)' = FullText(confirmed, args)
    BY <2>1
  <2>5. IsPrefix(FullText(confirmed, args), FullText(confirmed, args))
    BY <1>3, WholeIsPrefix
  <2> QED
    BY <1>1, <1>2, <2>1, <2>2, <2>3, <2>4, <2>5 DEF OutputInv, Writing, Ended
<1>11. CASE Confirm
  <2> DEFINE batches == Append(confirmed, Chosen)
             written == WriteBatch(os, args, Chosen)
  <2>1. /\ UNCHANGED <<args, size>> /\ Writing /\ LaidOut /\ size > 0
        /\ IF args.tenacious THEN Wrote(os, written, ModeToWrite, "drawing")
           ELSE Wrote(os, FinishOutput(written, args), ModeToWrite, "leaving")
        /\ confirmed' = batches
    BY <1>11 DEF Confirm, Writing, LaidOut
  <2>2. Chosen \in Seq(Nat) /\ Chosen # <<>>
    BY <1>1, <2>1, ChosenIs DEF TypeInv, RestTyped
  <2>3. Pends(written, args, batches) /\ batches \in Seq(Seq(Nat))
    <3>1. os.first_within_batch
      BY <1>1, <2>1 DEF TypeInv
    <3> QED
      BY <1>2, <1>3, <2>1, <2>2, <3>1, PendsMore, AppendProperties
  <2> HIDE DEF batches, written
  <2>4. FullText(confirmed, args)' = FullText(batches, args)
    BY <2>1
  <2>5. /\ IsPrefix(FullText(batches, args), FullText(batches, args))
        /\ IsPrefix(Text(batches), FullText(batches, args))
        /\ IsPrefix(<<>>, FullText(batches, args))
    BY <2>3, WholeIsPrefix
  <2>6. CASE args.tenacious
    <3>1. Wrote(os, written, ModeToWrite, "drawing") /\ written \in Streams
      BY <2>1, <2>3, <2>6 DEF Pends
    <3>2. \/ os' = written /\ phase' = "drawing"
          \/ /\ phase' = "exited" /\ exit_code' = ExitFailure
             /\ IsPrefix(os'.out, FullText(batches, args))
      <4>1. CASE IsQueued(args)
        <5>1. written.out = os.out
          BY <1>2, <2>1, <2>3, <4>1 DEF Pends
        <5>2. Len(os.out) \in Nat
          BY <1>3, StreamFields, LenProperties
        <5> QED
          BY <3>1, <5>1, <5>2 DEF Wrote
      <4>2. CASE ~IsQueued(args)
        <5>1. written.out = Text(batches)
          BY <2>3, <4>2 DEF Pends
        <5> QED
          BY <1>3, <2>3, <3>1, <5>1, WroteText
      <4> QED
        BY <4>1, <4>2
    <3>3. Pends(os, args, confirmed)' <=> Pends(os', args, batches)
      BY <2>1
    <3> QED
      BY <1>1, <2>1, <2>3, <2>4, <3>2, <3>3 DEF OutputInv, Writing, Ended
  <2>7. CASE ~args.tenacious
    <3>1. PICK after \in Streams :
            /\ after = FinishOutput(written, args)
            /\ after.out = FullText(batches, args) /\ after.queue = <<>>
      BY <2>3, PendsFinished
    <3>2. Wrote(os, after, ModeToWrite, "leaving")
      BY <2>1, <2>7, <3>1
    <3>3. \/ os' = after /\ phase' = "leaving"
          \/ /\ phase' = "exited" /\ exit_code' = ExitFailure
             /\ IsPrefix(os'.out, FullText(batches, args))
      BY <1>3, <2>3, <3>1, <3>2, WroteText
    <3> QED
      BY <1>1, <2>1, <2>4, <2>5, <3>1, <3>3 DEF OutputInv, Writing, Ended
  <2> QED
    BY <2>6, <2>7
<1> QED
  BY <1>5, <1>6, <1>7, <1>8, <1>9, <1>10, <1>11 DEF Next, Step, Handle, Terminated

LEMMA OutputInvariance == Spec => []OutputInv
  BY OutputInit, OutputNext, PTL DEF Spec

(* What is written and what is queued are the text of the batches          *)
(* confirmed, however many and however they were selected, and a write     *)
(* that fails leaves the beginning of it.                                  *)
THEOREM OutputKeepsUp == Spec => []OutputSoFar
<1>1. OutputInv => OutputSoFar
  <2> SUFFICES ASSUME OutputInv PROVE OutputSoFar
    OBVIOUS
  <2>1. /\ Writing => Pends(os, args, confirmed)
        /\ ~Writing => IsPrefix(os.out, FullText(confirmed, args))
        /\ confirmed \in Seq(Seq(Nat)) /\ phase \in Phases
    BY DEF OutputInv, TypeInv, RestTyped
  <2>2. PICK t \in Seq(Items) : t = Text(confirmed)
    BY <2>1, TextAppend, EmptySeq
  <2>3. t \o <<>> = t /\ <<>> \o t = t
    BY ConcatEmptySeq
  <2>4. CASE Writing
    <3>1. os.out \o os.queue = t /\ (os.out = <<>> \/ os.out = t)
      BY <2>1, <2>2, <2>3, <2>4 DEF Pends
    <3>2. IsPrefix(os.out, FullText(confirmed, args))
      BY <2>1, <2>2, <3>1, WholeIsPrefix
    <3> QED
      BY <2>2, <3>1, <3>2 DEF OutputSoFar
  <2>5. CASE ~Writing
    BY <2>1, <2>5 DEF OutputSoFar, Writing
  <2> QED
    BY <2>4, <2>5
<1> QED
  BY <1>1, OutputInvariance, PTL

(* However the tui is left, all batches are in the output by then, and the *)
(* delimiter after the last as the options ask for it.                     *)
THEOREM OutputCompletes == Spec => []OutputComplete
<1>1. OutputInv => OutputComplete
  BY DEF OutputInv, OutputComplete, Ended
<1> QED
  BY <1>1, OutputInvariance, PTL

(* While ncurses captures the terminal nothing is written: a batch that is *)
(* confirmed meanwhile is queued, every other write comes after            *)
(* reset_prog_mode or endwin.                                              *)
THEOREM WritesAfterCurses == Spec => WritesOutsideCurses
<1>1. OutputInv /\ [Next]_vars => [os'.out # os.out => terminal' # "curses"]_vars
  <2> SUFFICES ASSUME OutputInv, [Next]_vars, os'.out # os.out PROVE terminal' # "curses"
    OBVIOUS
  <2> USE DEF output, history
  <2>1. Quit \/ Confirm
    BY DEF Next, Step, Handle, Start, Draw, Timeout, Resize, Clear, Toggle, ConfirmNothing,
           Move, Leave, Unlock, Press, ResizeScreen, Interrupt, Terminated, vars
  <2>2. CASE Quit
    BY <2>2 DEF Quit, Wrote
  <2>3. CASE Confirm
    <3> DEFINE written == WriteBatch(os, args, Chosen)
    <3>1. /\ LaidOut /\ Writing /\ size > 0
          /\ IF args.tenacious THEN Wrote(os, written, ModeToWrite, "drawing")
             ELSE Wrote(os, FinishOutput(written, args), ModeToWrite, "leaving")
      BY <2>3 DEF Confirm, Handles, LaidOut, Writing
    <3>2. CASE ~args.tenacious
      <4>1. ModeToWrite = "ended"
        BY <3>2 DEF ModeToWrite
      <4> QED
        BY <3>1, <3>2, <4>1 DEF Wrote
    <3>3. CASE args.tenacious /\ ~IsQueued(args)
      <4>1. ModeToWrite = "released"
        BY <3>3 DEF ModeToWrite
      <4> HIDE DEF written
      <4> QED
        BY <3>1, <3>3, <4>1 DEF Wrote
    <3>4. CASE args.tenacious /\ IsQueued(args)
      <4>1. CursorInv /\ RestTyped /\ os.first_within_batch
        BY <3>1 DEF OutputInv, TypeInv
      <4>2. Chosen \in Seq(Nat) /\ Chosen # <<>> /\ os \in Streams
        BY <3>1, <4>1, ChosenIs DEF RestTyped
      <4>3. written.out = os.out
        BY <3>4, <4>1, <4>2, BatchWritten DEF Added
      <4> HIDE DEF written
      <4> QED
        BY <3>1, <3>4, <4>3 DEF Wrote
    <3> QED
      BY <3>2, <3>3, <3>4
  <2> QED
    BY <2>1, <2>2, <2>3
<1> QED
  BY <1>1, OutputInvariance, PTL DEF Spec, WritesOutsideCurses

-------------------------------------------------------------------------------
(* What was picked.                                                        *)

PicksOf(ps, n) == {i \in DOMAIN ps : ps[i] = n}

PickedOdd(ps, n) == Cardinality(PicksOf(ps, n)) % 2 = 1

LEMMA Parity == \A k \in Nat : (k + 1) % 2 = 1 <=> k % 2 # 1
  OBVIOUS

LEMMA PicksFinite ==
  ASSUME NEW ps \in Seq(Int), NEW n
  PROVE  /\ PicksOf(ps, n) \subseteq 1..Len(ps) /\ Len(ps) \in Nat
         /\ IsFiniteSet(PicksOf(ps, n)) /\ Cardinality(PicksOf(ps, n)) \in Nat
<1>1. DOMAIN ps = 1..Len(ps) /\ Len(ps) \in Nat
  BY LenProperties
<1>2. PicksOf(ps, n) \in SUBSET (1..Len(ps))
  BY <1>1 DEF PicksOf
<1>3. IsFiniteSet(1..Len(ps))
  BY <1>1, FS_Interval
<1>4. IsFiniteSet(PicksOf(ps, n))
  BY <1>2, <1>3, FS_Subset
<1> QED
  BY <1>1, <1>2, <1>4, FS_CardinalityType

(* A token that is selected has a last pick.                               *)
LEMMA LastPickIs ==
  ASSUME NEW ps \in Seq(Int), NEW n, PickedOdd(ps, n)
  PROVE  Max(PicksOf(ps, n)) \in PicksOf(ps, n) /\ Max(PicksOf(ps, n)) \in 1..Len(ps)
<1> DEFINE P == PicksOf(ps, n)
<1>1. P \subseteq 1..Len(ps) /\ Len(ps) \in Nat
  BY PicksFinite
<1>2. P # {}
  <2>1. SUFFICES ASSUME P = {} PROVE FALSE
    OBVIOUS
  <2>2. Cardinality(P) = 0
    BY <2>1, FS_EmptySet
  <2> QED
    BY <2>2 DEF PickedOdd
<1> HIDE DEF P
<1>3. PICK m \in Int : m = Len(ps)
  BY <1>1
<1>4. P \subseteq Int /\ \A x \in P : x <= m
  BY <1>1, <1>3
<1>5. Max(P) \in P
  BY ONLY <1>2, <1>4, GreatestElement, m \in Int
<1> QED
  BY <1>1, <1>5 DEF P

(* One more pick.                                                          *)
LEMMA PickedMore ==
  ASSUME NEW ps \in Seq(Int), NEW c \in Int, NEW more, more = Append(ps, c)
  PROVE  /\ more \in Seq(Int)
         /\ \A n : n # c => PicksOf(more, n) = PicksOf(ps, n)
         /\ PickedOdd(more, c) <=> ~PickedOdd(ps, c)
         /\ Max(PicksOf(more, c)) = Len(ps) + 1
<1>1. PICK m \in Nat : m = Len(ps) /\ DOMAIN ps = 1..m
  BY LenProperties
<1>2. /\ more \in Seq(Int) /\ DOMAIN more = 1..m + 1
      /\ more[m + 1] = c /\ \A i \in 1..m : more[i] = ps[i]
  BY <1>1
<1>3. \A i \in 1..m + 1 : i \in 1..m \/ i = m + 1
  BY <1>1
<1>4. \A i \in 1..m : i \in 1..m + 1
  BY <1>1
<1>5. ASSUME NEW n, n # c PROVE PicksOf(more, n) = PicksOf(ps, n)
  BY <1>1, <1>2, <1>3, <1>4, <1>5 DEF PicksOf
<1> DEFINE P == PicksOf(ps, c)
           Q == PicksOf(more, c)
<1>6. P \subseteq 1..m /\ IsFiniteSet(P) /\ Cardinality(P) \in Nat
  BY <1>1, PicksFinite
<1>7. Q = P \cup {m + 1}
  BY <1>1, <1>2, <1>3, <1>4 DEF PicksOf
<1> HIDE DEF P, Q
<1>8. m + 1 \notin P
  BY <1>1, <1>6
<1>9. Cardinality(Q) = Cardinality(P) + 1
  BY <1>6, <1>7, <1>8, FS_AddElement
<1>10. PickedOdd(more, c) <=> ~PickedOdd(ps, c)
  BY <1>6, <1>9, Parity DEF PickedOdd, P, Q
<1>11. Max(Q) = m + 1
  <2>1. PICK l \in Int : l = m + 1
    BY <1>1
  <2>2. Q \subseteq Int /\ l \in Q /\ \A x \in Q : x <= l
    <3>1. \A x \in P : x \in Int /\ x <= l
      BY <1>1, <1>6, <2>1
    <3>2. Q = P \cup {l}
      BY <1>7, <2>1
    <3> QED
      BY <3>1, <3>2
  <2>3. Q # {}
    BY <2>2
  <2>4. Max(Q) \in Q /\ \A x \in Q : x <= Max(Q)
    BY ONLY <2>2, <2>3, GreatestElement, l \in Int
  <2>5. PICK x \in Int : x = Max(Q)
    BY <2>2, <2>4
  <2>6. x <= l /\ l <= x
    BY <2>2, <2>4, <2>5
  <2> QED
    BY <2>1, <2>5, <2>6
<1> QED
  BY <1>1, <1>2, <1>5, <1>10, <1>11 DEF Q

(* The selections are what was picked an odd number of times, in the order *)
(* of the last pick.                                                       *)
Distinct(ss) == \A i, j \in 1..Len(ss) : i # j => ss[i] # ss[j]

HasOdd(ss, ps) == \A n \in Int : Contains(ss, n) <=> PickedOdd(ps, n)

ByLastPick(ss, ps) ==
  \A i, j \in 1..Len(ss) : i < j => Max(PicksOf(ps, ss[i])) < Max(PicksOf(ps, ss[j]))

Tracks(ss, ps) == Distinct(ss) /\ HasOdd(ss, ps) /\ ByLastPick(ss, ps)

LEMMA TracksAppended ==
  ASSUME NEW ss \in Seq(Int), NEW ps \in Seq(Int), Tracks(ss, ps), NEW c \in Int,
         ~Contains(ss, c)
  PROVE  Tracks(Append(ss, c), Append(ps, c))
<1>1. PICK k \in Nat : k = Len(ss) /\ \A i \in 1..k : ss[i] \in Int
  BY LenProperties, ElementOfSeq
<1>2. PICK ts \in Seq(Int) : /\ ts = Append(ss, c) /\ Len(ts) = k + 1
                             /\ ts[k + 1] = c /\ \A i \in 1..k : ts[i] = ss[i]
  <2> DEFINE ts == Append(ss, c)
  <2>1. /\ ts \in Seq(Int) /\ Len(ts) = Len(ss) + 1 /\ ts[Len(ss) + 1] = c
        /\ \A i \in 1..Len(ss) : ts[i] = ss[i]
    BY AppendProperties
  <2> QED
    BY <1>1, <2>1
<1>3. PICK more \in Seq(Int) :
        /\ more = Append(ps, c)
        /\ \A n : n # c => PicksOf(more, n) = PicksOf(ps, n)
        /\ PickedOdd(more, c) <=> ~PickedOdd(ps, c)
        /\ Max(PicksOf(more, c)) = Len(ps) + 1
  BY PickedMore
<1>4. \A i \in 1..k + 1 : i \in 1..k \/ i = k + 1
  BY <1>1
<1>5. \A i \in 1..k : ss[i] # c
  BY <1>1 DEF Contains
<1>6. Distinct(ts)
  BY <1>1, <1>2, <1>4, <1>5 DEF Tracks, Distinct
<1>7. \A n \in Int : Contains(ts, n) <=> Contains(ss, n) \/ n = c
  <2>1. \A i \in 1..k : i \in 1..k + 1
    BY <1>1
  <2>2. k + 1 \in 1..k + 1
    BY <1>1
  <2> QED
    BY <1>1, <1>2, <1>4, <2>1, <2>2 DEF Contains
<1>8. HasOdd(ts, more)
  <2> SUFFICES ASSUME NEW n \in Int PROVE Contains(ts, n) <=> PickedOdd(more, n)
    BY DEF HasOdd
  <2>1. CASE n = c
    BY <1>3, <1>7, <2>1 DEF Tracks, HasOdd
  <2>2. CASE n # c
    BY <1>3, <1>7, <2>2 DEF Tracks, HasOdd, PickedOdd
  <2> QED
    BY <2>1, <2>2
<1>9. ByLastPick(ts, more)
  <2> SUFFICES ASSUME NEW i \in 1..k + 1, NEW j \in 1..k + 1, i < j
               PROVE  Max(PicksOf(more, ts[i])) < Max(PicksOf(more, ts[j]))
    BY <1>2 DEF ByLastPick
  <2>1. i \in 1..k
    BY <1>1
  <2>2. ts[i] = ss[i] /\ ss[i] # c /\ PicksOf(more, ts[i]) = PicksOf(ps, ss[i])
    BY <1>2, <1>3, <1>5, <2>1
  <2>3. CASE j \in 1..k
    <3>1. ts[j] = ss[j] /\ PicksOf(more, ts[j]) = PicksOf(ps, ss[j])
      BY <1>2, <1>3, <1>5, <2>3
    <3> QED
      BY <1>1, <2>1, <2>2, <2>3, <3>1 DEF Tracks, ByLastPick
  <2>4. CASE j = k + 1
    <3>1. Max(PicksOf(more, ts[j])) = Len(ps) + 1
      BY <1>2, <1>3, <2>4
    <3>2. PickedOdd(ps, ss[i])
      BY <1>1, <2>1 DEF Tracks, HasOdd, Contains
    <3>3. Max(PicksOf(ps, ss[i])) \in 1..Len(ps) /\ Len(ps) \in Nat
      BY <3>2, LastPickIs, LenProperties
    <3> QED
      BY <2>2, <3>1, <3>3
  <2> QED
    BY <1>4, <2>3, <2>4
<1> QED
  BY <1>2, <1>3, <1>6, <1>8, <1>9 DEF Tracks

LEMMA TracksRemoved ==
  ASSUME NEW ss \in Seq(Int), NEW ps \in Seq(Int), Tracks(ss, ps), NEW c \in Int,
         Contains(ss, c)
  PROVE  Tracks(RemoveFirst(ss, c), Append(ps, c))
<1>1. PICK k \in Nat : k = Len(ss) /\ \A i \in 1..k : ss[i] \in Int
  BY LenProperties, ElementOfSeq
<1>2. PICK m \in 1..k : /\ ss[m] = c
                        /\ RemoveFirst(ss, c) = SubSeq(ss, 1, m - 1) \o SubSeq(ss, m + 1, k)
  BY <1>1, FirstRemoved
<1>3. PICK ts : /\ ts = RemoveFirst(ss, c) /\ Len(ts) = k - 1
                /\ \A i \in 1..k - 1 : ts[i] = IF i < m THEN ss[i] ELSE ss[i + 1]
  <2>1. PICK a \in Seq(Int) : /\ a = SubSeq(ss, 1, m - 1) /\ Len(a) = m - 1
                              /\ \A i \in 1..m - 1 : a[i] = ss[i]
    <3>1. \A i \in 1..m - 1 : ss[i] \in Int
      BY <1>1
    <3>2. m - 1 \in Int /\ 1 \in Int
      BY <1>1
    <3> DEFINE a == SubSeq(ss, 1, m - 1)
    <3>3. /\ a \in Seq(Int) /\ Len(a) = IF 1 <= m - 1 THEN (m - 1) - 1 + 1 ELSE 0
          /\ \A i \in 1..(m - 1) - 1 + 1 : a[i] = ss[1 + i - 1]
      BY <3>1, <3>2, SubSeqProperties
    <3>4. a = SubSeq(ss, 1, m - 1)
      OBVIOUS
    <3> HIDE DEF a
    <3>5. Len(a) = m - 1 /\ \A i \in 1..m - 1 : a[i] = ss[i]
      BY <1>1, <3>3
    <3> QED
      BY <3>3, <3>4, <3>5
  <2>2. PICK b \in Seq(Int) : /\ b = SubSeq(ss, m + 1, k) /\ Len(b) = k - m
                              /\ \A i \in 1..k - m : b[i] = ss[m + i]
    <3>1. \A i \in m + 1..k : ss[i] \in Int
      BY <1>1
    <3>2. m + 1 \in Int /\ k \in Int
      BY <1>1
    <3> DEFINE b == SubSeq(ss, m + 1, k)
    <3>3. /\ b \in Seq(Int) /\ Len(b) = IF m + 1 <= k THEN k - (m + 1) + 1 ELSE 0
          /\ \A i \in 1..k - (m + 1) + 1 : b[i] = ss[(m + 1) + i - 1]
      BY <3>1, <3>2, SubSeqProperties
    <3>4. b = SubSeq(ss, m + 1, k)
      OBVIOUS
    <3> HIDE DEF b
    <3>5. Len(b) = k - m
      BY <1>1, <3>3
    <3>6. ASSUME NEW i \in 1..k - m PROVE b[i] = ss[m + i]
      <4>1. i \in 1..k - (m + 1) + 1 /\ (m + 1) + i - 1 = m + i
        BY <1>1
      <4> QED
        BY <3>3, <4>1
    <3> QED
      BY <3>3, <3>4, <3>5, <3>6
  <2> DEFINE ts == a \o b
  <2>3. /\ ts \in Seq(Int) /\ Len(ts) = Len(a) + Len(b)
        /\ \A i \in 1..Len(a) + Len(b) : ts[i] = IF i <= Len(a) THEN a[i] ELSE b[i - Len(a)]
    BY ConcatProperties
  <2>4. ts = RemoveFirst(ss, c)
    BY <1>2, <2>1, <2>2
  <2> HIDE DEF ts
  <2>5. Len(ts) = k - 1
    BY <1>1, <2>1, <2>2, <2>3
  <2>6. ASSUME NEW i \in 1..k - 1 PROVE ts[i] = IF i < m THEN ss[i] ELSE ss[i + 1]
    <3>1. i \in 1..Len(a) + Len(b)
      <4>1. Len(a) + Len(b) = k - 1
        BY <2>3, <2>5
      <4> QED
        BY <4>1
    <3>2. CASE i < m
      <4>1. i \in 1..m - 1 /\ i <= Len(a)
        BY <1>1, <2>1, <3>2
      <4> QED
        BY <2>1, <2>3, <3>1, <3>2, <4>1
    <3>3. CASE ~(i < m)
      <4>1. ~(i <= Len(a)) /\ i - Len(a) \in 1..k - m /\ m + (i - Len(a)) = i + 1
        BY <1>1, <2>1, <3>3
      <4>2. ts[i] = b[i - Len(a)]
        BY <2>3, <3>1, <4>1
      <4> QED
        BY <2>2, <3>3, <4>1, <4>2
    <3> QED
      BY <3>2, <3>3
  <2> QED
    BY <2>4, <2>5, <2>6
<1>4. PICK more \in Seq(Int) :
        /\ more = Append(ps, c)
        /\ \A n : n # c => PicksOf(more, n) = PicksOf(ps, n)
        /\ PickedOdd(more, c) <=> ~PickedOdd(ps, c)
  BY PickedMore
(* Where the i-th of what is left was.                                     *)
<1> DEFINE from(i) == IF i < m THEN i ELSE i + 1
<1>5. \A i \in 1..k - 1 : from(i) \in 1..k /\ from(i) # m /\ ts[i] = ss[from(i)]
  BY <1>1, <1>3
<1>6. \A i, j \in 1..k - 1 : i < j => from(i) < from(j)
  BY <1>1
<1>7. \A i \in 1..k : i # m => \E j \in 1..k - 1 : from(j) = i
  <2> SUFFICES ASSUME NEW i \in 1..k, i # m PROVE \E j \in 1..k - 1 : from(j) = i
    OBVIOUS
  <2>1. CASE i < m
    <3>1. i \in 1..k - 1 /\ from(i) = i
      BY <1>1, <2>1
    <3> QED
      BY <3>1
  <2>2. CASE i > m
    <3>1. i - 1 \in 1..k - 1 /\ from(i - 1) = i
      BY <1>1, <2>2
    <3> QED
      BY <3>1
  <2> QED
    BY <1>1, <2>1, <2>2
<1> HIDE DEF from
<1>8. \A i \in 1..k : i # m => ss[i] # c
  BY <1>1, <1>2 DEF Tracks, Distinct
<1>9. Distinct(ts)
  <2> SUFFICES ASSUME NEW i \in 1..k - 1, NEW j \in 1..k - 1, i # j PROVE ts[i] # ts[j]
    BY <1>3 DEF Distinct
  <2>1. from(i) # from(j)
    <3>1. from(i) \in 1..k /\ from(j) \in 1..k
      BY <1>5
    <3>2. i < j \/ j < i
      BY <1>1
    <3> QED
      BY <1>1, <1>6, <3>1, <3>2, SMTT(20)
  <2> QED
    BY <1>1, <1>5, <2>1 DEF Tracks, Distinct
<1>10. HasOdd(ts, more)
  <2> SUFFICES ASSUME NEW n \in Int PROVE Contains(ts, n) <=> PickedOdd(more, n)
    BY DEF HasOdd
  <2>1. CASE n = c
    <3>1. ~Contains(ts, n)
      BY <1>3, <1>5, <1>8, <2>1 DEF Contains
    <3>2. ~PickedOdd(more, n)
      BY <1>4, <2>1 DEF Tracks, HasOdd
    <3> QED
      BY <3>1, <3>2
  <2>2. CASE n # c
    <3>1. PickedOdd(more, n) <=> Contains(ss, n)
      BY <1>4, <2>2 DEF Tracks, HasOdd, PickedOdd
    <3>2. Contains(ts, n) => Contains(ss, n)
      BY <1>1, <1>3, <1>5 DEF Contains
    <3>3. Contains(ss, n) => Contains(ts, n)
      <4> SUFFICES ASSUME Contains(ss, n) PROVE Contains(ts, n)
        OBVIOUS
      <4>1. PICK i \in 1..k : ss[i] = n
        BY <1>1 DEF Contains
      <4>2. i # m
        BY <1>2, <2>2, <4>1
      <4>3. PICK j \in 1..k - 1 : from(j) = i
        BY <1>7, <4>2
      <4>4. ts[j] = n
        BY <1>5, <4>1, <4>3
      <4> QED
        BY <1>3, <4>4 DEF Contains
    <3> QED
      BY <3>1, <3>2, <3>3
  <2> QED
    BY <2>1, <2>2
<1>11. ByLastPick(ts, more)
  <2> SUFFICES ASSUME NEW i \in 1..k - 1, NEW j \in 1..k - 1, i < j
               PROVE  Max(PicksOf(more, ts[i])) < Max(PicksOf(more, ts[j]))
    BY <1>3 DEF ByLastPick
  <2>1. from(i) \in 1..k /\ from(j) \in 1..k /\ from(i) < from(j)
    BY <1>5, <1>6
  <2>2. Max(PicksOf(ps, ss[from(i)])) < Max(PicksOf(ps, ss[from(j)]))
    BY <1>1, <2>1 DEF Tracks, ByLastPick
  <2>3. PicksOf(more, ts[i]) = PicksOf(ps, ss[from(i)])
        /\ PicksOf(more, ts[j]) = PicksOf(ps, ss[from(j)])
    BY <1>4, <1>5, <1>8
  <2> QED
    BY <2>2, <2>3
<1> QED
  BY <1>3, <1>4, <1>9, <1>10, <1>11 DEF Tracks

LEMMA TracksToggled ==
  ASSUME NEW ss \in Seq(Int), NEW ps \in Seq(Int), Tracks(ss, ps), NEW c \in Int
  PROVE  Tracks(Toggled(ss, c), Append(ps, c))
<1>1. CASE Contains(ss, c)
  BY <1>1, TracksRemoved DEF Toggled
<1>2. CASE ~Contains(ss, c)
  BY <1>2, TracksAppended DEF Toggled
<1> QED
  BY <1>1, <1>2

LEMMA TracksNothing == Tracks(<<>>, <<>>)
<1>1. PICK e : e = <<>> /\ Len(e) = 0 /\ DOMAIN e = {}
  OBVIOUS
<1>2. \A n : PicksOf(e, n) = {}
  BY <1>1 DEF PicksOf
<1>3. \A n : ~PickedOdd(e, n)
  <2>1. Cardinality({}) = 0 /\ 0 % 2 # 1
    BY FS_EmptySet
  <2> QED
    BY <1>2, <2>1 DEF PickedOdd
<1>4. \A i \in 1..Len(e) : FALSE
  BY <1>1
<1>5. Distinct(e) /\ ByLastPick(e, e)
  BY <1>4 DEF Distinct, ByLastPick
<1>6. HasOdd(e, e)
  BY <1>3, <1>4 DEF HasOdd, Contains
<1> QED
  BY <1>1, <1>5, <1>6 DEF Tracks

(* What of a sequence was picked an odd number of times.                   *)
OddOf(ps) == {n \in ToSet(ps) : PickedOdd(ps, n)}

LEMMA SelectedAre ==
  ASSUME NEW ss \in Seq(Int), NEW ps \in Seq(Int), Tracks(ss, ps)
  PROVE  /\ ss \in Bijection(1..Len(ss), OddOf(ps)) /\ OddOf(ps) \subseteq Int
         /\ IsFiniteSet(OddOf(ps)) /\ Cardinality(OddOf(ps)) = Len(ss)
<1>1. PICK k \in Nat : k = Len(ss) /\ ss \in [1..k -> Int]
  BY LenProperties
<1>2. OddOf(ps) \subseteq Int
  <2>1. \A i \in DOMAIN ps : ps[i] \in Int
    BY ElementOfSeq, LenProperties
  <2> QED
    BY <2>1 DEF OddOf, ToSet
<1>3. \A n \in Int : n \in OddOf(ps) <=> PickedOdd(ps, n)
  <2> SUFFICES ASSUME NEW n \in Int, PickedOdd(ps, n) PROVE n \in ToSet(ps)
    BY DEF OddOf
  <2>1. Max(PicksOf(ps, n)) \in PicksOf(ps, n)
    BY LastPickIs
  <2> QED
    BY <2>1 DEF PicksOf, ToSet
<1>4. \A n \in Int : n \in OddOf(ps) <=> \E i \in 1..k : ss[i] = n
  BY <1>1, <1>3 DEF Tracks, HasOdd, Contains
<1>5. \A i, j \in 1..k : i # j => ss[i] # ss[j]
  BY <1>1 DEF Tracks, Distinct
<1>6. ss \in [1..k -> OddOf(ps)]
  BY <1>1, <1>4
<1>7. ss \in Bijection(1..k, OddOf(ps))
  BY <1>2, <1>4, <1>5, <1>6 DEF Bijection, Injection, Surjection, IsInjective
<1>8. IsFiniteSet(1..k) /\ Cardinality(1..k) = k
  BY ONLY FS_Interval, k \in Nat
<1>9. ExistsBijection(1..k, OddOf(ps))
  BY <1>7 DEF ExistsBijection
<1>10. IsFiniteSet(OddOf(ps)) /\ Cardinality(OddOf(ps)) = k
  BY <1>8, <1>9, FS_Bijection
<1> QED
  BY <1>1, <1>2, <1>7, <1>10

(* There is only one way to list a set in order.                           *)
LEMMA OnlyOrder ==
  ASSUME NEW S, IsFiniteSet(S), NEW m \in Nat, Cardinality(S) = m, NEW R,
         \A k \in S : <<k, k>> \notin R,
         \A k, l \in S : k # l => ~(<<k, l>> \in R /\ <<l, k>> \in R),
         NEW f \in [1..m -> S], \A i, j \in 1..m : i < j => <<f[i], f[j]>> \in R,
         NEW g \in [1..m -> S], \A i, j \in 1..m : i < j => <<g[i], g[j]>> \in R
  PROVE  f = g
<1>1. IsFiniteSet(1..m) /\ Cardinality(1..m) = m
  BY FS_Interval
<1>2. ASSUME NEW h \in [1..m -> S], \A i, j \in 1..m : i < j => <<h[i], h[j]>> \in R
      PROVE  HeadOf(h, m, R, S)
  <2>1. \A i, j \in 1..m : i # j => h[i] # h[j]
    <3> SUFFICES ASSUME NEW i \in 1..m, NEW j \in 1..m, i # j PROVE h[i] # h[j]
      OBVIOUS
    <3>1. i < j \/ j < i
      OBVIOUS
    <3> QED
      BY <1>2, <3>1
  <2>2. h \in Injection(1..m, S)
    BY <1>2, <2>1 DEF Injection, IsInjective
  <2>3. h \in Surjection(1..m, S)
    BY <1>1, <2>2, FS_Injection
  <2>4. \A k \in S : \E i \in 1..m : h[i] = k
    BY <2>3 DEF Surjection
  <2> QED
    BY <1>2, <2>1, <2>4 DEF HeadOf
<1>3. HeadOf(f, m, R, S) /\ HeadOf(g, m, R, S)
  BY <1>2
<1> QED
  BY <1>3, HeadUnique

(* The orders of a batch.                                                  *)
Ascending == {pair \in Int \X Int : pair[1] < pair[2]}

PickOrder(ps) == {pair \in Int \X Int : Max(PicksOf(ps, pair[1])) < Max(PicksOf(ps, pair[2]))}

LEMMA SortedAscends ==
  ASSUME NEW ss \in Seq(Int), Distinct(ss), NEW S, ss \in Bijection(1..Len(ss), S)
  PROVE  /\ Sorted(ss) \in [1..Len(ss) -> S]
         /\ \A i, j \in 1..Len(ss) : i < j => Sorted(ss)[i] < Sorted(ss)[j]
<1>1. PICK k \in Nat : k = Len(ss) /\ ss \in [1..k -> Int]
  BY LenProperties
<1>2. PICK p \in Bijection(1..k, 1..k) :
        Sorts(p, ss, k) /\ Sorted(ss) = [i \in 1..k |-> ss[p[i]]]
  BY <1>1, SortedIs
<1>3. p \in [1..k -> 1..k] /\ \A i, j \in 1..k : i # j => p[i] # p[j]
  BY DEF Bijection, Injection, IsInjective
<1>4. ss \in [1..k -> S]
  BY <1>1 DEF Bijection, Injection
<1>5. ASSUME NEW i \in 1..k, NEW j \in 1..k, i < j PROVE ss[p[i]] < ss[p[j]]
  <2>1. ss[p[i]] <= ss[p[j]]
    BY <1>2, <1>5 DEF Sorts
  <2>2. p[i] # p[j] /\ p[i] \in 1..k /\ p[j] \in 1..k
    BY <1>3, <1>5
  <2>3. ss[p[i]] # ss[p[j]] /\ ss[p[i]] \in Int /\ ss[p[j]] \in Int
    BY <1>1, <2>2 DEF Distinct
  <2> QED
    BY <2>1, <2>3
<1> QED
  BY <1>1, <1>2, <1>3, <1>4, <1>5

LEMMA ChosenIsAsked ==
  ASSUME selections \in Seq(Int), picks \in Seq(Int), Tracks(selections, picks)
  PROVE  Chosen = Asked
<1>1. Selected = OddOf(picks)
  BY DEF Selected, OddOf, PickedOdd, PicksOf
<1>2. PICK S : S = Selected
  OBVIOUS
<1>3. PICK k \in Nat : k = Len(selections) /\ DOMAIN selections = 1..k
  BY LenProperties
<1>4. /\ selections \in Bijection(1..k, S) /\ S \subseteq Int
      /\ IsFiniteSet(S) /\ Cardinality(S) = k
  BY <1>1, <1>2, <1>3, SelectedAre
<1>5. CASE selections = <<>>
  <2>1. k = 0
    BY <1>3, <1>5
  <2>2. S = {}
    BY <1>4, <2>1, FS_EmptySet
  <2> QED
    BY <1>2, <1>5, <2>2 DEF Chosen, Asked
<1>6. CASE selections # <<>>
  <2>1. S # {}
    <3>1. k # 0
      BY <1>3, <1>6, EmptySeq
    <3> QED
      BY <1>4, <3>1, FS_EmptySet
  <2>2. CASE args.selection_order
    <3>1. \A m, n : InPickOrder(m, n) <=> Max(PicksOf(picks, m)) < Max(PicksOf(picks, n))
      BY DEF InPickOrder, LastPick, PicksOf
    <3>2. selections \in [1..k -> S]
      BY <1>4 DEF Bijection, Injection
    <3>3. \A i, j \in 1..k : i < j => InPickOrder(selections[i], selections[j])
      BY <1>3, <3>1 DEF Tracks, ByLastPick
    <3> DEFINE g == Ordered(S, InPickOrder)
    <3>4. g \in [1..k -> S] /\ \A i, j \in 1..k : i < j => InPickOrder(g[i], g[j])
      BY <1>4, <3>2, <3>3 DEF Ordered
    <3> HIDE DEF g
    <3>5. \A m, n \in S : <<m, n>> \in PickOrder(picks) <=> InPickOrder(m, n)
      BY <1>4, <3>1 DEF PickOrder
    <3>6. \A n \in S : Max(PicksOf(picks, n)) \in Int
      <4> SUFFICES ASSUME NEW n \in S PROVE Max(PicksOf(picks, n)) \in Int
        OBVIOUS
      <4>1. PickedOdd(picks, n)
        BY <1>1, <1>2 DEF OddOf
      <4> QED
        BY <4>1, LastPickIs, PicksFinite
    <3>7. \A n \in S : <<n, n>> \notin PickOrder(picks)
      BY <3>1, <3>5, <3>6
    <3>8. \A m, n \in S : m # n => ~(<<m, n>> \in PickOrder(picks) /\ <<n, m>> \in PickOrder(picks))
      BY <3>1, <3>5, <3>6
    <3>9. \A i, j \in 1..k : i < j => <<selections[i], selections[j]>> \in PickOrder(picks)
      BY <3>2, <3>3, <3>5
    <3>10. \A i, j \in 1..k : i < j => <<g[i], g[j]>> \in PickOrder(picks)
      BY <3>4, <3>5
    <3>11. selections = g
      <4>1. PICK R, f : R = PickOrder(picks) /\ f = selections
        OBVIOUS
      <4>2. f \in [1..k -> S] /\ g \in [1..k -> S]
        BY <3>2, <3>4, <4>1
      <4>3. /\ \A n \in S : <<n, n>> \notin R
            /\ \A m, n \in S : m # n => ~(<<m, n>> \in R /\ <<n, m>> \in R)
        BY <3>7, <3>8, <4>1
      <4>4. /\ \A i, j \in 1..k : i < j => <<f[i], f[j]>> \in R
            /\ \A i, j \in 1..k : i < j => <<g[i], g[j]>> \in R
        BY <3>9, <3>10, <4>1
      <4>5. IsFiniteSet(S) /\ Cardinality(S) = k
        BY <1>4
      <4>6. f = g
        BY ONLY <4>2, <4>3, <4>4, <4>5, OnlyOrder, k \in Nat
      <4> QED
        BY <4>1, <4>6
    <3> QED
      BY <1>2, <1>6, <2>1, <2>2, <3>11 DEF Chosen, Asked, g
  <2>3. CASE ~args.selection_order
    <3>1. PICK f : f = Sorted(selections)
      OBVIOUS
    <3>2. f \in [1..k -> S] /\ \A i, j \in 1..k : i < j => f[i] < f[j]
      BY <1>3, <1>4, <3>1, SortedAscends DEF Tracks
    <3> DEFINE g == Ordered(S, <)
    <3>3. g \in [1..k -> S] /\ \A i, j \in 1..k : i < j => g[i] < g[j]
      BY <1>4, <3>2 DEF Ordered
    <3> HIDE DEF g
    <3>4. \A m, n \in S : <<m, n>> \in Ascending <=> m < n
      BY <1>4 DEF Ascending
    <3>5. \A n \in S : <<n, n>> \notin Ascending
      BY <1>4, <3>4
    <3>6. \A m, n \in S : m # n => ~(<<m, n>> \in Ascending /\ <<n, m>> \in Ascending)
      BY <1>4, <3>4
    <3>7. \A i, j \in 1..k : i < j => <<f[i], f[j]>> \in Ascending
      BY <3>2, <3>4
    <3>8. \A i, j \in 1..k : i < j => <<g[i], g[j]>> \in Ascending
      BY <3>3, <3>4
    <3>9. f = g
      BY <1>4, <3>2, <3>3, <3>5, <3>6, <3>7, <3>8, OnlyOrder, ZenonT(60)
    <3> QED
      BY <1>2, <1>6, <2>1, <2>3, <3>1, <3>9 DEF Chosen, Asked, g
  <2> QED
    BY <2>2, <2>3
<1> QED
  BY <1>5, <1>6

PickInv == TypeInv /\ (Writing => Tracks(selections, picks))

LEMMA PickNext == PickInv /\ [Next]_vars => PickInv'
<1> SUFFICES ASSUME PickInv, [Next]_vars PROVE PickInv'
  OBVIOUS
<1>1. TypeInv'
  BY TypeNext DEF PickInv
<1>2. selections \in Seq(Int) /\ picks \in Seq(Int)
  <2>1. Positions \subseteq Int
    BY DEF PickInv, TypeInv, CursorInv, Positions
  <2> QED
    BY <2>1, SeqMonotonic DEF PickInv, TypeInv, RestTyped
<1>3. cursor.position \in Int
  BY DEF PickInv, TypeInv, CursorInv, Cursors
<1>4. SUFFICES ASSUME Writing' PROVE Tracks(selections, picks)'
  BY <1>1 DEF PickInv
<1> USE DEF history
<1>5. CASE UNCHANGED <<selections, picks>> /\ Writing
  BY <1>5 DEF PickInv
<1>6. CASE Clear
  BY <1>6, TracksNothing DEF Clear
<1>7. CASE Toggle
  <2>1. /\ Writing /\ picks' = Append(picks, cursor.position)
        /\ selections' = Toggled(selections, cursor.position)
    BY <1>7 DEF Toggle, Handles, Writing
  <2>2. Tracks(selections, picks)
    BY <2>1 DEF PickInv
  <2>3. Tracks(Toggled(selections, cursor.position), Append(picks, cursor.position))
    BY <1>2, <1>3, <2>2, TracksToggled
  <2> QED
    BY <2>1, <2>3
<1>8. CASE Confirm
  <2>1. args.tenacious
    BY <1>4, <1>8 DEF Confirm, Wrote, Writing
  <2>2. selections' = <<>> /\ picks' = <<>>
    BY <1>8, <2>1 DEF Confirm, KeptSelections
  <2> QED
    BY <2>2, TracksNothing
<1> QED
  BY <1>4, <1>5, <1>6, <1>7, <1>8
     DEF Next, Step, Handle, Start, Draw, Timeout, Quit, Resize, ConfirmNothing, Move, Leave,
         Unlock, Press, ResizeScreen, Interrupt, Terminated, vars, Writing, Handles, Wrote

LEMMA PickInvariance == Spec => []PickInv
<1>1. Init => PickInv
  BY TypeInit, TracksNothing DEF Init, PickInv
<1> QED
  BY <1>1, PickNext, PTL DEF Spec

(* Whatever was toggled, cleared and confirmed before, a batch holds what  *)
(* was picked an odd number of times, in the order of the last pick or of  *)
(* the tokens: erasing a token from the selection and appending it again   *)
(* moves it to the end, and sorting repeats and loses nothing.             *)
THEOREM ConfirmsPicks == Spec => ConfirmsWhatWasPicked
<1>1. PickInv /\ [Next]_vars => [confirmed' # confirmed => confirmed' = Append(confirmed, Asked)]_vars
  <2> SUFFICES ASSUME PickInv, [Next]_vars, confirmed' # confirmed
               PROVE  confirmed' = Append(confirmed, Asked)
    OBVIOUS
  <2>1. Confirm
    BY DEF Next, Step, Handle, Start, Draw, Timeout, Quit, Resize, Clear, Toggle, ConfirmNothing,
           Move, Leave, Unlock, Press, ResizeScreen, Interrupt, Terminated, vars, history
  <2>2. Writing /\ confirmed' = Append(confirmed, Chosen)
    BY <2>1 DEF Confirm, Handles, Writing
  <2>3. selections \in Seq(Int) /\ picks \in Seq(Int) /\ Tracks(selections, picks)
    <3>1. Positions \subseteq Int
      BY DEF PickInv, TypeInv, CursorInv, Positions
    <3> QED
      BY <2>2, <3>1, SeqMonotonic DEF PickInv, TypeInv, RestTyped
  <2> QED
    BY <2>2, <2>3, ChosenIsAsked
<1> QED
  BY <1>1, PickInvariance, PTL DEF Spec, ConfirmsWhatWasPicked
===============================================================================
