------------------------------ MODULE NumericProofs ----------------------------
(***************************************************************************)
(* Whatever the tokens are, numbers or not, the comparison never leaves    *)
(* the two texts it reads.  If they have the documented format, it orders  *)
(* them as the numbers that they stand for, however long they are, and     *)
(* equal ones have the same hash.                                          *)
(***************************************************************************)
EXTENDS Numeric, SequenceLemmas

(* There is a place where the skipping stops, at the latest the end.       *)
LEMMA SkipToFinds ==
  ASSUME NEW text \in Seq(Chars), NEW from \in 1..Len(text) + 1, NEW chars, NEW to,
         to = SkipTo(text, from, chars)
  PROVE  /\ to \in from..Len(text) + 1
         /\ \A q \in from..to - 1 : text[q] \in chars
         /\ to = Len(text) + 1 \/ text[to] \notin chars
<1> DEFINE Stops(p) == p = Len(text) + 1 \/ text[p] \notin chars
           S == {p \in from..Len(text) + 1 : Stops(p)}
<1>1. Len(text) + 1 \in S
  OBVIOUS
<1>2. S \subseteq Nat
  OBVIOUS
<1>3. PICK p \in S : \A q \in S : p <= q
  BY <1>1, <1>2, LeastElement
<1>4. p \in from..Len(text) + 1 /\ Stops(p)
  OBVIOUS
<1>5. ASSUME NEW q \in from..p - 1
      PROVE  text[q] \in chars
  <2>1. q \in from..Len(text) + 1 /\ q < p
    BY <1>4
  <2>2. q \notin S
    BY <2>1, <1>3, <1>4
  <2> QED
    BY <2>1, <2>2
<1> QED
  BY <1>4, <1>5 DEF SkipTo

LEMMA SkipToStops ==
  ASSUME NEW text \in Seq(Chars), NEW from \in 1..Len(text) + 1, NEW chars
  PROVE  SkipTo(text, from, chars) \in from..Len(text) + 1
BY SkipToFinds

(* The character at a place, or the mark of the end.                       *)
LEMMA CharAtTyped ==
  ASSUME NEW text \in Seq(Chars), NEW pos \in Nat \ {0}
  PROVE  CharAt(text, pos) \in Chars
<1>1. STR_END \in Chars
  BY DEF Chars, STR_END
<1>2. pos <= Len(text) => text[pos] \in Chars
  OBVIOUS
<1> QED
  BY <1>1, <1>2 DEF CharAt

-------------------------------------------------------------------------------
(* A cursor with room: its place is in the text, or right after it.        *)
Within(c) == c.pos <= Len(c.text) + 1

LEMMA CursorMoved ==
  ASSUME NEW c \in Cursors, NEW pos \in Nat \ {0}, NEW ch \in Chars
  PROVE  /\ MovedTo(c, pos, ch) \in Cursors
         /\ MovedTo(c, pos, ch).text = c.text
         /\ MovedTo(c, pos, ch).pos = pos /\ MovedTo(c, pos, ch).ch = ch
         /\ MovedTo(c, pos, ch).negative = c.negative
<1> HIDE DEF Chars
<1> QED
  BY DEF Cursors, MovedTo

LEMMA SignTrimmed ==
  ASSUME NEW text \in Seq(Chars)
  PROVE  TrimLeadingSign(text) \in Cursors /\ Within(TrimLeadingSign(text))
<1> DEFINE c == TrimLeadingSign(text)
<1>1. c.negative \in BOOLEAN /\ c.text = text /\ c.pos = IF c.negative THEN 2 ELSE 1
  BY DEF TrimLeadingSign
<1>2. c.negative => 1 <= Len(text)
  <2>1. STR_END # Minus
    BY DEF STR_END, Minus
  <2>2. c.negative = (CharAt(text, 1) = Minus)
    BY DEF TrimLeadingSign
  <2> QED
    BY <2>1, <2>2 DEF CharAt
<1>3. c.ch \in Chars
  BY CharAtTyped DEF TrimLeadingSign
<1>4. c \in Cursors
  BY <1>1, <1>3 DEF TrimLeadingSign, Cursors
<1> QED
  BY <1>1, <1>2, <1>4 DEF Within

LEMMA ZerosTrimmed ==
  ASSUME NEW c \in Cursors, Within(c)
  PROVE  TrimLeadingZeros(c) \in Cursors /\ Inside(TrimLeadingZeros(c))
<1> DEFINE first == SkipTo(c.text, c.pos, {Zero, Comma})
           d == TrimLeadingZeros(c)
<1>1. c.text \in Seq(Chars) /\ c.pos \in 1..Len(c.text) + 1
  BY DEF Cursors, Within
<1>2. first \in c.pos..Len(c.text) + 1
  BY <1>1, SkipToStops
<1>3. CharAt(c.text, first) \in Chars
  BY <1>1, <1>2, CharAtTyped
<1>4. first = Len(c.text) + 1 => CharAt(c.text, first) = STR_END
  BY <1>1 DEF CharAt
<1>5. d = MovedTo(c, first + 1, CharAt(c.text, first))
  BY DEF TrimLeadingZeros
<1> HIDE DEF first, d
<1>6. d \in Cursors /\ d.text = c.text /\ d.pos = first + 1 /\ d.ch = CharAt(c.text, first)
  <2>1. first + 1 \in Nat \ {0}
    BY <1>1, <1>2
  <2> QED
    BY <2>1, <1>3, <1>5, CursorMoved
<1> QED
  BY <1>1, <1>2, <1>4, <1>6 DEF Inside, d

LEMMA NextInside ==
  ASSUME NEW c \in Cursors, Within(c)
  PROVE  GetNext(c) \in Cursors /\ Within(GetNext(c))
<1>1. c.text \in Seq(Chars) /\ c.pos \in 1..Len(c.text) + 1
  BY DEF Cursors, Within
<1>2. CASE c.pos > Len(c.text)
  <2>1. GetNext(c) = MovedTo(c, c.pos, STR_END)
    BY <1>2 DEF GetNext
  <2>2. STR_END \in Chars
    BY DEF Chars, STR_END
  <2> QED
    BY <1>1, <1>2, <2>1, <2>2, CursorMoved DEF Within
<1>3. CASE ~(c.pos > Len(c.text))
  <2> DEFINE p == SkipTo(c.text, c.pos, {Comma})
             after == IF p <= Len(c.text) THEN p + 1 ELSE p
  <2>1. p \in c.pos..Len(c.text) + 1
    BY <1>1, SkipToStops
  <2>2. CharAt(c.text, p) \in Chars
    BY <1>1, <2>1, CharAtTyped
  <2>3. GetNext(c) = MovedTo(c, after, CharAt(c.text, p))
    BY <1>3 DEF GetNext
  <2>4. after \in 1..Len(c.text) + 1 /\ after \in Nat \ {0}
    BY <1>1, <2>1
  <2>5. PICK d, ch : d = GetNext(c) /\ ch = CharAt(c.text, p) /\ ch \in Chars
    BY <2>2
  <2> HIDE DEF p, after
  <2>6. d \in Cursors /\ d.text = c.text /\ d.pos = after
    BY <2>3, <2>4, <2>5, CursorMoved
  <2> QED
    BY ONLY <2>4, <2>5, <2>6 DEF Within
<1> QED
  BY <1>2, <1>3

-------------------------------------------------------------------------------
(* ReadsInside is not inductive: that trim_leading_zeros may go one place  *)
(* beyond the end is harmless only because whatever it then finds there is *)
(* the mark of the end, at which no scan goes on.                          *)
Inv ==
  /\ TypeOK /\ Inside(lhs) /\ Inside(rhs)
  /\ phase \in {"signs", "fraction"} => Within(lhs) /\ Within(rhs)

(* A result is recorded, and the cursors stay.                             *)
LEMMA ReturnKeeps ==
  ASSUME NEW result \in BOOLEAN, Inv, Return(result)
  PROVE  Inv'
BY DEF Inv, TypeOK, Return, Inside, Within, Phases

LEMMA InitInv == Init => Inv
<1> SUFFICES ASSUME Init PROVE Inv
  OBVIOUS
<1>1. <<>> \in Seq(Chars)
  OBVIOUS
<1>2. /\ lhs \in Cursors /\ Within(lhs)
      /\ rhs \in Cursors /\ Within(rhs)
  BY <1>1, SignTrimmed DEF Init
<1>3. Inside(lhs) /\ Inside(rhs)
  BY <1>2 DEF Within, Inside, Cursors
<1>4. TypeOK
  BY <1>1, <1>2 DEF Init, TypeOK, Calls, Phases
<1> QED
  BY <1>2, <1>3, <1>4 DEF Inv

LEMMA CallKeeps == Inv /\ Call => Inv'
<1> SUFFICES ASSUME Inv, Call PROVE Inv'
  OBVIOUS
<1>1. PICK op \in {"compare", "equal"}, left \in Texts, right \in Texts :
        /\ call' = [op |-> op, left |-> left, right |-> right]
        /\ lhs' = TrimLeadingSign(left) /\ rhs' = TrimLeadingSign(right)
  BY DEF Call
<1>2. left \in Seq(Chars) /\ right \in Seq(Chars)
  BY TextsAssumption
<1>3. /\ lhs' \in Cursors /\ Within(lhs')
      /\ rhs' \in Cursors /\ Within(rhs')
  BY <1>1, <1>2, SignTrimmed
<1>4. Inside(lhs') /\ Inside(rhs')
  BY <1>3 DEF Within, Inside, Cursors
<1>5. TypeOK'
  BY <1>1, <1>2, <1>3 DEF Inv, Call, TypeOK, Calls, Phases
<1> QED
  BY <1>3, <1>4, <1>5 DEF Inv, Inside, Within

LEMMA SameSignsKeeps == Inv /\ SameSigns => Inv'
<1> SUFFICES ASSUME Inv, SameSigns PROVE Inv'
  OBVIOUS
<1>1. /\ lhs \in Cursors /\ Within(lhs)
      /\ rhs \in Cursors /\ Within(rhs)
  BY DEF Inv, TypeOK, SameSigns
<1>2. /\ lhs' \in Cursors /\ Inside(lhs')
      /\ rhs' \in Cursors /\ Inside(rhs')
  BY <1>1, ZerosTrimmed DEF SameSigns
<1> QED
  BY <1>2 DEF Inv, TypeOK, SameSigns, Phases, Inside

(* No scan goes on at the mark of the end.                                 *)
LEMMA GoesOn ==
  ASSUME NEW c \in Cursors, Inside(c), ~IsEnd(c.ch)
  PROVE  /\ Within(c) /\ GetNext(c) \in Cursors /\ Within(GetNext(c)) /\ Inside(GetNext(c))
<1>1. Within(c)
  BY DEF Inside, Within, IsEnd, Cursors
<1>2. GetNext(c) \in Cursors /\ Within(GetNext(c))
  BY <1>1, NextInside
<1> QED
  BY <1>1, <1>2 DEF Inside, Within, Cursors

LEMMA DigitsKeep == Inv /\ (SameDigit \/ OtherDigit \/ FindLonger) => Inv'
<1> SUFFICES ASSUME Inv, SameDigit \/ OtherDigit \/ FindLonger PROVE Inv'
  OBVIOUS
<1>1. lhs \in Cursors /\ Inside(lhs) /\ rhs \in Cursors /\ Inside(rhs)
  BY DEF Inv, TypeOK
<1>2. ASSUME ~IsEnd(lhs.ch), ~IsEnd(rhs.ch), lhs' = GetNext(lhs), rhs' = GetNext(rhs),
             phase' \in {"digits", "longer"}, left_leaning' \in BOOLEAN,
             UNCHANGED <<call, known>>
      PROVE  Inv'
  <2>1. /\ lhs' \in Cursors /\ Inside(lhs')
        /\ rhs' \in Cursors /\ Inside(rhs')
    BY <1>1, <1>2, GoesOn
  <2> QED
    BY <1>2, <2>1 DEF Inv, TypeOK, Phases, Inside
<1>3. CASE SameDigit
  BY <1>2, <1>3 DEF SameDigit, Inv, TypeOK
<1>4. CASE OtherDigit
  <2>1. CASE Compares
    BY <1>2, <1>4, <2>1 DEF OtherDigit
  <2>2. CASE ~Compares
    BY <1>4, <2>2, ReturnKeeps DEF OtherDigit
  <2> QED
    BY <2>1, <2>2
<1>5. CASE FindLonger
  <2>1. CASE IsEnd(lhs.ch) \/ IsEnd(rhs.ch)
    <3>1. Longer(lhs, rhs) \in BOOLEAN
      BY DEF Longer
    <3> QED
      BY <1>5, <2>1, <3>1, ReturnKeeps DEF FindLonger
  <2>2. CASE ~(IsEnd(lhs.ch) \/ IsEnd(rhs.ch))
    BY <1>2, <1>5, <2>2 DEF FindLonger, Inv, TypeOK
  <2> QED
    BY <2>1, <2>2
<1> QED
  BY <1>3, <1>4, <1>5

(* The two points are in the texts: the fractions begin inside.            *)
LEMMA DigitsEndKeeps == Inv /\ DigitsEnd => Inv'
<1> SUFFICES ASSUME Inv, DigitsEnd PROVE Inv'
  OBVIOUS
<1>1. CASE \E result \in BOOLEAN : Return(result)
  BY <1>1, ReturnKeeps
<1>2. CASE /\ lhs.ch = Dot /\ rhs.ch = Dot
           /\ phase' = "fraction"
           /\ UNCHANGED <<call, lhs, rhs, left_leaning, known>>
  <2>1. Within(lhs) /\ Within(rhs)
    BY <1>2 DEF Inv, TypeOK, Inside, Within, Cursors, Dot, STR_END
  <2> QED
    BY <1>2, <2>1 DEF Inv, TypeOK, Phases, Inside, Within
<1>3. \/ \E result \in BOOLEAN : Return(result)
      \/ /\ lhs.ch = Dot /\ rhs.ch = Dot
         /\ phase' = "fraction"
         /\ UNCHANGED <<call, lhs, rhs, left_leaning, known>>
  BY Zenon DEF DigitsEnd, Compares, RestNonZero
<1> QED
  BY <1>1, <1>2, <1>3

LEMMA SignsKeep == Inv /\ DifferentSigns => Inv'
<1> SUFFICES ASSUME Inv, DifferentSigns PROVE Inv'
  OBVIOUS
<1>1. lhs.negative \in BOOLEAN
  BY DEF Inv, TypeOK, Cursors
<1>2. BothZero(lhs, rhs) \in BOOLEAN
  BY DEF BothZero
<1>3. \E result \in BOOLEAN : Return(result)
  BY <1>1, <1>2, Zenon DEF DifferentSigns
<1> QED
  BY <1>3, ReturnKeeps

(* Both fractions are read while there is something left of both.          *)
LEMMA FractionsKeep == Inv /\ (SameFractionDigit \/ OtherFractionDigit \/ FractionEnds) => Inv'
<1> SUFFICES ASSUME Inv, SameFractionDigit \/ OtherFractionDigit \/ FractionEnds PROVE Inv'
  OBVIOUS
<1>1. lhs \in Cursors /\ rhs \in Cursors
  BY DEF Inv, TypeOK
<1>2. ASSUME NEW c \in Cursors, ~AtEnd(c)
      PROVE  Advanced(c) \in Cursors /\ Within(Advanced(c)) /\ Inside(Advanced(c))
  <2>1. /\ c.text \in Seq(Chars) /\ c.pos \in Nat \ {0} /\ c.pos + 1 \in Nat \ {0}
        /\ c.pos <= Len(c.text) /\ c.negative \in BOOLEAN /\ c.ch \in Chars
    BY <1>2 DEF Cursors, AtEnd
  <2>2. /\ Advanced(c) \in Cursors
        /\ Advanced(c).text = c.text /\ Advanced(c).pos = c.pos + 1
    BY <2>1 DEF Advanced, Cursors
  <2> QED
    BY <2>1, <2>2 DEF Within, Inside
<1>3. CASE SameFractionDigit
  <2>1. /\ lhs' \in Cursors /\ Within(lhs') /\ Inside(lhs')
        /\ rhs' \in Cursors /\ Within(rhs') /\ Inside(rhs')
    BY <1>1, <1>2, <1>3 DEF SameFractionDigit
  <2> QED
    BY <1>3, <2>1 DEF SameFractionDigit, Inv, TypeOK, Inside, Within
<1>4. CASE OtherFractionDigit
  <2>1. \E result \in BOOLEAN : Return(result)
    BY <1>4, Zenon DEF OtherFractionDigit
  <2> QED
    BY <2>1, ReturnKeeps
<1>5. CASE FractionEnds
  <2>1. \E result \in BOOLEAN : Return(result)
    BY <1>5, Zenon DEF FractionEnds, RestNonZero, Compares
  <2> QED
    BY <2>1, ReturnKeeps
<1> QED
  BY <1>3, <1>4, <1>5

LEMMA NextInv == Inv /\ [Next]_vars => Inv'
<1>1. Inv /\ Step => Inv'
  BY SignsKeep, SameSignsKeeps, DigitsKeep, DigitsEndKeeps, FractionsKeep DEF Step
<1>2. Inv /\ UNCHANGED vars => Inv'
  BY DEF Inv, TypeOK, Inside, Within, vars
<1> QED
  BY <1>1, <1>2, CallKeeps DEF Next, Terminated

(* ReadsInside and TypeOK, for all texts whatever: for signed chars of any *)
(* value, in texts of any length.                                          *)
LEMMA Invariance == Spec => []Inv
BY InitInv, NextInv, PTL DEF Spec

(* numeric_compare and numeric_equal only ever read characters of the two  *)
(* texts, or the mark that they give themselves at the end.                *)
THEOREM ReadsStayInside == Spec => []ReadsInside
<1>1. Inv => ReadsInside
  BY DEF Inv, ReadsInside, Within
<1> QED
  BY <1>1, Invariance, PTL

(* The cursors, the call and the results are what their types say.         *)
THEOREM CursorsTyped == Spec => []TypeOK
<1>1. Inv => TypeOK
  BY DEF Inv
<1> QED
  BY <1>1, Invariance, PTL

(* The number of a text, one character after the other.                    *)
ValueStep(n, ch, k) == WithDigit(n, ch)
V == INSTANCE FoldLemmas WITH Op <- ValueStep
ScaleStep(n, ch, k) == Tenfold(n, ch)
S == INSTANCE FoldLemmas WITH Op <- ScaleStep

LEMMA AbsoluteIs == ASSUME NEW text PROVE Absolute(text) = V!Fold(0, text, 0)
  BY DEF Absolute, ValueStep, V!Fold, FoldLeft, V!FoldLeft, MapThenFoldSet,
         V!MapThenFoldSet, Max, V!Max

LEMMA ScaleIs ==
  ASSUME NEW text
  PROVE  Scale(text) = S!Fold(1, SubSeq(text, Point(text) + 1, Len(text)), 0)
  BY DEF Scale, ScaleStep, S!Fold, FoldLeft, S!FoldLeft, MapThenFoldSet,
         S!MapThenFoldSet, Max, S!Max

(* The values of the text's beginnings, and the scales of the beginnings   *)
(* of its fraction.                                                        *)
Values(text) == CHOOSE v : V!Steps(v, 0, text, 0, Len(text)) /\ Absolute(text) = v[Len(text)]
Value(text, q) == Values(text)[q]

Places(text) == IF Point(text) <= Len(text) THEN Len(text) - Point(text) ELSE 0
Scales(text) ==
  CHOOSE u : /\ u[0] = 1 /\ \A j \in 1..Places(text) : u[j] = 10 * u[j - 1]
             /\ Scale(text) = u[Places(text)]
Power(text, j) == Scales(text)[j]

LEMMA ValueFacts ==
  ASSUME NEW text \in Seq(Chars)
  PROVE  /\ Value(text, 0) = 0
         /\ \A q \in 1..Len(text) : Value(text, q) = WithDigit(Value(text, q - 1), text[q])
         /\ Absolute(text) = Value(text, Len(text))
<1>1. PICK n \in Nat : n = Len(text) /\ DOMAIN text = 1..n
  BY LenProperties
<1>2. \E v : V!Steps(v, 0, text, 0, n) /\ V!Fold(0, text, 0) = v[n]
  <2>1. n \in Nat /\ DOMAIN text = 1..n
    BY <1>1
  <2> QED
    BY ONLY <2>1, V!FoldValues
<1>3. V!Steps(Values(text), 0, text, 0, n) /\ Absolute(text) = Values(text)[n]
  BY <1>1, <1>2, AbsoluteIs DEF Values
<1> QED
  BY <1>1, <1>3 DEF Value, V!Steps, ValueStep

(* The point is in the text, or there is none.                             *)
LEMMA PointFacts ==
  ASSUME NEW text \in Seq(Chars)
  PROVE  /\ Point(text) \in 1..Len(text) + 1
         /\ Point(text) <= Len(text) => text[Point(text)] = Dot
         /\ \A q \in 1..Point(text) - 1 : text[q] # Dot
<1>1. 1 \in 1..Len(text) + 1
  OBVIOUS
<1>2. PICK p : p = Point(text)
  OBVIOUS
<1>3. /\ p \in 1..Len(text) + 1
      /\ \A q \in 1..p - 1 : text[q] \in Chars \ {Dot}
      /\ p = Len(text) + 1 \/ text[p] \notin Chars \ {Dot}
  BY <1>1, <1>2, SkipToFinds DEF Point
<1>4. p <= Len(text) => text[p] \in Chars
  BY <1>3
<1> QED
  BY <1>2, <1>3, <1>4

LEMMA PowerFacts ==
  ASSUME NEW text \in Seq(Chars)
  PROVE  /\ Places(text) \in Nat
         /\ Power(text, 0) = 1
         /\ \A j \in 1..Places(text) : Power(text, j) = 10 * Power(text, j - 1)
         /\ Scale(text) = Power(text, Places(text))
<1>1. PICK n \in Nat : n = Len(text)
  BY LenProperties
<1>2. PICK p \in 1..n + 1 : p = Point(text)
  BY <1>1, PointFacts
<1>3. PICK m : m = Places(text)
  OBVIOUS
<1>4. m = (IF p <= n THEN n - p ELSE 0) /\ m \in Nat
  BY <1>1, <1>2, <1>3 DEF Places
<1>5. PICK f : f = SubSeq(text, p + 1, n)
  OBVIOUS
<1>6. DOMAIN f = 1..m
  BY <1>1, <1>2, <1>4, <1>5
<1>7. \E u : S!Steps(u, 1, f, 0, m) /\ S!Fold(1, f, 0) = u[m]
  BY ONLY <1>4, <1>6, S!FoldValues
<1>8. Scale(text) = S!Fold(1, f, 0)
  BY <1>1, <1>2, <1>5, ScaleIs
<1>9. \E u : /\ u[0] = 1 /\ \A j \in 1..m : u[j] = 10 * u[j - 1]
             /\ Scale(text) = u[m]
  BY <1>7, <1>8 DEF S!Steps, ScaleStep, Tenfold
<1> QED
  BY <1>3, <1>4, <1>9 DEF Power, Scales

-------------------------------------------------------------------------------
(* What a text of the documented format consists of.                       *)
Skipped == {Minus, Comma, Dot}

LEMMA DocumentedChars ==
  ASSUME NEW text \in Seq(Chars), Documented(text)
  PROVE  /\ \A q \in 1..Len(text) : text[q] \in Digits \cup Skipped
         /\ \A q \in 1..Point(text) - 1 :
              text[q] \in Digits \cup {Comma} \/ (q = 1 /\ text[q] = Minus)
         /\ \A q \in Point(text) + 1..Len(text) : text[q] \in Digits
<1>1. PICK n, p : n = Len(text) /\ n \in Nat /\ p = Point(text) /\ p \in 1..n + 1
  BY LenProperties, PointFacts
<1>2. p <= n => text[p] = Dot
  BY <1>1, PointFacts
<1>3. /\ \A q \in 1..p - 1 : text[q] \in Digits \cup {Comma} \/ (q = 1 /\ text[q] = Minus)
      /\ \A q \in p + 1..n : text[q] \in Digits
  BY <1>1 DEF Documented
<1>4. \A q \in 1..n : q \in 1..p - 1 \/ (q = p /\ p <= n) \/ q \in p + 1..n
  <2>1. n \in Nat /\ p \in 1..n + 1
    BY <1>1
  <2> QED
    BY ONLY <2>1
<1>5. \A q \in 1..n : text[q] \in Digits \cup Skipped
  BY <1>2, <1>3, <1>4 DEF Skipped
<1> QED
  BY <1>1, <1>3, <1>5

(* A digit is a number from 0 to 9, and none of the other characters.      *)
LEMMA DigitFacts ==
  ASSUME NEW ch \in Digits
  PROVE  /\ ch - Zero \in 0..9 /\ ch \in Int /\ ch \notin Skipped /\ ch # STR_END
         /\ ~IsEnd(ch) /\ (ch - Zero = 0 <=> ch = Zero)
  BY DEF Digits, Skipped, Zero, Minus, Comma, Dot, STR_END, IsEnd

LEMMA ValueSteps ==
  ASSUME NEW text \in Seq(Chars), Documented(text)
  PROVE  /\ \A q \in 0..Len(text) : Value(text, q) \in Nat
         /\ \A q \in 1..Len(text) :
              Value(text, q) = IF text[q] \in Digits THEN 10 * Value(text, q - 1) + (text[q] - Zero)
                               ELSE Value(text, q - 1)
<1>1. PICK n \in Nat : n = Len(text)
  BY LenProperties
<1>2. \A q \in 1..n : text[q] \in Digits \cup Skipped
  BY <1>1, DocumentedChars
<1>3. \A q \in 1..n :
        Value(text, q) = IF text[q] \in Digits THEN 10 * Value(text, q - 1) + (text[q] - Zero)
                         ELSE Value(text, q - 1)
  <2> SUFFICES ASSUME NEW q \in 1..n
               PROVE  Value(text, q) = IF text[q] \in Digits
                                       THEN 10 * Value(text, q - 1) + (text[q] - Zero)
                                       ELSE Value(text, q - 1)
    OBVIOUS
  <2>1. Value(text, q) = WithDigit(Value(text, q - 1), text[q])
    BY <1>1, ValueFacts
  <2>2. text[q] \in Digits \cup Skipped /\ (text[q] \in Digits => text[q] \notin Skipped)
    BY <1>2, DigitFacts
  <2> QED
    BY <2>1, <2>2 DEF WithDigit, Skipped
<1> DEFINE T == {q \in 0..n : Value(text, q) \in Nat}
<1>4. 0..n \subseteq T
  <2>1. 0 \in T
    BY ValueFacts
  <2>2. \A q \in 1..n : q - 1 \in T => q \in T
    <3> SUFFICES ASSUME NEW q \in 1..n, q - 1 \in T PROVE q \in T
      OBVIOUS
    <3>1. Value(text, q - 1) \in Nat
      OBVIOUS
    <3>2. text[q] \in Digits => text[q] - Zero \in 0..9
      BY DigitFacts
    <3>3. PICK d, v : d = text[q] - Zero /\ v = Value(text, q - 1)
      OBVIOUS
    <3>4. Value(text, q) = v \/ (d \in 0..9 /\ Value(text, q) = 10 * v + d)
      BY <1>3, <3>2, <3>3
    <3>5. v \in Nat
      BY <3>1, <3>3
    <3>6. Value(text, q) \in Nat
      BY ONLY <3>4, <3>5
    <3> QED
      BY <3>6
  <2> HIDE DEF T
  <2> QED
    BY ONLY <2>1, <2>2, <1>1, StepByStep
<1> QED
  BY <1>1, <1>3, <1>4

(* From one beginning to a longer one.                                     *)
LEMMA ValuesGrow ==
  ASSUME NEW text \in Seq(Chars), Documented(text),
         NEW q \in 0..Len(text), NEW r \in q..Len(text)
  PROVE  /\ Value(text, q) <= Value(text, r)
         /\ (\A i \in q + 1..r : text[i] \in Skipped) => Value(text, r) = Value(text, q)
         /\ (\A i \in q + 1..r : text[i] \in Skipped \cup {Zero}) /\ Value(text, q) = 0
              => Value(text, r) = 0
<1>1. PICK n \in Nat : n = Len(text)
  BY LenProperties
<1>2. /\ \A i \in 0..n : Value(text, i) \in Nat
      /\ \A i \in 1..n :
           Value(text, i) = IF text[i] \in Digits THEN 10 * Value(text, i - 1) + (text[i] - Zero)
                            ELSE Value(text, i - 1)
  BY <1>1, ValueSteps
<1> DEFINE Skip(i) == \A j \in q + 1..i : text[j] \in Skipped
           Blank(i) == \A j \in q + 1..i : text[j] \in Skipped \cup {Zero}
           Grown(i) == /\ Value(text, q) <= Value(text, i)
                       /\ Skip(i) => Value(text, i) = Value(text, q)
                       /\ Blank(i) /\ Value(text, q) = 0 => Value(text, i) = 0
           T == {k \in 0..r - q : Grown(q + k)}
<1>3. q \in 0..n /\ r \in q..n /\ r - q \in Nat
  BY <1>1
<1>4. ASSUME NEW i \in q + 1..r, Grown(i - 1)
      PROVE  Grown(i)
  <2>1. i \in 1..n /\ i - 1 \in 0..n /\ q \in 0..n
    BY <1>3
  <2>2. (Skip(i) => Skip(i - 1) /\ text[i] \in Skipped)
        /\ (Blank(i) => Blank(i - 1) /\ text[i] \in Skipped \cup {Zero})
    BY <1>3
  <2>3. text[i] \in Digits => text[i] - Zero \in 0..9 /\ text[i] \notin Skipped
                              /\ (text[i] - Zero = 0 <=> text[i] = Zero)
    BY DigitFacts
  <2>4. PICK v, w, x, d : /\ v = Value(text, q) /\ w = Value(text, i - 1) /\ x = Value(text, i)
                          /\ d = text[i] - Zero
    OBVIOUS
  <2>5. v \in Nat /\ w \in Nat /\ x = IF text[i] \in Digits THEN 10 * w + d ELSE w
    BY <1>2, <2>1, <2>4
  <2>5a. w \in Nat /\ (text[i] \in Digits => d \in Nat)
    <3>1. text[i] \in Digits => d \in 0..9
      BY ONLY <2>3, <2>4
    <3> QED
      BY ONLY <2>5, <3>1
  <2>6. /\ v <= w /\ (Skip(i - 1) => w = v) /\ (Blank(i - 1) /\ v = 0 => w = 0)
    BY <1>4, <2>4
  <2> HIDE DEF Skip, Blank
  <2>7. v <= x /\ (Skip(i) => x = v)
    <3>1. w <= x
      BY ONLY <2>5, <2>5a
    <3>2. x \in Nat
      BY ONLY <2>5, <2>5a
    <3>3. Skip(i) => x = w /\ w = v
      BY ONLY <2>2, <2>3, <2>5, <2>6
    <3> QED
      BY ONLY <2>5, <2>6, <3>1, <3>2, <3>3
  <2>8. text[i] \in Digits /\ Blank(i) => d = 0
    BY ONLY <2>2, <2>3, <2>4
  <2>9. Blank(i) /\ v = 0 => x = 0
    BY ONLY <2>2, <2>5, <2>6, <2>8
  <2> QED
    BY <2>4, <2>7, <2>9
<1>5. Grown(q)
  BY <1>2, <1>3
<1>6. 0..r - q \subseteq T
  <2>1. 0 \in T
    BY <1>3, <1>5
  <2>2. \A k \in 1..r - q : k - 1 \in T => k \in T
    <3> SUFFICES ASSUME NEW k \in 1..r - q, k - 1 \in T PROVE k \in T
      OBVIOUS
    <3>1. PICK i : i = q + k
      OBVIOUS
    <3>2. i \in q + 1..r /\ q + (k - 1) = i - 1 /\ k \in 0..r - q
      BY <1>3, <3>1
    <3>3. Grown(q + (k - 1))
      OBVIOUS
    <3> HIDE DEF Grown
    <3>4. Grown(i - 1)
      BY ONLY <3>2, <3>3
    <3>5. Grown(i)
      BY ONLY <3>2, <3>4, <1>4
    <3> QED
      BY ONLY <3>1, <3>2, <3>5
  <2> HIDE DEF T
  <2> QED
    BY ONLY <2>1, <2>2, <1>3, StepByStep
<1>7. Grown(r)
  <2>1. r - q \in T /\ q + (r - q) = r
    BY <1>3, <1>6
  <2> HIDE DEF Grown
  <2> QED
    BY <2>1
<1> QED
  BY <1>7

-------------------------------------------------------------------------------
(* A cursor that reads the digits before the point, and the number of      *)
(* which it has read the digits.                                           *)
Reading(c) ==
  /\ c.text \in Seq(Chars) /\ Documented(c.text)
  /\ \/ c.ch = STR_END /\ Point(c.text) = Len(c.text) + 1
     \/ /\ c.pos - 1 \in 1..Len(c.text) /\ c.pos - 1 <= Point(c.text)
        /\ c.ch = c.text[c.pos - 1] /\ c.ch \in Digits \cup {Dot}
Before(c) == IF c.ch = STR_END THEN Len(c.text) ELSE c.pos - 2
NumberRead(c) == Value(c.text, Before(c))

(* The number before the point.                                            *)
Whole(text) == Value(text, Point(text) - 1)

LEMMA ReadingTyped ==
  ASSUME NEW c \in Cursors, Reading(c)
  PROVE  /\ Before(c) \in 0..Point(c.text) - 1 /\ Before(c) <= Len(c.text)
         /\ NumberRead(c) \in Nat
         /\ Whole(c.text) \in Nat
         /\ IsEnd(c.ch) => Before(c) = Point(c.text) - 1 /\ NumberRead(c) = Whole(c.text)
         /\ ~IsEnd(c.ch) => c.ch \in Digits
<1>1. PICK n, p, t : t = c.text /\ n = Len(t) /\ n \in Nat /\ p = Point(t) /\ p \in 1..n + 1
                     /\ t \in Seq(Chars)
  BY LenProperties, PointFacts DEF Reading
<1>2. PICK k \in Nat \ {0} : k = c.pos
  BY DEF Cursors
<1>3. (p <= n => t[p] = Dot) /\ \A q \in 1..p - 1 : t[q] # Dot
  BY <1>1, PointFacts
<1>4. \/ c.ch = STR_END /\ p = n + 1
      \/ k - 1 \in 1..n /\ k - 1 <= p /\ c.ch = t[k - 1] /\ c.ch \in Digits \cup {Dot}
  BY <1>1, <1>2 DEF Reading
<1>5. Before(c) = IF c.ch = STR_END THEN n ELSE k - 2
  BY <1>1, <1>2 DEF Before
<1>6. c.ch \in Digits => c.ch # STR_END /\ ~IsEnd(c.ch) /\ c.ch # Dot
  BY DigitFacts DEF Skipped
<1>7. Dot # STR_END /\ (IsEnd(c.ch) <=> c.ch \in {Dot, STR_END})
  BY DEF Dot, STR_END, IsEnd
<1>8. Before(c) \in 0..p - 1 /\ Before(c) <= n
  <2>1. n \in Nat /\ p \in 1..n + 1 /\ k \in Nat \ {0}
    BY <1>1, <1>2
  <2>2. CASE c.ch = STR_END /\ p = n + 1
    BY ONLY <2>1, <2>2, <1>5
  <2>3. CASE /\ k - 1 \in 1..n /\ k - 1 <= p /\ c.ch = t[k - 1]
             /\ c.ch \in Digits \cup {Dot}
    <3>1. c.ch # STR_END
      BY ONLY <1>6, <1>7, <2>3
    <3> QED
      BY ONLY <2>1, <2>3, <3>1, <1>5
  <2> QED
    BY ONLY <1>4, <2>2, <2>3
<1>9. IsEnd(c.ch) => Before(c) = p - 1
  <2>1. c.ch = Dot => k - 1 = p
    BY ONLY <1>1, <1>2, <1>3, <1>4, <1>7
  <2> QED
    BY ONLY <2>1, <1>1, <1>2, <1>4, <1>5, <1>6, <1>7
<1>10. \A i \in 0..n : Value(t, i) \in Nat
  BY <1>1, ValueSteps DEF Reading
<1>11. Before(c) \in 0..n /\ p - 1 \in 0..n
  BY <1>1, <1>8
<1> QED
  BY <1>1, <1>4, <1>7, <1>8, <1>9, <1>10, <1>11 DEF NumberRead, Whole

(* get_next reads one digit more.                                          *)
LEMMA NextRead ==
  ASSUME NEW c \in Cursors, Reading(c), ~IsEnd(c.ch)
  PROVE  /\ GetNext(c) \in Cursors /\ Reading(GetNext(c)) /\ GetNext(c).text = c.text
         /\ NumberRead(GetNext(c)) = 10 * NumberRead(c) + (c.ch - Zero)
         /\ Before(GetNext(c)) > Before(c) /\ Before(c) + 1 <= Len(c.text)
         /\ c.text[Before(c) + 1] = c.ch
         /\ \A i \in Before(c) + 2..Before(GetNext(c)) : c.text[i] = Comma
<1>1. PICK n, p, t : t = c.text /\ n = Len(t) /\ n \in Nat /\ p = Point(t) /\ p \in 1..n + 1
                     /\ t \in Seq(Chars) /\ Documented(t)
  BY LenProperties, PointFacts DEF Reading
<1>2. PICK k : k = c.pos - 1 /\ c.pos = k + 1 /\ k \in Nat
  BY DEF Cursors
<1>3. c.ch # STR_END /\ c.ch # Dot /\ STR_END \in Chars
  BY DEF IsEnd, Chars, STR_END
<1>4. k \in 1..n /\ k <= p /\ c.ch = t[k] /\ t[k] \in Digits
  BY <1>1, <1>2, <1>3 DEF Reading
<1>5. k < p
  <2>1. p <= n => t[p] = Dot
    BY <1>1, PointFacts
  <2> QED
    BY ONLY <2>1, <1>1, <1>3, <1>4
<1>6. Before(c) = k - 1 /\ Before(c) + 1 = k /\ Before(c) + 2 = k + 1
  BY <1>2, <1>3 DEF Before
<1>7. Value(t, k) = 10 * Value(t, k - 1) + (t[k] - Zero)
  BY <1>1, <1>4, ValueSteps
<1>8. PICK d : d = GetNext(c)
  OBVIOUS
(* It ends at a place r, up to which there were only commas.               *)
<1>9. ASSUME NEW r \in k + 1..n + 1, \A i \in k + 1..r - 1 : t[i] = Comma,
             r = n + 1 \/ t[r] # Comma,
             d \in Cursors, d.text = t, d.ch = CharAt(t, r), r <= n => d.pos = r + 1
      PROVE  /\ Reading(d) /\ NumberRead(d) = 10 * NumberRead(c) + (c.ch - Zero)
             /\ Before(d) > Before(c)
             /\ \A i \in Before(c) + 2..Before(d) : t[i] = Comma
  <2>1. r <= p
    <3>1. p <= n => t[p] # Comma
      BY <1>1, PointFacts DEF Dot, Comma
    <3> QED
      BY ONLY <1>1, <1>4, <1>5, <1>9, <3>1
  <2>2. r <= n => t[r] \in Digits \cup {Dot}
    <3>1. CASE r <= n /\ r < p
      <4>1. r \in 1..p - 1 /\ r # 1
        BY <1>1, <1>4, <1>9, <3>1
      <4> QED
        BY <1>1, <1>9, <4>1, <3>1, DocumentedChars
    <3>2. CASE r <= n /\ r = p
      BY <1>1, <3>2, PointFacts
    <3> QED
      BY ONLY <2>1, <3>1, <3>2, <1>1, <1>9
  <2>3. Reading(d) /\ Before(d) = r - 1
    <3>1. CASE r = n + 1
      <4>1. d.ch = STR_END
        BY <1>1, <1>9, <3>1 DEF CharAt
      <4>2. p = n + 1
        BY ONLY <2>1, <3>1, <1>1
      <4> QED
        BY <1>1, <1>9, <4>1, <4>2, <3>1 DEF Reading, Before
    <3>2. CASE r # n + 1
      <4>1. r \in 1..n /\ r <= n
        BY <1>1, <1>4, <1>9, <3>2
      <4>2. d.ch = t[r] /\ d.pos = r + 1 /\ t[r] \in Digits \cup {Dot}
        BY <1>1, <1>9, <2>2, <4>1 DEF CharAt
      <4>3. t[r] # STR_END
        BY <4>2, DigitFacts DEF Dot, STR_END
      <4>4. d.pos - 1 = r /\ d.pos - 2 = r - 1
        BY <4>1, <4>2
      <4> QED
        BY <1>1, <1>9, <2>1, <4>1, <4>2, <4>3, <4>4 DEF Reading, Before
    <3> QED
      BY <3>1, <3>2
  <2>4. Value(t, r - 1) = Value(t, k)
    <3>1. PICK q : q = r - 1
      OBVIOUS
    <3>2. k \in 0..Len(t) /\ q \in k..Len(t) /\ \A i \in k + 1..q : t[i] \in Skipped
      BY <1>1, <1>4, <1>9, <3>1 DEF Skipped
    <3>3. Value(t, q) = Value(t, k)
      BY ONLY <3>2, <1>1, ValuesGrow
    <3> QED
      BY <3>1, <3>3
  <2>5. NumberRead(d) = Value(t, k) /\ NumberRead(c) = Value(t, k - 1)
    BY <1>1, <1>6, <1>9, <2>3, <2>4 DEF NumberRead
  <2>6. Before(d) > Before(c)
    BY <2>3, <1>6, <1>4, <1>9
  <2>7. \A i \in Before(c) + 2..Before(d) : t[i] = Comma
    BY <1>6, <1>9, <2>3
  <2> QED
    BY <1>4, <1>7, <2>3, <2>5, <2>6, <2>7
<1> DEFINE Goal == /\ d \in Cursors /\ Reading(d) /\ d.text = t
                   /\ NumberRead(d) = 10 * NumberRead(c) + (c.ch - Zero)
                   /\ Before(d) > Before(c)
                   /\ \A i \in Before(c) + 2..Before(d) : t[i] = Comma
<1>10. ASSUME k + 1 > n PROVE Goal
  <2>1. d = MovedTo(c, c.pos, STR_END)
    BY <1>1, <1>2, <1>8, <1>10 DEF GetNext
  <2>2. d \in Cursors /\ d.text = t /\ d.ch = STR_END
    <3>1. c.pos \in Nat \ {0} /\ STR_END \in Chars
      BY DEF Cursors, Chars, STR_END
    <3>2. /\ MovedTo(c, c.pos, STR_END) \in Cursors
          /\ MovedTo(c, c.pos, STR_END).text = c.text
          /\ MovedTo(c, c.pos, STR_END).ch = STR_END
      BY <3>1, CursorMoved
    <3> QED
      BY <3>2, <2>1, <1>1
  <2>3. PICK r : r = n + 1 /\ r = k + 1
    BY <1>1, <1>4, <1>10
  <2>4. r \in k + 1..n + 1 /\ (\A i \in k + 1..r - 1 : t[i] = Comma) /\ ~(r <= n)
    BY <1>1, <1>4, <2>3
  <2>5. d.ch = CharAt(t, r)
    BY <2>2, <2>4, <1>1 DEF CharAt
  <2> QED
    BY <1>1, <1>8, <1>9, <2>2, <2>3, <2>4, <2>5
<1>11. ASSUME ~(k + 1 > n) PROVE Goal
  <2>1. PICK r : r = SkipTo(t, k + 1, {Comma})
    OBVIOUS
  <2>2. /\ r \in k + 1..n + 1
        /\ \A i \in k + 1..r - 1 : t[i] \in {Comma}
        /\ r = n + 1 \/ t[r] \notin {Comma}
    <3>1. k + 1 \in 1..Len(t) + 1 /\ t \in Seq(Chars) /\ n = Len(t)
      BY <1>1, <1>4, <1>11
    <3>2. PICK from, chars : from = k + 1 /\ chars = {Comma}
      OBVIOUS
    <3>3. /\ r \in from..Len(t) + 1
          /\ \A i \in from..r - 1 : t[i] \in chars
          /\ r = Len(t) + 1 \/ t[r] \notin chars
      BY ONLY <2>1, <3>1, <3>2, SkipToFinds
    <3> QED
      BY ONLY <3>1, <3>2, <3>3
  <2>3. d = MovedTo(c, IF r <= n THEN r + 1 ELSE r, CharAt(t, r))
    BY <1>1, <1>2, <1>8, <1>11, <2>1 DEF GetNext
  <2>4. PICK pos : pos = IF r <= n THEN r + 1 ELSE r
    OBVIOUS
  <2>5. pos \in Nat \ {0} /\ r \in Nat \ {0}
    <3>1. n \in Nat /\ k \in Nat /\ r \in k + 1..n + 1
      BY <1>1, <1>4, <2>2
    <3> QED
      BY ONLY <3>1, <2>4
  <2>6. d \in Cursors /\ d.text = t /\ d.pos = pos /\ d.ch = CharAt(t, r)
    <3>1. PICK ch \in Chars : ch = CharAt(t, r)
      BY <2>5, <1>1, CharAtTyped
    <3>2. d = MovedTo(c, pos, ch)
      BY <2>3, <2>4, <3>1
    <3>3. d \in Cursors /\ d.text = c.text /\ d.pos = pos /\ d.ch = ch
      BY <3>2, <2>5, CursorMoved
    <3> QED
      BY <3>1, <3>3, <1>1
  <2> QED
    BY <1>1, <1>8, <1>9, <2>2, <2>4, <2>6
<1>12. Before(c) + 1 <= n /\ t[Before(c) + 1] = c.ch
  BY <1>4, <1>6
<1> QED
  BY <1>1, <1>8, <1>10, <1>11, <1>12

(* trim_leading_sign leaves the cursor right after the sign.               *)
LEMMA SignFacts ==
  ASSUME NEW text \in Seq(Chars), NEW c, c = TrimLeadingSign(text)
  PROVE  /\ c \in Cursors /\ c.text = text
         /\ c.pos \in 1..Len(text) + 1
         /\ c.negative <=> CharAt(text, 1) = Minus
         /\ \A i \in 1..c.pos - 1 : text[i] = Minus
         /\ c.pos = 1 /\ 1 <= Len(text) => text[1] # Minus
<1>1. PICK n : n = Len(text) /\ n \in Nat
  BY LenProperties
<1>2. c \in Cursors /\ c.pos <= n + 1 /\ c.pos \in Nat \ {0}
  BY <1>1, SignTrimmed DEF Within, Cursors, TrimLeadingSign
<1>3. c.text = text /\ c.negative = (CharAt(text, 1) = Minus)
      /\ c.pos = IF CharAt(text, 1) = Minus THEN 2 ELSE 1
  BY DEF TrimLeadingSign
<1>4. CharAt(text, 1) = IF 1 <= n THEN text[1] ELSE STR_END
  BY <1>1 DEF CharAt
<1>5. STR_END # Minus
  BY DEF STR_END, Minus
<1>6. \A i \in 1..c.pos - 1 : text[i] = Minus
  BY ONLY <1>1, <1>2, <1>3, <1>4, <1>5
<1>7. c.negative \in BOOLEAN
  BY <1>2 DEF Cursors
<1>8. c.pos = 1 /\ 1 <= n => text[1] # Minus
  BY ONLY <1>3, <1>4
<1>9. c.negative <=> CharAt(text, 1) = Minus
  BY ONLY <1>3, <1>7
<1>10. c.pos \in 1..n + 1
  BY ONLY <1>1, <1>2
<1> QED
  BY ONLY <1>1, <1>2, <1>3, <1>6, <1>8, <1>9, <1>10

(* Zeros and commas count for nothing at the beginning.                    *)
LEMMA ZerosRead ==
  ASSUME NEW text \in Seq(Chars), Documented(text), NEW c, NEW d,
         c = TrimLeadingSign(text), d = TrimLeadingZeros(c)
  PROVE  /\ d \in Cursors /\ Reading(d) /\ d.text = text /\ NumberRead(d) = 0 /\ d.ch # Zero
         /\ Before(d) = d.pos - 2 /\ d.negative = c.negative
<1>1. PICK n, p : n = Len(text) /\ n \in Nat /\ p = Point(text) /\ p \in 1..n + 1
  BY LenProperties, PointFacts
<1>2. /\ c \in Cursors /\ c.text = text /\ c.pos \in 1..n + 1
      /\ \A i \in 1..c.pos - 1 : text[i] = Minus
      /\ c.pos = 1 /\ 1 <= n => text[1] # Minus
  BY <1>1, SignFacts
<1>3. PICK k : k = c.pos
  OBVIOUS
<1>4. PICK r : r = SkipTo(text, k, {Zero, Comma})
  OBVIOUS
<1>5. /\ r \in k..n + 1
      /\ \A i \in k..r - 1 : text[i] \in {Zero, Comma}
      /\ r = n + 1 \/ text[r] \notin {Zero, Comma}
  BY <1>1, <1>2, <1>3, <1>4, SkipToFinds
<1>6. /\ d \in Cursors /\ d.text = text /\ d.pos = r + 1 /\ d.ch = CharAt(text, r)
      /\ d.negative = c.negative
  <2>1. d = MovedTo(c, r + 1, CharAt(text, r))
    BY <1>2, <1>3, <1>4 DEF TrimLeadingZeros
  <2>2. r + 1 \in Nat \ {0} /\ r \in Nat \ {0}
    BY <1>1, <1>2, <1>3, <1>5
  <2>3. PICK ch \in Chars : ch = CharAt(text, r)
    BY <2>2, CharAtTyped
  <2>4. PICK pos \in Nat \ {0} : pos = r + 1
    BY <2>2
  <2>5. d = MovedTo(c, pos, ch)
    BY <2>1, <2>3, <2>4
  <2>6. d \in Cursors /\ d.text = c.text /\ d.pos = pos /\ d.ch = ch /\ d.negative = c.negative
    <3>1. c \in Cursors
      BY <1>2
    <3>2. MovedTo(c, pos, ch) \in Cursors
      BY ONLY <3>1, <2>3, <2>4, CursorMoved
    <3>3. MovedTo(c, pos, ch).text = c.text /\ MovedTo(c, pos, ch).pos = pos
          /\ MovedTo(c, pos, ch).ch = ch /\ MovedTo(c, pos, ch).negative = c.negative
      BY ONLY <3>1, <2>3, <2>4, CursorMoved
    <3> QED
      BY ONLY <3>2, <3>3, <2>5
  <2> QED
    BY <2>3, <2>4, <2>6, <1>2
<1>7. r <= p
  <2>1. p <= n => text[p] \notin {Zero, Comma, Minus}
    BY <1>1, PointFacts DEF Dot, Comma, Zero, Minus
  <2>2. p <= n => ~(p \in 1..k - 1) /\ ~(p \in k..r - 1)
    BY <2>1, <1>2, <1>3, <1>5
  <2> QED
    BY ONLY <2>2, <1>1, <1>2, <1>3, <1>5
<1>8. r <= n => text[r] \in Digits \cup {Dot}
  <2>1. CASE r <= n /\ r < p
    <3>1. r \in 1..p - 1 /\ (r = 1 => k = 1 /\ 1 <= n)
      BY <1>1, <1>2, <1>3, <1>5, <2>1
    <3>2. text[r] \in Digits \cup {Comma} \/ (r = 1 /\ text[r] = Minus)
      BY <1>1, <3>1, DocumentedChars
    <3> QED
      BY <3>1, <3>2, <1>2, <1>3, <1>5, <2>1, <1>1
  <2>2. CASE r <= n /\ r = p
    BY <1>1, <2>2, PointFacts
  <2> QED
    BY ONLY <2>1, <2>2, <1>1, <1>2, <1>3, <1>5, <1>7
<1>9. Reading(d) /\ Before(d) = r - 1 /\ d.ch # Zero
  <2>1. CASE r = n + 1
    <3>1. d.ch = STR_END
      BY <1>1, <1>6, <2>1 DEF CharAt
    <3>2. p = n + 1
      BY ONLY <1>1, <1>7, <2>1
    <3>3. STR_END # Zero
      BY DEF STR_END, Zero
    <3> QED
      BY <1>1, <1>6, <2>1, <3>1, <3>2, <3>3 DEF Reading, Before
  <2>2. CASE r # n + 1
    <3>1. r \in 1..n /\ r <= n
      BY <1>1, <1>2, <1>3, <1>5, <2>2
    <3>2. d.ch = text[r] /\ text[r] \in Digits \cup {Dot} /\ text[r] # Zero
      BY <1>1, <1>5, <1>6, <1>8, <3>1 DEF CharAt
    <3>3. text[r] # STR_END
      BY <3>2, DigitFacts DEF Dot, STR_END
    <3>4. d.pos - 1 = r /\ d.pos - 2 = r - 1
      BY <1>6, <3>1
    <3> QED
      BY <1>1, <1>6, <1>7, <3>1, <3>2, <3>3, <3>4 DEF Reading, Before
  <2> QED
    BY <2>1, <2>2
<1>10. Value(text, r - 1) = 0
  <2>1. PICK q : q = r - 1
    OBVIOUS
  <2>2. q \in 0..Len(text) /\ 0 \in 0..Len(text) /\ \A i \in 0 + 1..q : text[i] \in Skipped \cup {Zero}
    <3>1. q \in 0..n
      BY <1>1, <1>2, <1>3, <1>5, <2>1
    <3>2. \A i \in 0 + 1..q : i \in 1..k - 1 \/ i \in k..r - 1
      BY <1>1, <1>2, <1>3, <1>5, <2>1
    <3>3. \A i \in 0 + 1..q : text[i] \in Skipped \cup {Zero}
      BY <3>2, <1>2, <1>3, <1>5 DEF Skipped
    <3> QED
      BY <3>1, <3>3, <1>1
  <2>3. Value(text, 0) = 0
    BY ValueFacts
  <2>4. Value(text, q) = 0
    BY <2>2, <2>3, ValuesGrow
  <2> QED
    BY <2>1, <2>4
<1>11. Before(d) = d.pos - 2
  BY <1>1, <1>2, <1>3, <1>5, <1>6, <1>9
<1> QED
  BY <1>6, <1>9, <1>10, <1>11 DEF NumberRead

-------------------------------------------------------------------------------
(* Of two numbers that began to differ by a digit: neither has a digit     *)
(* more than the other.                                                    *)
Related(x, y) == x # y /\ x < 10 * y /\ y < 10 * x

LEMMA FirstDiffers ==
  ASSUME NEW a \in Nat, NEW d \in 0..9, NEW e \in 0..9, d # e, a = 0 => d # 0 /\ e # 0
  PROVE  Related(10 * a + d, 10 * a + e) /\ (10 * a + d > 10 * a + e <=> d > e)
  BY DEF Related

LEMMA StaysRelated ==
  ASSUME NEW x \in Nat, NEW y \in Nat, NEW d \in 0..9, NEW e \in 0..9, Related(x, y)
  PROVE  Related(10 * x + d, 10 * y + e) /\ (10 * x + d > 10 * y + e <=> x > y)
  BY DEF Related

(* The digits that are read are the first ones of the whole number.        *)
LEMMA WholeAtLeast ==
  ASSUME NEW c \in Cursors, Reading(c)
  PROVE  /\ NumberRead(c) <= Whole(c.text)
         /\ ~IsEnd(c.ch) => Whole(c.text) >= 10 * NumberRead(c) + (c.ch - Zero)
<1>1. ASSUME NEW e \in Cursors, Reading(e)
      PROVE  NumberRead(e) <= Whole(e.text)
  <2>1. PICK t, n, p, b : t = e.text /\ n = Len(t) /\ n \in Nat /\ p = Point(t) /\ p \in 1..n + 1
                         /\ b = Before(e) /\ t \in Seq(Chars) /\ Documented(t)
    BY <1>1, LenProperties, PointFacts DEF Reading
  <2>2. b \in 0..p - 1
    BY <1>1, <2>1, ReadingTyped
  <2>3. PICK q : q = p - 1
    OBVIOUS
  <2>4. b \in 0..Len(t) /\ q \in b..Len(t)
    BY <2>1, <2>2, <2>3
  <2>5. Value(t, b) <= Value(t, q)
    BY ONLY <2>1, <2>4, ValuesGrow
  <2> QED
    BY <2>1, <2>3, <2>5 DEF NumberRead, Whole
<1>2. ASSUME ~IsEnd(c.ch)
      PROVE  Whole(c.text) >= 10 * NumberRead(c) + (c.ch - Zero)
  <2>1. PICK e \in Cursors : e = GetNext(c) /\ Reading(e) /\ e.text = c.text
                           /\ NumberRead(e) = 10 * NumberRead(c) + (c.ch - Zero)
    BY <1>2, NextRead
  <2>2. NumberRead(e) <= Whole(c.text)
    BY <1>1, <2>1
  <2>3. NumberRead(c) \in Nat /\ Whole(c.text) \in Nat /\ c.ch - Zero \in 0..9
    BY <1>2, ReadingTyped, DigitFacts
  <2> QED
    BY <2>1, <2>2, <2>3
<1> QED
  BY <1>1, <1>2

(* Numbers that began to differ do differ, whatever digits follow: or take *)
(* two that do not, the first of which has the least left to be read.      *)
LEMMA WholeDiffers ==
  ASSUME NEW c \in Cursors, NEW e \in Cursors, Reading(c), Reading(e),
         Related(NumberRead(c), NumberRead(e))
  PROVE  Whole(c.text) # Whole(e.text)
<1> DEFINE Left(f) == Point(f.text) - 1 - Before(f)
           Alike(f, g) == /\ f \in Cursors /\ g \in Cursors /\ Reading(f) /\ Reading(g)
                          /\ Related(NumberRead(f), NumberRead(g))
                          /\ Whole(f.text) = Whole(g.text)
           T == {m \in Nat : \E f, g \in Cursors : Alike(f, g) /\ m = Left(f)}
<1>1. \A f \in Cursors : Reading(f) => Left(f) \in Nat
  <2> SUFFICES ASSUME NEW f \in Cursors, Reading(f) PROVE Left(f) \in Nat
    OBVIOUS
  <2>1. Point(f.text) \in Nat
    BY PointFacts, LenProperties DEF Reading
  <2>2. Before(f) \in 0..Point(f.text) - 1
    BY ReadingTyped
  <2> QED
    BY <2>1, <2>2
<1>2. SUFFICES ASSUME T # {} PROVE FALSE
  <2>1. SUFFICES ASSUME Whole(c.text) = Whole(e.text) PROVE FALSE
    OBVIOUS
  <2>2. Alike(c, e) /\ Left(c) \in Nat
    BY <2>1, <1>1
  <2> HIDE DEF Alike, Left
  <2> QED
    BY <1>2, <2>2
<1>3. PICK m \in T : \A l \in T : m <= l
  <2>1. T \subseteq Nat
    OBVIOUS
  <2> HIDE DEF T
  <2> QED
    BY <1>2, <2>1, LeastElement
<1>4. PICK f \in Cursors : \E g \in Cursors : Alike(f, g) /\ m = Left(f)
  <2> HIDE DEF Alike, Left
  <2> QED
    BY <1>3
<1>5. PICK g \in Cursors : Alike(f, g) /\ m = Left(f)
  BY <1>4
<1>6. PICK x, y, v : /\ x = NumberRead(f) /\ y = NumberRead(g) /\ x \in Nat /\ y \in Nat
                     /\ v = Whole(f.text) /\ v = Whole(g.text) /\ v \in Nat
                     /\ Related(x, y)
  BY <1>5, ReadingTyped
<1>7. /\ IsEnd(f.ch) => v = x
      /\ IsEnd(g.ch) => v = y
  BY <1>5, <1>6, ReadingTyped
<1>8. /\ ~IsEnd(f.ch) => f.ch - Zero \in 0..9 /\ v >= 10 * x + (f.ch - Zero)
      /\ ~IsEnd(g.ch) => g.ch - Zero \in 0..9 /\ v >= 10 * y + (g.ch - Zero)
  <2>1. \A h \in Cursors : Reading(h) /\ ~IsEnd(h.ch) => h.ch - Zero \in 0..9
    BY ReadingTyped, DigitFacts
  <2> QED
    BY <2>1, <1>5, <1>6, WholeAtLeast
<1>9. CASE IsEnd(f.ch) \/ IsEnd(g.ch)
  <2>1. PICK d, h : d = f.ch - Zero /\ h = g.ch - Zero
    OBVIOUS
  <2>2. /\ IsEnd(f.ch) => v = x
        /\ IsEnd(g.ch) => v = y
        /\ ~IsEnd(f.ch) => d \in 0..9 /\ v >= 10 * x + d
        /\ ~IsEnd(g.ch) => h \in 0..9 /\ v >= 10 * y + h
    BY <1>7, <1>8, <2>1
  <2>3. x \in Nat /\ y \in Nat /\ v \in Nat /\ x # y /\ x < 10 * y /\ y < 10 * x
    BY <1>6 DEF Related
  <2> QED
    BY ONLY <2>2, <2>3, <1>9
<1>10. CASE ~IsEnd(f.ch) /\ ~IsEnd(g.ch)
  <2>1. PICK h \in Cursors : /\ h = GetNext(f) /\ Reading(h) /\ h.text = f.text
                             /\ NumberRead(h) = 10 * x + (f.ch - Zero)
                             /\ Before(h) > Before(f)
    BY <1>5, <1>6, <1>10, NextRead
  <2>2. PICK i \in Cursors : /\ i = GetNext(g) /\ Reading(i) /\ i.text = g.text
                             /\ NumberRead(i) = 10 * y + (g.ch - Zero)
    BY <1>5, <1>6, <1>10, NextRead
  <2>3. Related(NumberRead(h), NumberRead(i))
    BY <1>6, <1>8, <1>10, <2>1, <2>2, StaysRelated
  <2>4. Alike(h, i)
    BY <1>6, <2>1, <2>2, <2>3
  <2>5. Left(h) \in Nat /\ Left(h) < m
    <3>1. PICK p : p = Point(f.text) /\ p \in Nat
      BY <1>5, PointFacts, LenProperties DEF Reading
    <3>2. Before(f) \in 0..p - 1 /\ Before(h) \in 0..p - 1
      BY <1>5, <2>1, <3>1, ReadingTyped
    <3> QED
      BY <1>5, <2>1, <3>1, <3>2
  <2>6. Left(h) \in T
    <3> HIDE DEF Alike, Left
    <3> QED
      BY <2>4, <2>5
  <2>7. m <= Left(h) /\ m \in Nat
    BY <1>3, <2>6
  <2> HIDE DEF T, Left
  <2> QED
    BY <2>5, <2>7
<1> QED
  BY <1>9, <1>10

-------------------------------------------------------------------------------
(* Products, which the provers multiply out, and do not estimate.          *)
LEMMA ProductGrows ==
  ASSUME NEW a \in Nat, NEW b \in Nat, NEW c \in Nat
  PROVE  /\ a * c \in Nat
         /\ a < b /\ c # 0 => a * c < b * c
         /\ a <= b => a * c <= b * c
<1>1. \A x, y \in Nat : x * y \in Nat /\ (x # 0 /\ y # 0 => x * y # 0)
  OBVIOUS
<1>2. ASSUME a <= b
      PROVE  /\ b * c - a * c \in Nat
             /\ a < b /\ c # 0 => b * c - a * c # 0
  <2>1. PICK d \in Nat : d = b - a
    BY <1>2
  <2>2. b * c - a * c = d * c
    BY <2>1
  <2> QED
    BY <1>1, <2>1, <2>2
<1>3. PICK x, y : x = a * c /\ y = b * c /\ x \in Nat /\ y \in Nat
  BY <1>1
<1> QED
  BY <1>2, <1>3

(* Each place multiplies the scale by ten.                                 *)
LEMMA PowersTyped ==
  ASSUME NEW text \in Seq(Chars)
  PROVE  \A j \in 0..Places(text) : Power(text, j) \in Nat \ {0}
<1>1. PICK m \in Nat : m = Places(text)
  BY PowerFacts
<1> DEFINE T == {j \in 0..m : Power(text, j) \in Nat \ {0}}
<1>2. 0 \in T
  BY PowerFacts
<1>3. \A j \in 1..m : j - 1 \in T => j \in T
  <2> SUFFICES ASSUME NEW j \in 1..m, j - 1 \in T PROVE j \in T
    OBVIOUS
  <2>1. PICK v \in Nat \ {0} : v = Power(text, j - 1)
    OBVIOUS
  <2>2. Power(text, j) = 10 * v
    BY <1>1, <2>1, PowerFacts
  <2> QED
    BY <2>1, <2>2
<1>4. 0..m \subseteq T
  <2> HIDE DEF T
  <2> QED
    BY ONLY <1>1, <1>2, <1>3, StepByStep
<1> QED
  BY <1>1, <1>4

(* A number in two parts: what was read before a place, and the rest, of   *)
(* which there is none if it is all zeros.                                 *)
Splits(text, q, value, power) ==
  \E w \in Nat \ {0} : \E rest \in 0..w - 1 :
    /\ Absolute(text) = value * w + rest
    /\ Scale(text) = power * w
    /\ rest = 0 <=> \A i \in q + 1..Len(text) : text[i] = Zero

LEMMA FractionSplits ==
  ASSUME NEW text \in Seq(Chars), Documented(text), Point(text) <= Len(text),
         NEW j \in 0..Places(text)
  PROVE  Splits(text, Point(text) + j, Value(text, Point(text) + j), Power(text, j))
<1>1. PICK n, p, m : /\ n = Len(text) /\ n \in Nat /\ p = Point(text) /\ p \in 1..n
                     /\ m = Places(text) /\ m = n - p /\ m \in Nat
  BY LenProperties, PointFacts DEF Places
<1>2. PICK v, u : v = Value(text, p + j) /\ v \in Nat /\ u = Power(text, j) /\ u \in Nat
  <2>1. p + j \in 0..n
    BY <1>1
  <2> QED
    BY <1>1, <2>1, ValueSteps, PowersTyped
<1> DEFINE Blank(i) == \A k \in p + j + 1..p + i : text[k] = Zero
           Reached(i) == \E w \in Nat \ {0} : \E rest \in 0..w - 1 :
                           /\ Value(text, p + i) = v * w + rest
                           /\ Power(text, i) = u * w
                           /\ rest = 0 <=> Blank(i)
           T == {k \in 0..m - j : Reached(j + k)}
<1>3. Reached(j)
  <2>1. Blank(j)
    BY <1>1
  <2>2. v = v * 1 + 0 /\ u = u * 1 /\ 1 \in Nat \ {0} /\ 0 \in 0..1 - 1
    BY <1>2
  <2> HIDE DEF Blank
  <2> QED
    BY ONLY <1>2, <2>1, <2>2
<1>4. ASSUME NEW i \in j + 1..m, Reached(i - 1)
      PROVE  Reached(i)
  <2>1. PICK w \in Nat \ {0} : \E rest \in 0..w - 1 :
          /\ Value(text, p + (i - 1)) = v * w + rest
          /\ Power(text, i - 1) = u * w
          /\ rest = 0 <=> Blank(i - 1)
    BY <1>4
  <2>2. PICK rest \in 0..w - 1 :
          /\ Value(text, p + (i - 1)) = v * w + rest
          /\ Power(text, i - 1) = u * w
          /\ rest = 0 <=> Blank(i - 1)
    BY <2>1
  <2>2a. rest \in Nat /\ w \in Nat \ {0} /\ rest <= w - 1
    BY <2>1, <2>2
  <2>3. PICK q : q = p + i /\ p + (i - 1) = q - 1 /\ q \in p + 1..n /\ q \in 1..n
    BY <1>1
  <2>4. text[q] \in Digits
    BY <1>1, <2>3, DocumentedChars
  <2>5. PICK d : d = text[q] - Zero /\ d \in 0..9 /\ (d = 0 <=> text[q] = Zero)
    BY <2>4, DigitFacts
  <2>6. Value(text, q) = 10 * Value(text, q - 1) + d
    BY <1>1, <2>3, <2>4, <2>5, ValueSteps
  <2>7. Power(text, i) = 10 * Power(text, i - 1)
    <3>1. i \in 1..m
      BY <1>1
    <3> QED
      BY <3>1, <1>1, PowerFacts
  <2>8. PICK z, r : z = 10 * w /\ r = 10 * rest + d
    OBVIOUS
  <2>9. z \in Nat \ {0} /\ r \in 0..z - 1 /\ (r = 0 <=> rest = 0 /\ d = 0)
    <3>1. d \in Nat /\ d <= 9
      BY ONLY <2>5
    <3>2. z \in Nat \ {0} /\ r \in Nat
      BY ONLY <2>2a, <2>8, <3>1
    <3>3. r <= z - 1
      BY ONLY <2>2a, <2>8, <3>1
    <3>4. r = 0 <=> rest = 0 /\ d = 0
      BY ONLY <2>2a, <2>8, <3>1
    <3> QED
      BY ONLY <3>2, <3>3, <3>4
  <2>10. Value(text, p + i) = v * z + r
    <3>1. 10 * (v * w + rest) + d = v * (10 * w) + (10 * rest + d)
      <4>1. v \in Nat /\ w \in Nat /\ rest \in Nat /\ d \in Nat
        BY ONLY <1>2, <2>2a, <2>5
      <4> QED
        BY ONLY <4>1
    <3> QED
      BY ONLY <3>1, <2>2, <2>3, <2>6, <2>8
  <2>11. Power(text, i) = u * z
    <3>1. 10 * (u * w) = u * (10 * w)
      BY ONLY <1>2, <2>1
    <3> QED
      BY ONLY <3>1, <2>2, <2>7, <2>8
  <2>12. Blank(i) <=> Blank(i - 1) /\ text[q] = Zero
    <3>0. p \in Nat /\ j \in Nat /\ i \in Nat /\ j + 1 <= i /\ q = p + i
      BY <1>1, <2>3
    <3>1. \A k \in p + j + 1..p + i : k = q \/ k \in p + j + 1..p + (i - 1)
      BY ONLY <3>0
    <3>2. q \in p + j + 1..p + i
      BY ONLY <3>0
    <3>3. \A k \in p + j + 1..p + (i - 1) : k \in p + j + 1..p + i
      BY ONLY <3>0
    <3> QED
      BY ONLY <3>1, <3>2, <3>3
  <2>13. r = 0 <=> Blank(i)
    <3> HIDE DEF Blank
    <3> QED
      BY ONLY <2>2, <2>5, <2>9, <2>12
  <2> HIDE DEF Blank
  <2> QED
    BY ONLY <2>9, <2>10, <2>11, <2>13
<1>5. 0..m - j \subseteq T
  <2>1. m - j \in Nat /\ j \in Nat /\ j + 0 = j
    BY <1>1
  <2>2. 0 \in T
    <3> HIDE DEF Reached
    <3> QED
      BY <1>3, <2>1
  <2>3. \A k \in 1..m - j : k - 1 \in T => k \in T
    <3> SUFFICES ASSUME NEW k \in 1..m - j, k - 1 \in T PROVE k \in T
      OBVIOUS
    <3>1. PICK i : i = j + k
      OBVIOUS
    <3>2. i \in j + 1..m /\ j + (k - 1) = i - 1 /\ k \in 0..m - j
      BY <1>1, <2>1, <3>1
    <3>3. Reached(j + (k - 1))
      OBVIOUS
    <3> HIDE DEF Reached
    <3>4. Reached(i - 1)
      BY ONLY <3>2, <3>3
    <3>5. Reached(i)
      BY ONLY <3>2, <3>4, <1>4
    <3> QED
      BY ONLY <3>1, <3>2, <3>5
  <2> HIDE DEF T
  <2> QED
    BY ONLY <2>1, <2>2, <2>3, StepByStep
<1>6. Reached(m)
  <2>1. m - j \in 0..m - j /\ j + (m - j) = m
    BY <1>1
  <2>2. m - j \in T
    BY <2>1, <1>5
  <2>3. Reached(j + (m - j))
    BY <2>2
  <2> HIDE DEF Reached
  <2> QED
    BY ONLY <2>1, <2>3
<1>7. Absolute(text) = Value(text, p + m) /\ Scale(text) = Power(text, m)
  <2>1. p + m = n
    BY <1>1
  <2> QED
    BY <1>1, <2>1, ValueFacts, PowerFacts
<1>8. PICK w \in Nat \ {0} : \E rest \in 0..w - 1 :
        /\ Absolute(text) = v * w + rest
        /\ Scale(text) = u * w
        /\ rest = 0 <=> Blank(m)
  BY <1>6, <1>7
<1>9. Blank(m) <=> \A i \in p + j + 1..Len(text) : text[i] = Zero
  BY <1>1
<1> HIDE DEF Blank
<1>10. Splits(text, p + j, v, u)
  BY ONLY <1>8, <1>9 DEF Splits
<1> QED
  BY ONLY <1>1, <1>2, <1>10

LEMMA WholeSplits ==
  ASSUME NEW text \in Seq(Chars), Documented(text)
  PROVE  Splits(text, Point(text), Whole(text), 1)
<1>1. PICK n, p : n = Len(text) /\ n \in Nat /\ p = Point(text) /\ p \in 1..n + 1
  BY LenProperties, PointFacts
<1>2. CASE p <= n
  <2>1. 0 \in 0..Places(text) /\ p + 0 = p
    BY <1>1, PowerFacts
  <2>2. Splits(text, p, Value(text, p), 1)
    BY <1>1, <1>2, <2>1, FractionSplits, PowerFacts
  <2>3. Value(text, p) = Value(text, p - 1)
    <3>1. p \in 1..n /\ text[p] = Dot
      BY <1>1, <1>2, PointFacts
    <3>2. Dot \notin Digits
      BY DigitFacts DEF Skipped
    <3> QED
      BY <1>1, <3>1, <3>2, ValueSteps
  <2> QED
    BY <1>1, <2>2, <2>3 DEF Whole
<1>3. CASE ~(p <= n)
  <2>1. p = n + 1 /\ p - 1 = n
    BY <1>1, <1>3
  <2>2. Places(text) = 0
    BY <1>1, <1>3 DEF Places
  <2>3. PICK a : a = Absolute(text) /\ a = Whole(text) /\ a \in Nat
    <3>1. Value(text, n) \in Nat
      <4>1. n \in 0..n
        BY <1>1
      <4> QED
        BY <4>1, <1>1, ValueSteps
    <3> QED
      BY <1>1, <2>1, <3>1, ValueFacts DEF Whole
  <2>4. Scale(text) = 1
    BY <2>2, PowerFacts
  <2>5. /\ 1 \in Nat \ {0} /\ 0 \in 0..1 - 1
        /\ a = a * 1 + 0 /\ 1 = 1 * 1
    BY <2>3
  <2>6. \A i \in p + 1..Len(text) : text[i] = Zero
    BY <1>1, <2>1
  <2>7. 0 = 0 <=> \A i \in p + 1..Len(text) : text[i] = Zero
    BY <2>6
  <2>8. Splits(text, p, a, 1)
    BY ONLY <2>3, <2>4, <2>5, <2>7 DEF Splits
  <2> QED
    BY <1>1, <2>3, <2>8
<1> QED
  BY <1>2, <1>3

-------------------------------------------------------------------------------
(* Which of two numbers is the lower one, without regard to their signs.   *)
Lower(l, r) == Absolute(l) * Scale(r) < Absolute(r) * Scale(l)
Same(l, r) == Absolute(l) * Scale(r) = Absolute(r) * Scale(l)

(* The beginnings decide, if they differ.                                  *)
LEMMA BeginningsDecide ==
  ASSUME NEW l, NEW r, NEW q, NEW s, NEW a \in Nat, NEW b \in Nat, NEW k \in Nat \ {0},
         Splits(l, q, a, k), Splits(r, s, b, k), a < b
  PROVE  Lower(l, r) /\ ~Lower(r, l) /\ ~Same(l, r) /\ ~Same(r, l)
<1>1. PICK w \in Nat \ {0} : \E x \in 0..w - 1 : Absolute(l) = a * w + x /\ Scale(l) = k * w
  BY Zenon DEF Splits
<1>2. PICK x \in 0..w - 1 : Absolute(l) = a * w + x /\ Scale(l) = k * w
  BY <1>1
<1>3. PICK z \in Nat \ {0} : \E y \in 0..z - 1 : Absolute(r) = b * z + y /\ Scale(r) = k * z
  BY Zenon DEF Splits
<1>4. PICK y \in 0..z - 1 : Absolute(r) = b * z + y /\ Scale(r) = k * z
  BY <1>3
<1>5. /\ w \in Nat \ {0} /\ x \in Nat /\ x <= w - 1
      /\ z \in Nat \ {0} /\ y \in Nat
  BY <1>1, <1>2, <1>3, <1>4
<1>6. PICK m, n, i, j : m = a * w + x /\ n = b * z + y /\ i = k * w /\ j = k * z
  OBVIOUS
<1>7. i \in Nat \ {0} /\ j \in Nat \ {0} /\ m \in Nat /\ n \in Nat
  <2>1. k * w \in Nat \ {0} /\ k * z \in Nat \ {0} /\ a * w \in Nat /\ b * z \in Nat
    BY ONLY <1>5, k \in Nat \ {0}, a \in Nat, b \in Nat
  <2> QED
    BY ONLY <2>1, <1>5, <1>6
<1>8. PICK t, u : t = b * w /\ u = b * z /\ t \in Nat /\ u \in Nat
  <2>1. b * w \in Nat /\ b * z \in Nat
    BY <1>5, ProductGrows
  <2> QED
    BY <2>1
<1>9. m < t
  <2>1. (a + 1) * w <= b * w
    <3>1. a + 1 \in Nat /\ a + 1 <= b /\ w \in Nat
      BY <1>5
    <3> QED
      BY <3>1, ProductGrows
  <2>2. (a + 1) * w = a * w + w
    BY ONLY <1>5, a \in Nat
  <2>3. PICK v : v = a * w /\ v \in Nat
    BY <1>5, ProductGrows
  <2>4. v + w <= t /\ m = v + x
    BY <1>6, <1>8, <2>1, <2>2, <2>3
  <2> QED
    BY ONLY <1>5, <1>8, <2>3, <2>4
<1>10. m * j < t * j
  BY <1>7, <1>8, <1>9, ProductGrows
<1>11. u * i <= n * i
  <2>1. u <= n
    BY ONLY <1>5, <1>6, <1>8
  <2> QED
    BY <1>7, <1>8, <2>1, ProductGrows
<1>12. t * j = u * i
  BY ONLY <1>5, <1>6, <1>8, k \in Nat, b \in Nat
<1>13. PICK d, e, f : d = m * j /\ e = n * i /\ f = t * j /\ d \in Nat /\ e \in Nat /\ f \in Nat
  BY <1>7, <1>8, ProductGrows
<1>14. d < e
  BY ONLY <1>10, <1>11, <1>12, <1>13
<1>15. Absolute(l) * Scale(r) = d /\ Absolute(r) * Scale(l) = e
  BY <1>2, <1>4, <1>6, <1>13
<1>16. ~(e < d) /\ d # e
  BY ONLY <1>13, <1>14
<1> QED
  BY ONLY <1>14, <1>15, <1>16 DEF Lower, Same

(* If they do not, and there is nothing but zeros in what is left of one   *)
(* of the two, it depends on whether there is more in the other one.       *)
LEMMA RestsDecide ==
  ASSUME NEW l, NEW r, NEW q, NEW s, NEW a \in Nat, NEW k \in Nat \ {0},
         Splits(l, q, a, k), Splits(r, s, a, k),
         NEW left, NEW right,
         left = (\A i \in q + 1..Len(l) : l[i] = Zero),
         right = (\A i \in s + 1..Len(r) : r[i] = Zero)
  PROVE  /\ left => (Lower(l, r) <=> ~right) /\ (Same(l, r) <=> right)
         /\ right => ~Lower(l, r) /\ (Same(l, r) <=> left)
<1>1. PICK w \in Nat \ {0} : \E x \in 0..w - 1 :
        Absolute(l) = a * w + x /\ Scale(l) = k * w /\ (x = 0 <=> left)
  BY Zenon DEF Splits
<1>2. PICK x \in 0..w - 1 : Absolute(l) = a * w + x /\ Scale(l) = k * w /\ (x = 0 <=> left)
  BY <1>1
<1>3. PICK z \in Nat \ {0} : \E y \in 0..z - 1 :
        Absolute(r) = a * z + y /\ Scale(r) = k * z /\ (y = 0 <=> right)
  BY Zenon DEF Splits
<1>4. PICK y \in 0..z - 1 : Absolute(r) = a * z + y /\ Scale(r) = k * z /\ (y = 0 <=> right)
  BY <1>3
<1>5. w \in Nat \ {0} /\ x \in Nat /\ z \in Nat \ {0} /\ y \in Nat
  BY <1>1, <1>2, <1>3, <1>4
<1>6. PICK i, j, c : i = k * w /\ j = k * z /\ c = a * w * (k * z)
  OBVIOUS
<1>7. i \in Nat \ {0} /\ j \in Nat \ {0} /\ c \in Nat
  <2>1. k * w \in Nat \ {0} /\ k * z \in Nat \ {0} /\ a * w \in Nat
    BY ONLY <1>5, k \in Nat \ {0}, a \in Nat
  <2>2. a * w * (k * z) \in Nat
    BY <2>1, ProductGrows
  <2> QED
    BY ONLY <2>1, <2>2, <1>6
<1>8. PICK f, g : f = x * j /\ g = y * i /\ f \in Nat /\ g \in Nat
  BY <1>5, <1>7, ProductGrows
<1>9. (f = 0 <=> x = 0) /\ (g = 0 <=> y = 0)
  BY ONLY <1>5, <1>7, <1>8
<1>10. Absolute(l) * Scale(r) = c + f
  <2>1. (a * w + x) * (k * z) = a * w * (k * z) + x * (k * z)
    BY ONLY <1>5, a \in Nat, k \in Nat
  <2> QED
    BY <2>1, <1>2, <1>4, <1>6, <1>8
<1>11. Absolute(r) * Scale(l) = c + g
  <2>1. (a * z + y) * (k * w) = a * w * (k * z) + y * (k * w)
    BY ONLY <1>5, a \in Nat, k \in Nat
  <2> QED
    BY <2>1, <1>2, <1>4, <1>6, <1>8
<1>12. (Lower(l, r) <=> f < g) /\ (Same(l, r) <=> f = g)
  <2>1. (Lower(l, r) <=> c + f < c + g) /\ (Same(l, r) <=> c + f = c + g)
    BY ONLY <1>10, <1>11 DEF Lower, Same
  <2> QED
    BY ONLY <2>1, <1>7, <1>8
<1>13. (f = 0 <=> left) /\ (g = 0 <=> right)
  BY ONLY <1>2, <1>4, <1>9
<1>14. (f = 0 => (f < g <=> g # 0) /\ (f = g <=> g = 0)) /\ (g = 0 => ~(f < g) /\ (f = g <=> f = 0))
  BY ONLY <1>8
<1> QED
  BY ONLY <1>12, <1>13, <1>14

-------------------------------------------------------------------------------
(* Signs.                                                                  *)
LEMMA NumberTyped ==
  ASSUME NEW text \in Seq(Chars), Documented(text)
  PROVE  Absolute(text) \in Nat /\ Scale(text) \in Nat \ {0}
<1>1. Len(text) \in 0..Len(text) /\ Places(text) \in 0..Places(text)
  BY LenProperties, PowerFacts
<1> QED
  BY <1>1, ValueFacts, ValueSteps, PowerFacts, PowersTyped

(* A number is not zero if it has a digit that is not.                     *)
LEMMA NonZeroExact ==
  ASSUME NEW text \in Seq(Chars), Documented(text), NEW c, c = TrimLeadingSign(text)
  PROVE  NonZero(c) <=> Absolute(text) # 0
<1>1. PICK n, p : n = Len(text) /\ n \in Nat /\ p = Point(text) /\ p \in 1..n + 1
  BY LenProperties, PointFacts
<1>2. /\ c \in Cursors /\ c.text = text /\ c.pos \in 1..n + 1
      /\ \A i \in 1..c.pos - 1 : text[i] = Minus
      /\ c.pos = 1 /\ 1 <= n => text[1] # Minus
  BY <1>1, SignFacts
<1>3. PICK k : k = c.pos
  OBVIOUS
<1>4. PICK r : r = SkipTo(text, k, {Zero, Comma, Dot})
  OBVIOUS
<1>5. /\ r \in k..n + 1
      /\ \A i \in k..r - 1 : text[i] \in {Zero, Comma, Dot}
      /\ r = n + 1 \/ text[r] \notin {Zero, Comma, Dot}
  BY <1>1, <1>2, <1>3, <1>4, SkipToFinds
<1>6. NonZero(c) <=> CharAt(text, r) # STR_END
  BY <1>2, <1>3, <1>4 DEF NonZero
<1>7. Absolute(text) = Value(text, n)
  BY <1>1, ValueFacts
<1>8. CASE r = n + 1
  <2>1. CharAt(text, r) = STR_END
    BY <1>1, <1>8 DEF CharAt
  <2>2. \A i \in 0 + 1..n : text[i] \in Skipped \cup {Zero}
    <3>1. \A i \in 0 + 1..n : i \in 1..k - 1 \/ i \in k..r - 1
      BY <1>1, <1>2, <1>3, <1>8
    <3> QED
      BY <3>1, <1>2, <1>3, <1>5 DEF Skipped
  <2>3. Value(text, 0) = 0 /\ 0 \in 0..Len(text) /\ n \in 0..Len(text)
    BY <1>1, ValueFacts
  <2>4. Value(text, n) = 0
    BY <2>2, <2>3, ValuesGrow
  <2> QED
    BY <1>6, <1>7, <2>1, <2>4
<1>9. CASE r # n + 1
  <2>1. r \in 1..n /\ r >= k /\ k \in 1..n + 1
    BY <1>1, <1>2, <1>3, <1>5, <1>9
  <2>2. text[r] \in Digits
    <3>1. r # p
      BY <1>1, <1>5, <1>9, <2>1, PointFacts
    <3>2. CASE r < p
      <4>1. r \in 1..p - 1
        BY <1>1, <2>1, <3>2
      <4>2. text[r] \in Digits \cup {Comma} \/ (r = 1 /\ text[r] = Minus)
        BY <1>1, <4>1, DocumentedChars
      <4>3. r = 1 => text[r] # Minus
        BY <1>1, <1>2, <1>3, <2>1
      <4> QED
        BY <4>2, <4>3, <1>5, <1>9
    <3>3. CASE r > p
      <4>1. r \in p + 1..n
        BY <1>1, <2>1, <3>3
      <4> QED
        BY <1>1, <4>1, DocumentedChars
    <3> QED
      BY <1>1, <2>1, <3>1, <3>2, <3>3
  <2>3. CharAt(text, r) = text[r] /\ text[r] # STR_END /\ text[r] # Zero
    BY <1>1, <1>5, <1>9, <2>1, <2>2, DigitFacts DEF CharAt
  <2>4. PICK d : d = text[r] - Zero /\ d \in 0..9 /\ d # 0
    BY <2>2, <2>3, DigitFacts
  <2>5. Value(text, r) = 10 * Value(text, r - 1) + d
    BY <1>1, <2>1, <2>2, <2>4, ValueSteps
  <2>6. Value(text, r - 1) \in Nat /\ Value(text, r) \in Nat /\ Value(text, n) \in Nat
    <3>1. r - 1 \in 0..n /\ r \in 0..n /\ n \in 0..n
      BY <1>1, <2>1
    <3> QED
      BY <1>1, <3>1, ValueSteps
  <2>7. Value(text, r) <= Value(text, n)
    <3>1. r \in 0..Len(text) /\ n \in r..Len(text)
      BY <1>1, <2>1
    <3> QED
      BY <3>1, ValuesGrow
  <2>8. Value(text, n) # 0
    BY ONLY <2>4, <2>5, <2>6, <2>7
  <2> QED
    BY <1>6, <1>7, <2>3, <2>8
<1> QED
  BY <1>8, <1>9

LEMMA ProductNegated ==
  ASSUME NEW a \in Nat, NEW b \in Nat
  PROVE  (-a) * b = -(a * b)
  OBVIOUS

(* The order and the equality of the signed numbers.                       *)
Negative(text) == CharAt(text, 1) = Minus
Precedes(l, r) == Unscaled(l) * Scale(r) < Unscaled(r) * Scale(l)
Equals(l, r) == Unscaled(l) * Scale(r) = Unscaled(r) * Scale(l)

LEMMA SignsDiffer ==
  ASSUME NEW l \in Seq(Chars), NEW r \in Seq(Chars), Documented(l), Documented(r),
         Negative(l) # Negative(r)
  PROVE  /\ Precedes(l, r) <=> Negative(l) /\ ~(Absolute(l) = 0 /\ Absolute(r) = 0)
         /\ Equals(l, r) <=> Absolute(l) = 0 /\ Absolute(r) = 0
<1>1. PICK a, b, s, t : /\ a = Absolute(l) /\ b = Absolute(r) /\ s = Scale(l) /\ t = Scale(r)
                        /\ a \in Nat /\ b \in Nat /\ s \in Nat \ {0} /\ t \in Nat \ {0}
  BY NumberTyped
<1>2. PICK x, y : x = a * t /\ y = b * s /\ x \in Nat /\ y \in Nat
                  /\ (x = 0 <=> a = 0) /\ (y = 0 <=> b = 0)
  <2>1. a * t \in Nat /\ b * s \in Nat /\ (a * t = 0 <=> a = 0) /\ (b * s = 0 <=> b = 0)
    BY ONLY <1>1
  <2> QED
    BY <2>1
<1>3. (-a) * t = -x /\ (-b) * s = -y
  BY <1>1, <1>2, ProductNegated
<1>4. CASE Negative(l) /\ ~Negative(r)
  <2>1. Unscaled(l) = -a /\ Unscaled(r) = b
    BY <1>1, <1>4 DEF Unscaled, Negative
  <2>2. (Precedes(l, r) <=> -x < y) /\ (Equals(l, r) <=> -x = y)
    BY <1>1, <1>2, <1>3, <2>1 DEF Precedes, Equals
  <2> QED
    <3>1. /\ -x < y <=> ~(x = 0 /\ y = 0)
          /\ -x = y <=> x = 0 /\ y = 0
      BY ONLY <1>2
    <3> QED
      BY <3>1, <1>1, <1>2, <1>4, <2>2
<1>5. CASE ~Negative(l) /\ Negative(r)
  <2>1. Unscaled(l) = a /\ Unscaled(r) = -b
    BY <1>1, <1>5 DEF Unscaled, Negative
  <2>2. (Precedes(l, r) <=> x < -y) /\ (Equals(l, r) <=> x = -y)
    BY <1>1, <1>2, <1>3, <2>1 DEF Precedes, Equals
  <2> QED
    <3>1. /\ ~(x < -y)
          /\ x = -y <=> x = 0 /\ y = 0
      BY ONLY <1>2
    <3> QED
      BY <3>1, <1>1, <1>2, <1>5, <2>2
<1>6. Negative(l) \in BOOLEAN /\ Negative(r) \in BOOLEAN
  BY DEF Negative
<1> QED
  BY ONLY <1>4, <1>5, <1>6, Negative(l) # Negative(r)

LEMMA SignsAgree ==
  ASSUME NEW l \in Seq(Chars), NEW r \in Seq(Chars), Documented(l), Documented(r),
         Negative(l) = Negative(r)
  PROVE  /\ Precedes(l, r) <=> IF Negative(l) THEN Lower(r, l) ELSE Lower(l, r)
         /\ Equals(l, r) <=> Same(l, r)
         /\ Same(l, r) <=> Same(r, l)
<1>1. PICK a, b, s, t : /\ a = Absolute(l) /\ b = Absolute(r) /\ s = Scale(l) /\ t = Scale(r)
                        /\ a \in Nat /\ b \in Nat /\ s \in Nat \ {0} /\ t \in Nat \ {0}
  BY NumberTyped
<1>2. PICK x, y : x = a * t /\ y = b * s /\ x \in Nat /\ y \in Nat
  <2>1. a * t \in Nat /\ b * s \in Nat
    BY ONLY <1>1
  <2> QED
    BY <2>1
<1>3. (-a) * t = -x /\ (-b) * s = -y
  BY <1>1, <1>2, ProductNegated
<1>4. /\ Lower(l, r) <=> x < y
      /\ Lower(r, l) <=> y < x
      /\ Same(l, r) <=> x = y
      /\ Same(r, l) <=> y = x
  BY ONLY <1>1, <1>2 DEF Lower, Same
<1>5. CASE Negative(l)
  <2>1. Unscaled(l) = -a /\ Unscaled(r) = -b
    BY <1>1, <1>5 DEF Unscaled, Negative
  <2>2. (Precedes(l, r) <=> -x < -y) /\ (Equals(l, r) <=> -x = -y)
    BY <1>1, <1>2, <1>3, <2>1 DEF Precedes, Equals
  <2> QED
    BY ONLY <1>2, <1>4, <1>5, <2>2
<1>6. CASE ~Negative(l)
  <2>1. Unscaled(l) = a /\ Unscaled(r) = b
    BY <1>1, <1>6 DEF Unscaled, Negative
  <2>2. (Precedes(l, r) <=> x < y) /\ (Equals(l, r) <=> x = y)
    BY <1>1, <1>2, <2>1 DEF Precedes, Equals
  <2> QED
    BY ONLY <1>2, <1>4, <1>6, <2>2
<1> QED
  BY <1>5, <1>6

-------------------------------------------------------------------------------
(* ComparesValues is not inductive: what the cursors have read of the two  *)
(* numbers, and what follows from it for their order, has to be known in   *)
(* every phase.                                                            *)
Swapped == Compares /\ Negative(call.left)
Operands ==
  /\ Negative(call.left) = Negative(call.right)
  /\ lhs.text = IF Swapped THEN call.right ELSE call.left
  /\ rhs.text = IF Swapped THEN call.left ELSE call.right

(* The same digits so far, and not zero if the next ones are to count.     *)
SameRead ==
  /\ Reading(lhs) /\ Reading(rhs)
  /\ NumberRead(lhs) = NumberRead(rhs)
  /\ NumberRead(lhs) = 0 => lhs.ch # Zero /\ rhs.ch # Zero

(* As many digits so far, and left_leaning says which of them are greater. *)
OtherRead ==
  /\ Compares
  /\ Reading(lhs) /\ Reading(rhs)
  /\ Related(NumberRead(lhs), NumberRead(rhs))
  /\ left_leaning = (NumberRead(lhs) > NumberRead(rhs))

(* The same digits up to the j-th place after the point.                   *)
SameUpTo(j) ==
  /\ lhs.pos = Point(lhs.text) + j + 1 /\ rhs.pos = Point(rhs.text) + j + 1
  /\ j <= Places(lhs.text) /\ j <= Places(rhs.text)
  /\ Value(lhs.text, Point(lhs.text) + j) = Value(rhs.text, Point(rhs.text) + j)
  /\ Power(lhs.text, j) = Power(rhs.text, j)
SamePlaces ==
  /\ Point(lhs.text) <= Len(lhs.text) /\ Point(rhs.text) <= Len(rhs.text)
  /\ \E j \in Nat : SameUpTo(j)

BothDocumented == Documented(call.left) /\ Documented(call.right)
ReadAlike ==
  BothDocumented =>
    /\ phase = "signs" => lhs = TrimLeadingSign(call.left) /\ rhs = TrimLeadingSign(call.right)
    /\ phase \in {"digits", "longer", "fraction"} => Operands
    /\ phase = "digits" => SameRead
    /\ phase = "longer" => OtherRead
    /\ phase = "fraction" => SamePlaces

Judged == ComparesValues /\ ReadAlike

-------------------------------------------------------------------------------
(* A result as it should be.                                               *)
Expected(k) ==
  Documented(k.call.left) /\ Documented(k.call.right) =>
    k.result = IF k.call.op = "compare" THEN Precedes(k.call.left, k.call.right)
               ELSE Equals(k.call.left, k.call.right)

LEMMA ComparesValuesIs == ComparesValues <=> \A k \in known : Expected(k)
  BY Zenon DEF ComparesValues, Expected, Precedes, Equals

LEMMA Answered ==
  ASSUME NEW result, Judged, Return(result),
         BothDocumented => result = IF Compares THEN Precedes(call.left, call.right)
                                    ELSE Equals(call.left, call.right)
  PROVE  Judged'
<1>1. PICK k : k = [call |-> call, result |-> result]
  OBVIOUS
<1>2. k.call = call /\ k.result = result /\ known' = known \cup {k}
  BY <1>1 DEF Return
<1>3. Expected(k)
  BY <1>2 DEF Expected, BothDocumented, Compares
<1>4. \A m \in known : Expected(m)
  BY ComparesValuesIs DEF Judged
<1>5. \A m \in known' : Expected(m)
  BY <1>2, <1>3, <1>4
<1>6. ComparesValues'
  BY <1>5, Zenon DEF ComparesValues, Expected, Precedes, Equals
<1>7. phase' = "idle"
  BY DEF Return
<1>8. ReadAlike'
  BY <1>7 DEF ReadAlike
<1> QED
  BY <1>6, <1>8 DEF Judged

(* What is not a result keeps the results.                                 *)
LEMMA Unanswered ==
  ASSUME Judged, UNCHANGED known
  PROVE  ComparesValues'
  BY DEF Judged, ComparesValues

(* The texts of the cursors are those of the call.                         *)
LEMMA OperandsTyped ==
  ASSUME Inv, BothDocumented, Operands
  PROVE  /\ lhs \in Cursors /\ rhs \in Cursors
         /\ lhs.text \in Seq(Chars) /\ rhs.text \in Seq(Chars)
         /\ Documented(lhs.text) /\ Documented(rhs.text)
         /\ call.left \in Seq(Chars) /\ call.right \in Seq(Chars)
<1>1. call.left \in Seq(Chars) /\ call.right \in Seq(Chars) /\ lhs \in Cursors /\ rhs \in Cursors
  BY DEF Inv, TypeOK, Calls
<1> QED
  BY <1>1 DEF BothDocumented, Operands

LEMMA OperandsAnswered ==
  ASSUME NEW result \in BOOLEAN, Inv, Judged, Return(result),
         BothDocumented => Operands,
         BothDocumented => (result <=> IF Compares THEN Lower(lhs.text, rhs.text)
                                       ELSE Same(lhs.text, rhs.text))
  PROVE  Judged'
<1>1. ASSUME BothDocumented
      PROVE  result = IF Compares THEN Precedes(call.left, call.right)
                      ELSE Equals(call.left, call.right)
  <2>1. PICK l, r : l = call.left /\ r = call.right
    OBVIOUS
  <2>2. l \in Seq(Chars) /\ r \in Seq(Chars) /\ Documented(l) /\ Documented(r)
        /\ Negative(l) = Negative(r)
    BY <1>1, <2>1, OperandsTyped DEF BothDocumented, Operands
  <2>3. /\ Precedes(l, r) <=> IF Negative(l) THEN Lower(r, l) ELSE Lower(l, r)
        /\ Equals(l, r) <=> Same(l, r)
    BY <2>2, SignsAgree
  <2>4. /\ lhs.text = IF Compares /\ Negative(l) THEN r ELSE l
        /\ rhs.text = IF Compares /\ Negative(l) THEN l ELSE r
    BY <1>1, <2>1 DEF Operands, Swapped
  <2>5. result <=> IF Compares THEN Lower(lhs.text, rhs.text) ELSE Same(lhs.text, rhs.text)
    BY <1>1
  <2>6. result <=> IF Compares THEN Precedes(l, r) ELSE Equals(l, r)
    <3>1. CASE Compares /\ Negative(l)
      BY <2>3, <2>4, <2>5, <3>1
    <3>2. CASE Compares /\ ~Negative(l)
      BY <2>3, <2>4, <2>5, <3>2
    <3>3. CASE ~Compares
      BY <2>3, <2>4, <2>5, <3>3
    <3> QED
      BY <3>1, <3>2, <3>3
  <2>7. Precedes(l, r) \in BOOLEAN /\ Equals(l, r) \in BOOLEAN
    BY DEF Precedes, Equals
  <2> QED
    BY <2>1, <2>6, <2>7
<1> QED
  BY <1>1, Answered

-------------------------------------------------------------------------------
LEMMA CallJudged == Inv /\ Judged /\ Call => Judged'
<1> SUFFICES ASSUME Inv, Judged, Call PROVE Judged'
  OBVIOUS
<1>1. PICK op \in {"compare", "equal"}, left \in Texts, right \in Texts :
        /\ call' = [op |-> op, left |-> left, right |-> right]
        /\ lhs' = TrimLeadingSign(left) /\ rhs' = TrimLeadingSign(right)
  BY DEF Call
<1>2. phase' = "signs" /\ call'.left = left /\ call'.right = right /\ UNCHANGED known
  BY <1>1 DEF Call
<1>3. ReadAlike'
  BY <1>1, <1>2 DEF ReadAlike
<1> QED
  BY <1>2, <1>3, Unanswered DEF Judged

LEMMA SignsTrimmed ==
  ASSUME Inv, Judged, phase = "signs", BothDocumented
  PROVE  /\ call.left \in Seq(Chars) /\ call.right \in Seq(Chars)
         /\ lhs = TrimLeadingSign(call.left) /\ rhs = TrimLeadingSign(call.right)
         /\ lhs.negative = Negative(call.left) /\ rhs.negative = Negative(call.right)
<1>1. call.left \in Seq(Chars) /\ call.right \in Seq(Chars)
  BY DEF Inv, TypeOK, Calls
<1>2. lhs = TrimLeadingSign(call.left) /\ rhs = TrimLeadingSign(call.right)
  BY DEF Judged, ReadAlike
<1>3. \A text : TrimLeadingSign(text).negative = Negative(text)
  BY DEF TrimLeadingSign, Negative
<1> QED
  BY <1>1, <1>2, <1>3

LEMMA DifferentSignsJudged == Inv /\ Judged /\ DifferentSigns => Judged'
<1> SUFFICES ASSUME Inv, Judged, DifferentSigns PROVE Judged'
  OBVIOUS
<1>1. PICK result : /\ result = (IF Compares THEN lhs.negative /\ ~BothZero(lhs, rhs)
                                 ELSE BothZero(lhs, rhs))
                    /\ Return(result)
  BY Zenon DEF DifferentSigns
<1>2. ASSUME BothDocumented
      PROVE  result = IF Compares THEN Precedes(call.left, call.right)
                      ELSE Equals(call.left, call.right)
  <2>1. PICK l, r : /\ l = call.left /\ r = call.right
                    /\ l \in Seq(Chars) /\ r \in Seq(Chars) /\ Documented(l) /\ Documented(r)
                    /\ lhs = TrimLeadingSign(l) /\ rhs = TrimLeadingSign(r)
                    /\ lhs.negative = Negative(l) /\ rhs.negative = Negative(r)
                    /\ Negative(l) # Negative(r)
    BY <1>2, SignsTrimmed DEF DifferentSigns, BothDocumented
  <2>2. (NonZero(lhs) <=> Absolute(l) # 0) /\ (NonZero(rhs) <=> Absolute(r) # 0)
    BY <2>1, NonZeroExact
  <2>3. BothZero(lhs, rhs) <=> Absolute(l) = 0 /\ Absolute(r) = 0
    BY <2>2 DEF BothZero
  <2>4. /\ Precedes(l, r) <=> Negative(l) /\ ~(Absolute(l) = 0 /\ Absolute(r) = 0)
        /\ Equals(l, r) <=> Absolute(l) = 0 /\ Absolute(r) = 0
    BY <2>1, SignsDiffer
  <2>5. /\ Precedes(l, r) \in BOOLEAN /\ Equals(l, r) \in BOOLEAN
        /\ BothZero(lhs, rhs) \in BOOLEAN /\ Negative(l) \in BOOLEAN
    BY DEF Precedes, Equals, BothZero, Negative
  <2>6. /\ (Negative(l) /\ ~BothZero(lhs, rhs)) = Precedes(l, r)
        /\ BothZero(lhs, rhs) = Equals(l, r)
    BY ONLY <2>3, <2>4, <2>5
  <2> QED
    BY <1>1, <2>1, <2>6
<1> QED
  BY <1>1, <1>2, Answered

LEMMA SameSignsJudged == Inv /\ Judged /\ SameSigns => Judged'
<1> SUFFICES ASSUME Inv, Judged, SameSigns PROVE Judged'
  OBVIOUS
<1>1. /\ phase' = "digits" /\ UNCHANGED <<call, known>>
      /\ lhs' = TrimLeadingZeros(IF Swaps THEN rhs ELSE lhs)
      /\ rhs' = TrimLeadingZeros(IF Swaps THEN lhs ELSE rhs)
  BY DEF SameSigns
<1>2. ASSUME BothDocumented
      PROVE  Operands' /\ SameRead'
  <2>1. PICK l, r : /\ l = call.left /\ r = call.right
                    /\ l \in Seq(Chars) /\ r \in Seq(Chars) /\ Documented(l) /\ Documented(r)
                    /\ lhs = TrimLeadingSign(l) /\ rhs = TrimLeadingSign(r)
                    /\ lhs.negative = Negative(l) /\ rhs.negative = Negative(r)
                    /\ Negative(l) = Negative(r)
    BY <1>2, SignsTrimmed DEF SameSigns, BothDocumented
  <2>2. PICK t, u : t = (IF Compares /\ Negative(l) THEN r ELSE l)
                    /\ u = (IF Compares /\ Negative(l) THEN l ELSE r)
    OBVIOUS
  <2>3. t \in Seq(Chars) /\ u \in Seq(Chars) /\ Documented(t) /\ Documented(u)
    BY <2>1, <2>2
  <2>4. lhs' = TrimLeadingZeros(TrimLeadingSign(t)) /\ rhs' = TrimLeadingZeros(TrimLeadingSign(u))
    BY <1>1, <2>1, <2>2 DEF Swaps
  <2>5. Reading(lhs') /\ lhs'.text = t /\ NumberRead(lhs') = 0 /\ lhs'.ch # Zero
    BY <2>3, <2>4, ZerosRead
  <2>6. Reading(rhs') /\ rhs'.text = u /\ NumberRead(rhs') = 0 /\ rhs'.ch # Zero
    BY <2>3, <2>4, ZerosRead
  <2>7. SameRead'
    BY <2>5, <2>6 DEF SameRead
  <2>8. Operands'
    BY <1>1, <2>1, <2>2, <2>5, <2>6 DEF Operands, Swapped, Compares
  <2> QED
    BY <2>7, <2>8
<1>3. ReadAlike'
  BY <1>1, <1>2 DEF ReadAlike, BothDocumented
<1> QED
  BY <1>1, <1>3, Unanswered DEF Judged

-------------------------------------------------------------------------------
(* Before the points.                                                      *)
LEMMA SameDigitJudged == Inv /\ Judged /\ SameDigit => Judged'
<1> SUFFICES ASSUME Inv, Judged, SameDigit PROVE Judged'
  OBVIOUS
<1>1. /\ phase = "digits" /\ phase' = "digits" /\ UNCHANGED <<call, known>>
      /\ ~IsEnd(lhs.ch) /\ lhs.ch = rhs.ch
      /\ lhs' = GetNext(lhs) /\ rhs' = GetNext(rhs)
  BY DEF SameDigit
<1>2. ASSUME BothDocumented
      PROVE  Operands' /\ SameRead'
  <2>1. SameRead /\ Operands
    BY <1>1, <1>2 DEF Judged, ReadAlike
  <2>2. PICK a, d : /\ a = NumberRead(lhs) /\ a = NumberRead(rhs) /\ d = lhs.ch - Zero
                    /\ (a = 0 => lhs.ch # Zero)
    BY <2>1 DEF SameRead
  <2>3. Reading(lhs) /\ Reading(rhs) /\ lhs \in Cursors /\ rhs \in Cursors
    BY <2>1 DEF SameRead, Inv, TypeOK
  <2>4. a \in Nat /\ d \in 0..9 /\ (d = 0 <=> lhs.ch = Zero)
    BY <1>1, <2>2, <2>3, ReadingTyped, DigitFacts
  <2>5. Reading(lhs') /\ lhs'.text = lhs.text /\ NumberRead(lhs') = 10 * a + d
    BY <1>1, <2>2, <2>3, NextRead
  <2>6. Reading(rhs') /\ rhs'.text = rhs.text /\ NumberRead(rhs') = 10 * a + d
    BY <1>1, <2>2, <2>3, NextRead
  <2>7. 10 * a + d # 0
    BY ONLY <2>2, <2>4
  <2>8. SameRead'
    BY <2>5, <2>6, <2>7 DEF SameRead
  <2>9. Operands'
    BY <1>1, <2>1, <2>5, <2>6 DEF Operands, Swapped, Compares
  <2> QED
    BY <2>8, <2>9
<1>3. ReadAlike'
  BY <1>1, <1>2 DEF ReadAlike, BothDocumented
<1> QED
  BY <1>1, <1>3, Unanswered DEF Judged

(* Numbers of different wholes are told apart by them.                     *)
LEMMA WholesDecide ==
  ASSUME NEW l \in Seq(Chars), NEW r \in Seq(Chars), Documented(l), Documented(r),
         Whole(l) \in Nat, Whole(r) \in Nat
  PROVE  /\ Whole(l) < Whole(r) => Lower(l, r) /\ ~Same(l, r)
         /\ Whole(l) > Whole(r) => ~Lower(l, r) /\ ~Same(l, r)
<1>1. Splits(l, Point(l), Whole(l), 1) /\ Splits(r, Point(r), Whole(r), 1)
  BY WholeSplits
<1>2. PICK a \in Nat : a = Whole(l)
  OBVIOUS
<1>3. PICK b \in Nat : b = Whole(r)
  OBVIOUS
<1>4. 1 \in Nat \ {0} /\ Splits(l, Point(l), a, 1) /\ Splits(r, Point(r), b, 1)
  BY <1>1, <1>2, <1>3
<1>5. a < b => Lower(l, r) /\ ~Same(l, r)
  BY ONLY <1>4, a \in Nat, b \in Nat, BeginningsDecide
<1>6. b < a => ~Lower(l, r) /\ ~Same(l, r)
  BY ONLY <1>4, a \in Nat, b \in Nat, BeginningsDecide
<1> QED
  BY <1>2, <1>3, <1>5, <1>6

LEMMA OtherDigitJudged == Inv /\ Judged /\ OtherDigit => Judged'
<1> SUFFICES ASSUME Inv, Judged, OtherDigit PROVE Judged'
  OBVIOUS
<1>1. /\ phase = "digits" /\ ~IsEnd(lhs.ch) /\ ~IsEnd(rhs.ch) /\ lhs.ch # rhs.ch
      /\ lhs \in Cursors /\ rhs \in Cursors
  BY DEF OtherDigit, Inv, TypeOK
<1>2. ASSUME BothDocumented
      PROVE  Operands /\ SameRead
  BY <1>1, <1>2 DEF Judged, ReadAlike
<1>3. ASSUME BothDocumented, NEW c, NEW e, c = GetNext(lhs), e = GetNext(rhs)
      PROVE  /\ c \in Cursors /\ e \in Cursors /\ c.text = lhs.text /\ e.text = rhs.text
             /\ Reading(c) /\ Reading(e) /\ Related(NumberRead(c), NumberRead(e))
             /\ NumberRead(c) > NumberRead(e) <=> lhs.ch > rhs.ch
  <2>1. PICK a, d, f : /\ a = NumberRead(lhs) /\ a = NumberRead(rhs)
                       /\ d = lhs.ch - Zero /\ f = rhs.ch - Zero
                       /\ (a = 0 => lhs.ch # Zero /\ rhs.ch # Zero)
    BY <1>2, <1>3 DEF SameRead
  <2>2. Reading(lhs) /\ Reading(rhs)
    BY <1>2, <1>3 DEF SameRead
  <2>3. lhs.ch \in Digits /\ rhs.ch \in Digits /\ a \in Nat
    BY <1>1, <2>1, <2>2, ReadingTyped
  <2>4. /\ d \in 0..9 /\ (d = 0 <=> lhs.ch = Zero)
        /\ f \in 0..9 /\ (f = 0 <=> rhs.ch = Zero)
        /\ d # f /\ (d > f <=> lhs.ch > rhs.ch)
    <3>1. lhs.ch \in Int /\ rhs.ch \in Int /\ Zero \in Int
      BY <2>3 DEF Digits, Zero
    <3> QED
      BY <1>1, <2>1, <2>3, <3>1, DigitFacts
  <2>5. c \in Cursors /\ Reading(c) /\ c.text = lhs.text /\ NumberRead(c) = 10 * a + d
    BY <1>1, <1>3, <2>1, <2>2, NextRead
  <2>6. e \in Cursors /\ Reading(e) /\ e.text = rhs.text /\ NumberRead(e) = 10 * a + f
    BY <1>1, <1>3, <2>1, <2>2, NextRead
  <2>7. Related(10 * a + d, 10 * a + f) /\ (10 * a + d > 10 * a + f <=> d > f)
    BY <2>1, <2>3, <2>4, FirstDiffers
  <2> QED
    BY <2>4, <2>5, <2>6, <2>7
<1>4. CASE Compares
  <2>1. /\ left_leaning' = (lhs.ch > rhs.ch) /\ phase' = "longer" /\ UNCHANGED <<call, known>>
        /\ lhs' = GetNext(lhs) /\ rhs' = GetNext(rhs)
    BY <1>4 DEF OtherDigit
  <2>2. ASSUME BothDocumented
        PROVE  Operands' /\ OtherRead'
    <3>1. PICK c, e : /\ c = lhs' /\ e = rhs'
                      /\ c.text = lhs.text /\ e.text = rhs.text
                      /\ Reading(c) /\ Reading(e) /\ Related(NumberRead(c), NumberRead(e))
                      /\ (NumberRead(c) > NumberRead(e) <=> lhs.ch > rhs.ch)
      BY <1>3, <2>1, <2>2
    <3>2. left_leaning' = (NumberRead(c) > NumberRead(e))
      BY <2>1, <3>1
    <3>3. OtherRead'
      BY <1>4, <2>1, <3>1, <3>2 DEF OtherRead, Compares
    <3>4. Operands'
      BY <1>2, <2>1, <2>2, <3>1 DEF Operands, Swapped, Compares
    <3> QED
      BY <3>3, <3>4
  <2>3. ReadAlike'
    BY <2>1, <2>2 DEF ReadAlike, BothDocumented
  <2> QED
    BY <2>1, <2>3, Unanswered DEF Judged
<1>5. CASE ~Compares
  <2>1. Return(FALSE)
    BY <1>5 DEF OtherDigit
  <2>2. ASSUME BothDocumented
        PROVE  ~Same(lhs.text, rhs.text)
    <3>1. PICK c, e : c = GetNext(lhs) /\ e = GetNext(rhs)
      OBVIOUS
    <3>2. /\ c \in Cursors /\ e \in Cursors /\ c.text = lhs.text /\ e.text = rhs.text
          /\ Reading(c) /\ Reading(e) /\ Related(NumberRead(c), NumberRead(e))
      BY <1>3, <2>2, <3>1
    <3>3. Whole(lhs.text) # Whole(rhs.text)
      BY <3>2, WholeDiffers
    <3>4. Whole(lhs.text) \in Nat /\ Whole(rhs.text) \in Nat
      BY <3>2, ReadingTyped
    <3>5. lhs.text \in Seq(Chars) /\ rhs.text \in Seq(Chars)
          /\ Documented(lhs.text) /\ Documented(rhs.text)
      BY <3>2 DEF Reading
    <3> QED
      BY <3>3, <3>4, <3>5, WholesDecide
  <2>3. FALSE \in BOOLEAN
    OBVIOUS
  <2> QED
    BY <1>2, <1>5, <2>1, <2>2, <2>3, OperandsAnswered
<1> QED
  BY <1>4, <1>5

LEMMA FindLongerJudged == Inv /\ Judged /\ FindLonger => Judged'
<1> SUFFICES ASSUME Inv, Judged, FindLonger PROVE Judged'
  OBVIOUS
<1>1. phase = "longer" /\ lhs \in Cursors /\ rhs \in Cursors
  BY DEF FindLonger, Inv, TypeOK
<1>2. ASSUME BothDocumented
      PROVE  Operands /\ OtherRead
  BY <1>1, <1>2 DEF Judged, ReadAlike
<1>3. CASE IsEnd(lhs.ch) \/ IsEnd(rhs.ch)
  <2>1. PICK result : result = Longer(lhs, rhs) /\ Return(result) /\ result \in BOOLEAN
    <3>1. Longer(lhs, rhs) \in BOOLEAN
      BY DEF Longer
    <3> QED
      BY <1>3, <3>1 DEF FindLonger
  <2>2. ASSUME BothDocumented
        PROVE  result <=> IF Compares THEN Lower(lhs.text, rhs.text)
                          ELSE Same(lhs.text, rhs.text)
    <3>1. Reading(lhs) /\ Reading(rhs) /\ Related(NumberRead(lhs), NumberRead(rhs)) /\ Compares
          /\ left_leaning = (NumberRead(lhs) > NumberRead(rhs))
      BY <1>2, <2>2 DEF OtherRead
    <3>2. PICK x, y, v, w : /\ x = NumberRead(lhs) /\ y = NumberRead(rhs)
                            /\ v = Whole(lhs.text) /\ w = Whole(rhs.text)
                            /\ x \in Nat /\ y \in Nat /\ v \in Nat /\ w \in Nat
      BY <1>1, <3>1, ReadingTyped
    <3>3. x # y /\ x < 10 * y /\ y < 10 * x /\ left_leaning = (x > y)
      BY <3>1, <3>2 DEF Related
    <3>4. /\ IsEnd(lhs.ch) => v = x
          /\ IsEnd(rhs.ch) => w = y
      BY <1>1, <3>1, <3>2, ReadingTyped
    <3>5. /\ ~IsEnd(lhs.ch) => v >= 10 * x
          /\ ~IsEnd(rhs.ch) => w >= 10 * y
      <4>1. \A c \in Cursors : Reading(c) /\ ~IsEnd(c.ch) =>
              /\ c.ch - Zero \in 0..9
              /\ Whole(c.text) >= 10 * NumberRead(c) + (c.ch - Zero)
              /\ NumberRead(c) \in Nat /\ Whole(c.text) \in Nat
        BY ReadingTyped, DigitFacts, WholeAtLeast
      <4>2. \A c \in Cursors : Reading(c) /\ ~IsEnd(c.ch) => Whole(c.text) >= 10 * NumberRead(c)
        <5> SUFFICES ASSUME NEW c \in Cursors, Reading(c), ~IsEnd(c.ch)
                     PROVE  Whole(c.text) >= 10 * NumberRead(c)
          OBVIOUS
        <5>1. PICK a, b, d : a = Whole(c.text) /\ b = NumberRead(c) /\ d = c.ch - Zero
                             /\ a \in Nat /\ b \in Nat /\ d \in 0..9 /\ a >= 10 * b + d
          BY <4>1
        <5> QED
          BY <5>1
      <4> QED
        BY <1>1, <3>1, <3>2, <4>2
    <3>6. result <=> v < w
      <4>1. result <=> IsEnd(lhs.ch) /\ (IsEnd(rhs.ch) => ~left_leaning)
        BY <2>1 DEF Longer
      <4>2. x \in Nat /\ y \in Nat /\ v \in Nat /\ w \in Nat
        BY <3>2
      <4>3. left_leaning <=> x > y
        BY <3>3
      <4>4. CASE IsEnd(lhs.ch) /\ IsEnd(rhs.ch)
        <5>1. (result <=> ~(x > y)) /\ v = x /\ w = y /\ x # y
          BY <4>1, <4>3, <4>4, <3>3, <3>4
        <5> QED
          BY ONLY <5>1, <4>2
      <4>5. CASE IsEnd(lhs.ch) /\ ~IsEnd(rhs.ch)
        <5>1. result /\ v = x /\ w >= 10 * y /\ x < 10 * y
          BY <4>1, <4>5, <3>3, <3>4, <3>5
        <5> QED
          BY ONLY <5>1, <4>2
      <4>6. CASE ~IsEnd(lhs.ch) /\ IsEnd(rhs.ch)
        <5>1. ~result /\ w = y /\ v >= 10 * x /\ y < 10 * x
          BY <4>1, <4>6, <3>3, <3>4, <3>5
        <5> QED
          BY ONLY <5>1, <4>2
      <4> QED
        BY <1>3, <4>4, <4>5, <4>6
    <3>7. v # w
      BY ONLY <1>3, <3>2, <3>3, <3>4, <3>5
    <3>8. lhs.text \in Seq(Chars) /\ rhs.text \in Seq(Chars)
          /\ Documented(lhs.text) /\ Documented(rhs.text)
      BY <3>1 DEF Reading
    <3>9. (v < w => Lower(lhs.text, rhs.text)) /\ (v > w => ~Lower(lhs.text, rhs.text))
      BY <3>2, <3>8, WholesDecide
    <3> QED
      BY <3>1, <3>2, <3>6, <3>7, <3>9
  <2> QED
    BY <1>2, <2>1, <2>2, OperandsAnswered
<1>4. CASE ~(IsEnd(lhs.ch) \/ IsEnd(rhs.ch))
  <2>1. /\ lhs' = GetNext(lhs) /\ rhs' = GetNext(rhs)
        /\ UNCHANGED <<call, left_leaning, phase, known>>
    BY <1>4 DEF FindLonger
  <2>2. ASSUME BothDocumented
        PROVE  Operands' /\ OtherRead'
    <3>1. PICK x, y, d, e : x = NumberRead(lhs) /\ y = NumberRead(rhs)
                            /\ d = lhs.ch - Zero /\ e = rhs.ch - Zero
      OBVIOUS
    <3>2. Reading(lhs) /\ Reading(rhs) /\ Related(x, y) /\ left_leaning = (x > y) /\ Compares
      BY <1>2, <2>2, <3>1 DEF OtherRead
    <3>3. x \in Nat /\ y \in Nat /\ d \in 0..9 /\ e \in 0..9
      BY <1>1, <1>4, <3>1, <3>2, ReadingTyped, DigitFacts
    <3>4. Reading(lhs') /\ lhs'.text = lhs.text /\ NumberRead(lhs') = 10 * x + d
      BY <1>1, <1>4, <2>1, <3>1, <3>2, NextRead
    <3>5. Reading(rhs') /\ rhs'.text = rhs.text /\ NumberRead(rhs') = 10 * y + e
      BY <1>1, <1>4, <2>1, <3>1, <3>2, NextRead
    <3>6. Related(10 * x + d, 10 * y + e) /\ (10 * x + d > 10 * y + e <=> x > y)
      BY <3>2, <3>3, StaysRelated
    <3>7. left_leaning' = (10 * x + d > 10 * y + e)
      BY <2>1, <3>2, <3>6
    <3>8. OtherRead'
      BY <2>1, <3>2, <3>4, <3>5, <3>6, <3>7 DEF OtherRead, Compares
    <3>9. Operands'
      BY <1>2, <2>1, <2>2, <3>4, <3>5 DEF Operands, Swapped, Compares
    <3> QED
      BY <3>8, <3>9
  <2>3. ReadAlike'
    BY <1>1, <2>1, <2>2 DEF ReadAlike, BothDocumented
  <2> QED
    BY <2>1, <2>3, Unanswered DEF Judged
<1> QED
  BY <1>3, <1>4

(* There is nothing but zeros after the point.                             *)
NoFraction(text) == \A i \in Point(text) + 1..Len(text) : text[i] = Zero

(* A cursor at the end of the digits is at the point, or there is none.    *)
LEMMA EndReached ==
  ASSUME NEW c \in Cursors, Reading(c), IsEnd(c.ch)
  PROVE  /\ c.ch = STR_END => NoFraction(c.text)
         /\ c.ch = Dot => /\ Point(c.text) <= Len(c.text) /\ c.pos = Point(c.text) + 1
                          /\ Value(c.text, Point(c.text)) = NumberRead(c)
                          /\ (RestNonZero(c) <=> ~NoFraction(c.text))
<1>1. PICK n, p, t : t = c.text /\ n = Len(t) /\ n \in Nat /\ p = Point(t) /\ p \in 1..n + 1
                     /\ t \in Seq(Chars) /\ Documented(t)
  BY LenProperties, PointFacts DEF Reading
<1>2. PICK k : k = c.pos - 1 /\ c.pos = k + 1 /\ k \in Nat
  BY DEF Cursors
<1>3. Dot # STR_END
  BY DEF Dot, STR_END
<1>4. \A q \in 1..p - 1 : t[q] # Dot
  BY <1>1, PointFacts
<1>5. ASSUME c.ch = STR_END
      PROVE  NoFraction(t)
  <2>1. p = n + 1
    <3>1. STR_END \notin Digits
      BY DigitFacts
    <3> QED
      BY <3>1, <1>1, <1>3, <1>5 DEF Reading
  <2> QED
    BY <1>1, <2>1 DEF NoFraction
<1>6. ASSUME c.ch = Dot
      PROVE  /\ p <= n /\ k = p
             /\ Value(t, p) = NumberRead(c)
             /\ (RestNonZero(c) <=> ~NoFraction(t))
  <2>1. k \in 1..n /\ k <= p /\ t[k] = Dot
    BY <1>1, <1>2, <1>3, <1>6 DEF Reading
  <2>2. k = p /\ p <= n /\ p \in 1..n
    BY ONLY <1>1, <1>4, <2>1
  <2>3. Value(t, p) = Value(t, p - 1)
    <3>1. Dot \notin Digits
      BY DigitFacts DEF Skipped
    <3> QED
      BY <1>1, <2>1, <2>2, <3>1, ValueSteps
  <2>4. NumberRead(c) = Value(t, p - 1)
    BY <1>1, ReadingTyped DEF Whole
  <2>5. RestNonZero(c) <=> ~NoFraction(t)
    BY <1>1, <1>2, <2>2 DEF RestNonZero, NoFraction
  <2> QED
    BY <2>2, <2>3, <2>4, <2>5
<1> QED
  BY <1>1, <1>2, <1>5, <1>6

LEMMA DigitsEndJudged == Inv /\ Judged /\ DigitsEnd => Judged'
<1> SUFFICES ASSUME Inv, Judged, DigitsEnd PROVE Judged'
  OBVIOUS
<1>1. /\ phase = "digits" /\ lhs \in Cursors /\ rhs \in Cursors
      /\ IsEnd(lhs.ch) \/ IsEnd(rhs.ch)
  BY DEF DigitsEnd, Inv, TypeOK
<1>2. BothDocumented => Operands /\ SameRead
  BY <1>1 DEF Judged, ReadAlike
<1>3. PICK l, r : l = lhs.text /\ r = rhs.text
  OBVIOUS
<1>4. ASSUME BothDocumented
      PROVE  /\ Reading(lhs) /\ Reading(rhs) /\ NumberRead(lhs) = NumberRead(rhs)
             /\ (NumberRead(lhs) = 0 => lhs.ch # Zero /\ rhs.ch # Zero)
             /\ l \in Seq(Chars) /\ r \in Seq(Chars) /\ Documented(l) /\ Documented(r)
             /\ Whole(l) \in Nat /\ Whole(r) \in Nat
  <2>1. /\ Reading(lhs) /\ Reading(rhs) /\ NumberRead(lhs) = NumberRead(rhs)
        /\ (NumberRead(lhs) = 0 => lhs.ch # Zero /\ rhs.ch # Zero)
    BY <1>2, <1>4 DEF SameRead
  <2> QED
    BY <1>1, <1>3, <2>1, ReadingTyped DEF Reading
(* A number with more digits than those that both have is the greater one. *)
<1>5. ASSUME NEW c \in Cursors, Reading(c), ~IsEnd(c.ch), NumberRead(c) = 0 => c.ch # Zero
      PROVE  NumberRead(c) < Whole(c.text)
  <2>1. PICK a, b, d : /\ a = NumberRead(c) /\ b = Whole(c.text) /\ d = c.ch - Zero
                       /\ a \in Nat /\ b \in Nat /\ d \in 0..9 /\ (d = 0 <=> c.ch = Zero)
                       /\ b >= 10 * a + d
    BY <1>5, ReadingTyped, DigitFacts, WholeAtLeast
  <2>2. a = 0 => d # 0
    BY <1>5, <2>1
  <2>3. a < b
    BY ONLY <2>1, <2>2
  <2> QED
    BY <2>1, <2>3
<1>6. CASE ~IsEnd(lhs.ch) /\ Return(FALSE)
  <2>1. ASSUME BothDocumented
        PROVE  ~Lower(l, r) /\ ~Same(l, r)
    <3>1. NumberRead(lhs) < Whole(l)
      BY <1>1, <1>3, <1>4, <1>5, <1>6, <2>1
    <3>2. NumberRead(lhs) = Whole(r)
      BY <1>1, <1>3, <1>4, <1>6, <2>1, ReadingTyped
    <3> QED
      BY <3>1, <3>2, <1>4, <2>1, WholesDecide
  <2>2. FALSE \in BOOLEAN
    OBVIOUS
  <2> QED
    BY <1>2, <1>3, <1>6, <2>1, <2>2, OperandsAnswered
<1>7. CASE ~IsEnd(rhs.ch) /\ Return(Compares)
  <2>1. ASSUME BothDocumented
        PROVE  Lower(l, r) /\ ~Same(l, r)
    <3>1. NumberRead(rhs) < Whole(r)
      BY <1>1, <1>3, <1>4, <1>5, <1>7, <2>1
    <3>2. NumberRead(rhs) = Whole(l)
      BY <1>1, <1>3, <1>4, <1>7, <2>1, ReadingTyped
    <3> QED
      BY <3>1, <3>2, <1>4, <2>1, WholesDecide
  <2>2. Compares \in BOOLEAN
    BY DEF Compares
  <2> QED
    BY <1>2, <1>3, <1>7, <2>1, <2>2, OperandsAnswered
<1>8. ASSUME IsEnd(lhs.ch), IsEnd(rhs.ch), BothDocumented
      PROVE  /\ lhs.ch = STR_END => NoFraction(l)
             /\ rhs.ch = STR_END => NoFraction(r)
             /\ lhs.ch = Dot => (RestNonZero(lhs) <=> ~NoFraction(l))
             /\ rhs.ch = Dot => (RestNonZero(rhs) <=> ~NoFraction(r))
             /\ NoFraction(l) => (Lower(l, r) <=> ~NoFraction(r)) /\ (Same(l, r) <=> NoFraction(r))
             /\ NoFraction(r) => ~Lower(l, r) /\ (Same(l, r) <=> NoFraction(l))
  <2>1. Whole(l) = Whole(r)
    BY <1>1, <1>3, <1>4, <1>8, ReadingTyped
  <2>2. PICK a \in Nat : a = Whole(l) /\ a = Whole(r)
    BY <1>4, <1>8, <2>1
  <2>3. Splits(l, Point(l), a, 1) /\ Splits(r, Point(r), a, 1)
    BY <1>4, <1>8, <2>2, WholeSplits
  <2>4. PICK left, right : left = NoFraction(l) /\ right = NoFraction(r)
    OBVIOUS
  <2>5. /\ left = (\A i \in Point(l) + 1..Len(l) : l[i] = Zero)
        /\ right = (\A i \in Point(r) + 1..Len(r) : r[i] = Zero)
    BY <2>4 DEF NoFraction
  <2>6. 1 \in Nat \ {0}
    OBVIOUS
  <2>7. /\ left => (Lower(l, r) <=> ~right) /\ (Same(l, r) <=> right)
        /\ right => ~Lower(l, r) /\ (Same(l, r) <=> left)
    BY ONLY <2>2, <2>3, <2>5, <2>6, RestsDecide
  <2>8. /\ lhs.ch = STR_END => NoFraction(l)
        /\ rhs.ch = STR_END => NoFraction(r)
        /\ lhs.ch = Dot => (RestNonZero(lhs) <=> ~NoFraction(l))
        /\ rhs.ch = Dot => (RestNonZero(rhs) <=> ~NoFraction(r))
    BY <1>1, <1>3, <1>4, <1>8, EndReached
  <2> QED
    BY <2>4, <2>7, <2>8
<1>9. /\ \A ch : ch = STR_END \/ ch = Dot => IsEnd(ch)
      /\ RestNonZero(lhs) \in BOOLEAN /\ RestNonZero(rhs) \in BOOLEAN /\ Compares \in BOOLEAN
  BY DEF IsEnd, RestNonZero, Compares
<1>10. CASE lhs.ch = STR_END /\ rhs.ch = STR_END /\ Return(~Compares)
  <2>1. BothDocumented => ~Lower(l, r) /\ Same(l, r)
    BY <1>8, <1>9, <1>10
  <2> QED
    BY <1>2, <1>3, <1>9, <1>10, <2>1, OperandsAnswered
<1>11. CASE lhs.ch = STR_END /\ rhs.ch = Dot /\ Return(Compares = RestNonZero(rhs))
  <2>1. BothDocumented => /\ Lower(l, r) <=> RestNonZero(rhs)
                          /\ Same(l, r) <=> ~RestNonZero(rhs)
    BY <1>8, <1>9, <1>11
  <2>2. PICK result \in BOOLEAN : result = (Compares = RestNonZero(rhs)) /\ Return(result)
    BY <1>11
  <2>3. BothDocumented => (result <=> IF Compares THEN Lower(l, r) ELSE Same(l, r))
    BY <1>9, <2>1, <2>2
  <2> QED
    BY <1>2, <1>3, <2>2, <2>3, OperandsAnswered
<1>12. CASE lhs.ch = Dot /\ rhs.ch = STR_END /\ Return(~Compares /\ ~RestNonZero(lhs))
  <2>1. BothDocumented => /\ ~Lower(l, r)
                          /\ Same(l, r) <=> ~RestNonZero(lhs)
    BY <1>8, <1>9, <1>12
  <2>2. PICK result \in BOOLEAN : result = (~Compares /\ ~RestNonZero(lhs)) /\ Return(result)
    BY <1>12
  <2>3. BothDocumented => (result <=> IF Compares THEN Lower(l, r) ELSE Same(l, r))
    BY <1>9, <2>1, <2>2
  <2> QED
    BY <1>2, <1>3, <2>2, <2>3, OperandsAnswered
<1>13. CASE /\ lhs.ch = Dot /\ rhs.ch = Dot
            /\ phase' = "fraction"
            /\ UNCHANGED <<call, lhs, rhs, left_leaning, known>>
  <2>1. ASSUME BothDocumented
        PROVE  SamePlaces
    <3>1. /\ Point(l) <= Len(l) /\ lhs.pos = Point(l) + 1 /\ Value(l, Point(l)) = NumberRead(lhs)
          /\ Point(r) <= Len(r) /\ rhs.pos = Point(r) + 1 /\ Value(r, Point(r)) = NumberRead(rhs)
      BY <1>1, <1>3, <1>4, <1>9, <1>13, <2>1, EndReached
    <3>2. /\ Places(l) \in Nat /\ Power(l, 0) = 1 /\ Places(r) \in Nat /\ Power(r, 0) = 1
          /\ Point(l) \in Nat /\ Point(r) \in Nat
      <4>1. \A t \in Seq(Chars) : Places(t) \in Nat /\ Power(t, 0) = 1 /\ Point(t) \in Nat
        BY PowerFacts, PointFacts
      <4> QED
        BY <1>4, <2>1, <4>1
    <3>3. Point(l) + 0 = Point(l) /\ Point(r) + 0 = Point(r)
      BY <3>2
    <3>4. SameUpTo(0)
      BY <1>3, <1>4, <2>1, <3>1, <3>2, <3>3 DEF SameUpTo
    <3> QED
      BY <1>3, <3>1, <3>4 DEF SamePlaces
  <2>2. BothDocumented => Operands' /\ SamePlaces'
    <3>1. BothDocumented => SamePlaces
      BY <2>1
    <3> QED
      BY <1>2, <1>13, <3>1 DEF Operands, SamePlaces, SameUpTo, Swapped, Compares
  <2>3. ReadAlike'
    BY <1>13, <2>2 DEF ReadAlike, BothDocumented
  <2> QED
    BY <1>13, <2>3, Unanswered DEF Judged
<1> QED
  BY <1>6, <1>7, <1>10, <1>11, <1>12, <1>13 DEF DigitsEnd

-------------------------------------------------------------------------------
(* After the points.                                                       *)
LEMMA FractionAlike ==
  ASSUME Inv, Judged, phase = "fraction", BothDocumented
  PROVE  /\ Operands /\ SamePlaces
         /\ lhs \in Cursors /\ rhs \in Cursors
         /\ lhs.text \in Seq(Chars) /\ rhs.text \in Seq(Chars)
         /\ Documented(lhs.text) /\ Documented(rhs.text)
  BY OperandsTyped DEF Judged, ReadAlike

(* One place further in a text.                                            *)
LEMMA PlaceRead ==
  ASSUME NEW c \in Cursors, c.text \in Seq(Chars), Documented(c.text),
         Point(c.text) <= Len(c.text), NEW j \in Nat, j <= Places(c.text),
         c.pos = Point(c.text) + j + 1, ~AtEnd(c),
         NEW d, d = c.text[c.pos]
  PROVE  /\ j + 1 \in 1..Places(c.text) /\ d \in Digits
         /\ Value(c.text, Point(c.text) + (j + 1))
              = 10 * Value(c.text, Point(c.text) + j) + (d - Zero)
         /\ Value(c.text, Point(c.text) + j) \in Nat
         /\ Power(c.text, j + 1) = 10 * Power(c.text, j)
         /\ Power(c.text, j) \in Nat \ {0}
<1>1. PICK t, n, p, m : /\ t = c.text /\ n = Len(t) /\ n \in Nat /\ p = Point(t) /\ p \in 1..n
                        /\ t \in Seq(Chars) /\ Documented(t) /\ m = Places(t) /\ m = n - p
  BY LenProperties, PointFacts DEF Places
<1>2. PICK q : q = p + j + 1
  OBVIOUS
<1>3. c.pos = q /\ q <= n /\ j <= m
  BY <1>1, <1>2 DEF AtEnd
<1>4. /\ q \in 1..n /\ q - 1 = p + j /\ q = p + (j + 1) /\ q \in p + 1..n /\ q - 1 \in 0..n
      /\ j + 1 \in 1..m /\ j \in 0..m /\ (j + 1) - 1 = j
  <2>1. n \in Nat /\ p \in Nat /\ p >= 1 /\ p <= n /\ m = n - p /\ j \in Nat /\ q <= n
    BY <1>1, <1>3
  <2>2. q \in 1..n /\ q - 1 = p + j /\ q = p + (j + 1) /\ q \in p + 1..n /\ q - 1 \in 0..n
    BY ONLY <2>1, <1>2
  <2>3. j + 1 \in 1..m /\ j \in 0..m /\ (j + 1) - 1 = j
    BY ONLY <2>1, <1>2
  <2> QED
    BY ONLY <2>2, <2>3
<1>5. d = t[q] /\ d \in Digits
  BY <1>1, <1>3, <1>4, DocumentedChars
<1>6. Value(t, q) = 10 * Value(t, q - 1) + (d - Zero) /\ Value(t, q - 1) \in Nat
  BY <1>1, <1>4, <1>5, ValueSteps
<1>7. Power(t, j + 1) = 10 * Power(t, j)
  BY <1>1, <1>4, PowerFacts
<1>8. Power(t, j) \in Nat \ {0}
  BY <1>1, <1>4, PowersTyped
<1> QED
  BY <1>1, <1>4, <1>5, <1>6, <1>7, <1>8

LEMMA SameFractionDigitJudged == Inv /\ Judged /\ SameFractionDigit => Judged'
<1> SUFFICES ASSUME Inv, Judged, SameFractionDigit PROVE Judged'
  OBVIOUS
<1>1. /\ phase = "fraction" /\ ~AtEnd(lhs) /\ ~AtEnd(rhs)
      /\ lhs.text[lhs.pos] = rhs.text[rhs.pos]
      /\ lhs' = Advanced(lhs) /\ rhs' = Advanced(rhs)
      /\ UNCHANGED <<call, left_leaning, phase, known>>
  BY DEF SameFractionDigit
<1>2. \A c \in Cursors : Advanced(c).text = c.text /\ Advanced(c).pos = c.pos + 1
  BY DEF Advanced, Cursors
<1>3. ASSUME BothDocumented
      PROVE  Operands' /\ SamePlaces'
  <2>1. /\ Operands /\ SamePlaces
        /\ lhs \in Cursors /\ rhs \in Cursors
        /\ lhs.text \in Seq(Chars) /\ rhs.text \in Seq(Chars)
        /\ Documented(lhs.text) /\ Documented(rhs.text)
    BY <1>1, <1>3, FractionAlike
  <2>2. PICK j \in Nat : SameUpTo(j)
    BY <2>1 DEF SamePlaces
  <2>3. Point(lhs.text) <= Len(lhs.text) /\ Point(rhs.text) <= Len(rhs.text)
    BY <2>1 DEF SamePlaces
  <2>4. PICK d : d = lhs.text[lhs.pos] /\ d = rhs.text[rhs.pos]
    BY <1>1
  <2>5. /\ lhs.pos = Point(lhs.text) + j + 1 /\ rhs.pos = Point(rhs.text) + j + 1
        /\ j <= Places(lhs.text) /\ j <= Places(rhs.text)
        /\ Value(lhs.text, Point(lhs.text) + j) = Value(rhs.text, Point(rhs.text) + j)
        /\ Power(lhs.text, j) = Power(rhs.text, j)
    BY <2>2 DEF SameUpTo
  <2>6. /\ j + 1 \in 1..Places(lhs.text)
        /\ Value(lhs.text, Point(lhs.text) + (j + 1))
             = 10 * Value(lhs.text, Point(lhs.text) + j) + (d - Zero)
        /\ Power(lhs.text, j + 1) = 10 * Power(lhs.text, j)
    BY <1>1, <2>1, <2>3, <2>4, <2>5, PlaceRead
  <2>7. /\ j + 1 \in 1..Places(rhs.text)
        /\ Value(rhs.text, Point(rhs.text) + (j + 1))
             = 10 * Value(rhs.text, Point(rhs.text) + j) + (d - Zero)
        /\ Power(rhs.text, j + 1) = 10 * Power(rhs.text, j)
    BY <1>1, <2>1, <2>3, <2>4, <2>5, PlaceRead
  <2>8. /\ lhs'.text = lhs.text /\ lhs'.pos = lhs.pos + 1
        /\ rhs'.text = rhs.text /\ rhs'.pos = rhs.pos + 1
    BY <1>1, <1>2, <2>1
  <2>9. PICK i : i = j + 1 /\ i \in Nat
    OBVIOUS
  <2>10. /\ lhs'.pos = Point(lhs.text) + i + 1 /\ rhs'.pos = Point(rhs.text) + i + 1
         /\ i <= Places(lhs.text) /\ i <= Places(rhs.text)
    <3>1. \A t \in Seq(Chars) : Point(t) \in Nat /\ Places(t) \in Nat
      BY PowerFacts, PointFacts
    <3>2. PICK p, q, m, n : /\ p = Point(lhs.text) /\ q = Point(rhs.text)
                            /\ m = Places(lhs.text) /\ n = Places(rhs.text)
                            /\ p \in Nat /\ q \in Nat /\ m \in Nat /\ n \in Nat
      BY <2>1, <3>1
    <3> QED
      BY <2>5, <2>6, <2>7, <2>8, <2>9, <3>2
  <2>11. Value(lhs.text, Point(lhs.text) + i) = Value(rhs.text, Point(rhs.text) + i)
         /\ Power(lhs.text, i) = Power(rhs.text, i)
    BY <2>5, <2>6, <2>7, <2>9
  <2>12. SameUpTo(i)'
    BY <2>8, <2>10, <2>11 DEF SameUpTo
  <2>13. SamePlaces'
    BY <2>3, <2>8, <2>9, <2>12 DEF SamePlaces
  <2>14. Operands'
    BY <1>1, <2>1, <2>8 DEF Operands, Swapped, Compares
  <2> QED
    BY <2>13, <2>14
<1>4. ReadAlike'
  BY <1>1, <1>3 DEF ReadAlike, BothDocumented
<1> QED
  BY <1>1, <1>4, Unanswered DEF Judged

LEMMA OtherFractionDigitJudged == Inv /\ Judged /\ OtherFractionDigit => Judged'
<1> SUFFICES ASSUME Inv, Judged, OtherFractionDigit PROVE Judged'
  OBVIOUS
<1>1. PICK result \in BOOLEAN :
        /\ phase = "fraction" /\ ~AtEnd(lhs) /\ ~AtEnd(rhs)
        /\ lhs.text[lhs.pos] # rhs.text[rhs.pos]
        /\ result = (Compares /\ lhs.text[lhs.pos] < rhs.text[rhs.pos])
        /\ Return(result)
  BY DEF OtherFractionDigit, Compares
<1>2. ASSUME BothDocumented
      PROVE  Operands /\ (result <=> IF Compares THEN Lower(lhs.text, rhs.text)
                                     ELSE Same(lhs.text, rhs.text))
  <2>1. /\ Operands /\ SamePlaces
        /\ lhs \in Cursors /\ rhs \in Cursors
        /\ lhs.text \in Seq(Chars) /\ rhs.text \in Seq(Chars)
        /\ Documented(lhs.text) /\ Documented(rhs.text)
    BY <1>1, <1>2, FractionAlike
  <2>2. PICK j \in Nat : SameUpTo(j)
    BY <2>1 DEF SamePlaces
  <2>3. Point(lhs.text) <= Len(lhs.text) /\ Point(rhs.text) <= Len(rhs.text)
    BY <2>1 DEF SamePlaces
  <2>4. PICK l, r, d, e, a, k : /\ l = lhs.text /\ r = rhs.text
                                /\ d = lhs.text[lhs.pos] /\ e = rhs.text[rhs.pos]
                                /\ a = Value(l, Point(l) + j) /\ k = Power(l, j)
    OBVIOUS
  <2>5. /\ lhs.pos = Point(lhs.text) + j + 1 /\ rhs.pos = Point(rhs.text) + j + 1
        /\ j <= Places(lhs.text) /\ j <= Places(rhs.text)
        /\ a = Value(r, Point(r) + j) /\ k = Power(r, j)
    BY <2>2, <2>4 DEF SameUpTo
  <2>6. /\ j + 1 \in 1..Places(l) /\ d \in Digits
        /\ Value(l, Point(l) + (j + 1)) = 10 * a + (d - Zero)
        /\ Power(l, j + 1) = 10 * k /\ a \in Nat /\ k \in Nat \ {0}
    <3>1. j <= Places(lhs.text) /\ lhs.pos = Point(lhs.text) + j + 1
      BY <2>5
    <3>2. d = lhs.text[lhs.pos] /\ ~AtEnd(lhs)
      BY <1>1, <2>4
    <3>3. /\ j + 1 \in 1..Places(lhs.text) /\ d \in Digits
          /\ Value(lhs.text, Point(lhs.text) + (j + 1))
               = 10 * Value(lhs.text, Point(lhs.text) + j) + (d - Zero)
          /\ Value(lhs.text, Point(lhs.text) + j) \in Nat
          /\ Power(lhs.text, j + 1) = 10 * Power(lhs.text, j)
          /\ Power(lhs.text, j) \in Nat \ {0}
      BY <2>1, <2>3, <3>1, <3>2, PlaceRead
    <3> QED
      BY <2>4, <3>3
  <2>7. /\ j + 1 \in 1..Places(r) /\ e \in Digits
        /\ Value(r, Point(r) + (j + 1)) = 10 * a + (e - Zero)
        /\ Power(r, j + 1) = 10 * k
    BY <1>1, <2>1, <2>3, <2>4, <2>5, PlaceRead
  <2>8. PICK x, y, z : /\ x = 10 * a + (d - Zero) /\ y = 10 * a + (e - Zero) /\ z = 10 * k
    OBVIOUS
  <2>9. /\ x \in Nat /\ y \in Nat /\ z \in Nat \ {0} /\ x # y /\ (x < y <=> d < e)
    <3>1. PICK f, g : f = d - Zero /\ g = e - Zero /\ f \in 0..9 /\ g \in 0..9
      BY <2>6, <2>7, DigitFacts
    <3>2. (f = g <=> d = e) /\ (f < g <=> d < e)
      <4>1. d \in Int /\ e \in Int /\ Zero \in Int
        BY <2>6, <2>7 DEF Digits, Zero
      <4> QED
        BY ONLY <3>1, <4>1
    <3>3. f # g
      BY <1>1, <2>4, <3>2
    <3>4. x = 10 * a + f /\ y = 10 * a + g
      BY <2>8, <3>1
    <3>5. a \in Nat /\ k \in Nat \ {0}
      BY <2>6
    <3>6. f \in 0..9 /\ g \in 0..9
      BY <3>1
    <3> QED
      BY ONLY <2>8, <3>2, <3>3, <3>4, <3>5, <3>6
  <2>10. Splits(l, Point(l) + (j + 1), x, z) /\ Splits(r, Point(r) + (j + 1), y, z)
    <3>1. j + 1 \in 0..Places(l) /\ j + 1 \in 0..Places(r)
      BY <2>6, <2>7
    <3> QED
      BY <2>1, <2>3, <2>4, <2>6, <2>7, <2>8, <3>1, FractionSplits
  <2>11. /\ x < y => Lower(l, r) /\ ~Same(l, r)
         /\ y < x => ~Lower(l, r) /\ ~Same(l, r)
    BY <2>9, <2>10, BeginningsDecide
  <2>12. x < y \/ y < x
    BY ONLY <2>9
  <2>13. Compares \in BOOLEAN
    BY DEF Compares
  <2> QED
    BY <1>1, <2>1, <2>4, <2>9, <2>11, <2>12, <2>13
<1> QED
  BY <1>1, <1>2, OperandsAnswered

LEMMA FractionEndsJudged == Inv /\ Judged /\ FractionEnds => Judged'
<1> SUFFICES ASSUME Inv, Judged, FractionEnds PROVE Judged'
  OBVIOUS
<1>1. PICK result \in BOOLEAN :
        /\ phase = "fraction" /\ Return(result)
        /\ \/ AtEnd(rhs) /\ result = (~Compares /\ ~RestNonZero(lhs))
           \/ AtEnd(lhs) /\ result = (Compares = RestNonZero(rhs))
  BY DEF FractionEnds, Compares, RestNonZero
<1>2. ASSUME BothDocumented
      PROVE  Operands /\ (result <=> IF Compares THEN Lower(lhs.text, rhs.text)
                                     ELSE Same(lhs.text, rhs.text))
  <2>1. /\ Operands /\ SamePlaces
        /\ lhs \in Cursors /\ rhs \in Cursors
        /\ lhs.text \in Seq(Chars) /\ rhs.text \in Seq(Chars)
        /\ Documented(lhs.text) /\ Documented(rhs.text)
    BY <1>1, <1>2, FractionAlike
  <2>2. PICK j \in Nat : SameUpTo(j)
    BY <2>1 DEF SamePlaces
  <2>3. Point(lhs.text) <= Len(lhs.text) /\ Point(rhs.text) <= Len(rhs.text)
    BY <2>1 DEF SamePlaces
  <2>4. PICK l, r, a, k, q, s : /\ l = lhs.text /\ r = rhs.text
                                /\ q = Point(l) + j /\ s = Point(r) + j
                                /\ a = Value(l, q) /\ k = Power(l, j)
    OBVIOUS
  <2>5. /\ lhs.pos = q + 1 /\ rhs.pos = s + 1
        /\ j <= Places(l) /\ j <= Places(r) /\ a = Value(r, s) /\ k = Power(r, j)
    BY <2>2, <2>4 DEF SameUpTo
  <2>6. j \in 0..Places(l) /\ j \in 0..Places(r)
    <3>1. \A t \in Seq(Chars) : Places(t) \in Nat
      BY PowerFacts
    <3> QED
      BY <2>1, <2>4, <2>5, <3>1
  <2>7. Splits(l, q, a, k) /\ Splits(r, s, a, k)
    BY <2>1, <2>3, <2>4, <2>5, <2>6, FractionSplits
  <2>8. a \in Nat /\ k \in Nat \ {0}
    <3>1. q \in 0..Len(l)
      <4>1. PICK n, p : n = Len(l) /\ n \in Nat /\ p = Point(l) /\ p \in 1..n
                        /\ Places(l) = n - p
        BY <2>1, <2>3, <2>4, LenProperties, PointFacts DEF Places
      <4> QED
        BY <2>4, <2>6, <4>1
    <3>2. Value(l, q) \in Nat
      BY <2>1, <2>4, <3>1, ValueSteps
    <3>3. Power(l, j) \in Nat \ {0}
      BY <2>1, <2>4, <2>6, PowersTyped
    <3> QED
      BY <2>4, <3>2, <3>3
  <2>9. PICK left, right : /\ left = (\A i \in q + 1..Len(l) : l[i] = Zero)
                           /\ right = (\A i \in s + 1..Len(r) : r[i] = Zero)
    OBVIOUS
  <2>10. /\ left => (Lower(l, r) <=> ~right) /\ (Same(l, r) <=> right)
         /\ right => ~Lower(l, r) /\ (Same(l, r) <=> left)
    BY ONLY <2>7, <2>8, <2>9, RestsDecide
  <2>11. (RestNonZero(lhs) <=> ~left) /\ (RestNonZero(rhs) <=> ~right)
    BY <2>4, <2>5, <2>9 DEF RestNonZero
  <2>12. (AtEnd(lhs) => left) /\ (AtEnd(rhs) => right)
    BY <2>11 DEF RestNonZero, AtEnd, Inv, TypeOK, Cursors
  <2>13. Compares \in BOOLEAN /\ RestNonZero(rhs) \in BOOLEAN /\ RestNonZero(lhs) \in BOOLEAN
    BY DEF Compares, RestNonZero
  <2>14. CASE AtEnd(rhs) /\ result = (~Compares /\ ~RestNonZero(lhs))
    <3>1. result <=> IF Compares THEN Lower(l, r) ELSE Same(l, r)
      BY ONLY <2>10, <2>11, <2>12, <2>13, <2>14
    <3> QED
      BY <2>1, <2>4, <3>1
  <2>15. CASE AtEnd(lhs) /\ result = (Compares = RestNonZero(rhs))
    <3>1. result <=> (Compares <=> RestNonZero(rhs))
      BY ONLY <2>13, <2>15
    <3>2. result <=> IF Compares THEN Lower(l, r) ELSE Same(l, r)
      BY ONLY <2>10, <2>11, <2>12, <2>15, <3>1
    <3> QED
      BY <2>1, <2>4, <3>2
  <2> QED
    BY <1>1, <2>14, <2>15
<1> QED
  BY <1>1, <1>2, OperandsAnswered

-------------------------------------------------------------------------------
LEMMA InitJudged == Init => Judged
<1> SUFFICES ASSUME Init PROVE Judged
  OBVIOUS
<1>1. known = {} /\ phase = "idle"
  BY DEF Init
<1>2. ComparesValues
  BY <1>1, ComparesValuesIs
<1>3. ReadAlike
  BY <1>1 DEF ReadAlike
<1> QED
  BY <1>2, <1>3 DEF Judged

LEMMA NextJudged == Inv /\ Judged /\ [Next]_vars => Judged'
<1>1. Inv /\ Judged /\ Step => Judged'
  BY DifferentSignsJudged, SameSignsJudged, SameDigitJudged, OtherDigitJudged, DigitsEndJudged,
     FindLongerJudged, SameFractionDigitJudged, OtherFractionDigitJudged, FractionEndsJudged
     DEF Step
<1>2. Inv /\ Judged /\ UNCHANGED vars => Judged'
  <2> SUFFICES ASSUME Judged, UNCHANGED vars PROVE Judged'
    OBVIOUS
  <2>1. UNCHANGED <<call, lhs, rhs, left_leaning, phase, known>>
    BY DEF vars
  <2>2. ComparesValues'
    BY <2>1, Unanswered
  <2>3. ReadAlike'
    BY <2>1 DEF Judged, ReadAlike, BothDocumented, Operands, Swapped, Compares, SameRead, OtherRead,
                SamePlaces, SameUpTo
  <2> QED
    BY <2>2, <2>3 DEF Judged
<1> QED
  BY <1>1, <1>2, CallJudged DEF Next, Terminated

(* numeric_compare and numeric_equal tell the order and the equality of    *)
(* the numbers that two texts of the documented format stand for, however  *)
(* many digits they have and whatever signs, zeros, commas and points they *)
(* are written with: numbers that no integer type could hold.              *)
THEOREM ComparesByValue == Spec => []ComparesValues
<1>1. Init => Inv /\ Judged
  BY InitInv, InitJudged
<1>2. (Inv /\ Judged) /\ [Next]_vars => (Inv /\ Judged)'
  BY NextInv, NextJudged
<1>3. Inv /\ Judged => ComparesValues
  BY DEF Judged
<1> QED
  BY <1>1, <1>2, <1>3, PTL DEF Spec

-------------------------------------------------------------------------------
(* What numeric_hash mixes in of the digits before the point, one after    *)
(* the other.                                                              *)
MixStep(mixed, ch, k) == Mix(mixed, ch)
M == INSTANCE FoldLemmas WITH Op <- MixStep

Trimmed(text) == TrimLeadingZeros(TrimLeadingSign(text))
First(text) == Trimmed(text).pos - 1
WholeDigits(text) == SubSeq(text, First(text), Point(text) - 1)
MixedDigits(digits) == FoldLeft(Mix, <<>>, digits)

LEMMA MixedDigitsIs == ASSUME NEW digits PROVE MixedDigits(digits) = M!Fold(<<>>, digits, 0)
  BY DEF MixedDigits, MixStep, M!Fold, FoldLeft, M!FoldLeft, MapThenFoldSet,
         M!MapThenFoldSet, Max, M!Max

Mixes(text) ==
  CHOOSE v : /\ v[0] = <<>>
             /\ \A i \in 1..Point(text) - First(text) :
                  v[i] = Mix(v[i - 1], text[First(text) + i - 1])
             /\ MixedDigits(WholeDigits(text)) = v[Point(text) - First(text)]
Mixed(text, q) == Mixes(text)[q - First(text) + 1]

LEMMA FirstFacts ==
  ASSUME NEW text \in Seq(Chars), Documented(text), NEW d, d = Trimmed(text)
  PROVE  /\ d \in Cursors /\ Reading(d) /\ d.text = text /\ d.ch # Zero /\ NumberRead(d) = 0
         /\ First(text) \in 1..Point(text) /\ Before(d) = First(text) - 1
         /\ d.negative = Negative(text)
<1>1. PICK c : c = TrimLeadingSign(text)
  OBVIOUS
<1>2. d = TrimLeadingZeros(c)
  BY <1>1 DEF Trimmed
<1>3. /\ d \in Cursors /\ Reading(d) /\ d.text = text /\ NumberRead(d) = 0 /\ d.ch # Zero
      /\ Before(d) = d.pos - 2 /\ d.negative = c.negative
  BY ONLY <1>1, <1>2, text \in Seq(Chars), Documented(text), ZerosRead
<1>4. Before(d) \in 0..Point(text) - 1
  BY <1>3, ReadingTyped
<1>5. First(text) = d.pos - 1 /\ d.pos \in Nat
  BY <1>3 DEF First, Cursors
<1>6. First(text) \in 1..Point(text) /\ Before(d) = First(text) - 1
  <2>1. Point(text) \in Nat
    BY PointFacts
  <2> QED
    BY ONLY <1>3, <1>4, <1>5, <2>1
<1>7. c.negative = Negative(text)
  BY <1>1 DEF TrimLeadingSign, Negative
<1> QED
  BY <1>3, <1>6, <1>7

LEMMA MixedFacts ==
  ASSUME NEW text \in Seq(Chars), Documented(text)
  PROVE  /\ Mixed(text, First(text) - 1) = <<>>
         /\ \A q \in First(text)..Point(text) - 1 :
              Mixed(text, q) = Mix(Mixed(text, q - 1), text[q])
         /\ MixedDigits(WholeDigits(text)) = Mixed(text, Point(text) - 1)
<1>1. PICK n, p, f, m : /\ n = Len(text) /\ n \in Nat /\ p = Point(text) /\ p \in 1..n + 1
                        /\ f = First(text) /\ f \in 1..p /\ m = p - f /\ m \in Nat
  <2>1. First(text) \in 1..Point(text) /\ Point(text) \in 1..Len(text) + 1 /\ Len(text) \in Nat
    BY LenProperties, PointFacts, FirstFacts
  <2>2. Point(text) - First(text) \in Nat
    BY <2>1
  <2> QED
    BY <2>1, <2>2
<1>2. PICK digits : digits = WholeDigits(text)
  OBVIOUS
<1>3. DOMAIN digits = 1..m /\ \A i \in 1..m : digits[i] = text[f + i - 1]
  <2>1. digits = SubSeq(text, f, p - 1)
    BY <1>1, <1>2 DEF WholeDigits
  <2>2. PICK z : z = p - 1 /\ z \in Nat /\ m = z - f + 1 /\ f \in Nat
    BY <1>1
  <2>3. digits = [i \in 1..m |-> text[f + i - 1]]
    BY <2>1, <2>2
  <2> QED
    BY ONLY <2>3
<1>4. \E v : M!Steps(v, <<>>, digits, 0, m) /\ M!Fold(<<>>, digits, 0) = v[m]
  <2>1. m \in Nat /\ DOMAIN digits = 1..m
    BY <1>1, <1>3
  <2> QED
    BY ONLY <2>1, M!FoldValues
<1>5. MixedDigits(digits) = M!Fold(<<>>, digits, 0)
  BY MixedDigitsIs
<1>6. PICK v : v[0] = <<>> /\ (\A i \in 1..m : v[i] = Mix(v[i - 1], digits[i]))
               /\ MixedDigits(digits) = v[m]
  BY <1>4, <1>5 DEF M!Steps, MixStep
<1>7. \A i \in 1..m : v[i] = Mix(v[i - 1], text[f + i - 1])
  BY <1>3, <1>6
<1>8. PICK u : u = Mixes(text)
  OBVIOUS
<1>9. /\ u[0] = <<>> /\ \A i \in 1..m : u[i] = Mix(u[i - 1], text[f + i - 1])
      /\ MixedDigits(digits) = u[m]
  <2>1. v[0] = <<>> /\ (\A i \in 1..m : v[i] = Mix(v[i - 1], text[f + i - 1]))
        /\ MixedDigits(WholeDigits(text)) = v[m]
    BY <1>2, <1>6, <1>7
  <2>2. /\ u[0] = <<>> /\ (\A i \in 1..m : u[i] = Mix(u[i - 1], text[f + i - 1]))
        /\ MixedDigits(WholeDigits(text)) = u[m]
    BY ONLY <2>1, <1>1, <1>8 DEF Mixes
  <2> QED
    BY ONLY <2>2, <1>2
<1>10. \A q : Mixed(text, q) = u[q - f + 1]
  BY <1>1, <1>8 DEF Mixed
<1>11. (f - 1) - f + 1 = 0 /\ (p - 1) - f + 1 = m
  BY <1>1
<1>12. ASSUME NEW q \in f..p - 1
       PROVE  Mixed(text, q) = Mix(Mixed(text, q - 1), text[q])
  <2>1. PICK i : i = q - f + 1 /\ i \in 1..m /\ f + i - 1 = q /\ (q - 1) - f + 1 = i - 1
    <3>1. f \in Nat /\ p \in Nat /\ m = p - f /\ m \in Nat /\ q \in f..p - 1
      BY <1>1
    <3>2. PICK i : i = q - f + 1
      OBVIOUS
    <3>3. i \in 1..m /\ f + i - 1 = q /\ (q - 1) - f + 1 = i - 1
      BY ONLY <3>1, <3>2
    <3> QED
      BY <3>2, <3>3
  <2>2. u[i] = Mix(u[i - 1], text[q])
    BY <1>9, <2>1
  <2>3. Mixed(text, q) = u[i] /\ Mixed(text, q - 1) = u[i - 1]
    BY <1>10, <2>1
  <2> QED
    BY <2>2, <2>3
<1>13. Mixed(text, f - 1) = <<>> /\ Mixed(text, p - 1) = MixedDigits(digits)
  BY <1>9, <1>10, <1>11
<1> QED
  BY <1>1, <1>2, <1>12, <1>13

(* get_next and the commas that it skips.                                  *)
LEMMA NextMixed ==
  ASSUME NEW c \in Cursors, Reading(c), ~IsEnd(c.ch), Before(c) >= First(c.text) - 1
  PROVE  /\ Mixed(c.text, Before(GetNext(c))) = Append(Mixed(c.text, Before(c)), c.ch)
         /\ Before(GetNext(c)) >= First(c.text) - 1
<1>1. PICK t, n, p, f : /\ t = c.text /\ n = Len(t) /\ n \in Nat /\ p = Point(t) /\ p \in 1..n + 1
                        /\ t \in Seq(Chars) /\ Documented(t) /\ f = First(t) /\ f \in 1..p
  <2>1. c.text \in Seq(Chars) /\ Documented(c.text)
    BY DEF Reading
  <2> QED
    BY <2>1, LenProperties, PointFacts, FirstFacts
<1>2. PICK b, e : b = Before(c) /\ e = Before(GetNext(c))
  OBVIOUS
<1>3. /\ b \in 0..p - 1 /\ e \in 0..p - 1 /\ e > b /\ b + 1 <= n /\ t[b + 1] = c.ch
      /\ \A i \in b + 2..e : t[i] = Comma
  <2>1. /\ GetNext(c) \in Cursors /\ Reading(GetNext(c)) /\ GetNext(c).text = t
        /\ e > b /\ b + 1 <= n /\ t[b + 1] = c.ch
        /\ \A i \in b + 2..e : t[i] = Comma
    BY <1>1, <1>2, NextRead
  <2> QED
    BY <1>1, <1>2, <2>1, ReadingTyped
<1>4. b >= f - 1
  BY <1>1, <1>2
<1>5. \A q \in f..p - 1 : Mixed(t, q) = Mix(Mixed(t, q - 1), t[q])
  BY <1>1, MixedFacts
<1>6. c.ch # Comma
  <2>1. c.ch \in Digits
    BY ReadingTyped
  <2> QED
    BY <2>1, DigitFacts DEF Skipped
<1>7. PICK all : all = Append(Mixed(t, b), c.ch)
  OBVIOUS
<1>8. Mixed(t, b + 1) = all
  <2>1. b + 1 \in f..p - 1 /\ (b + 1) - 1 = b
    BY ONLY <1>1, <1>3, <1>4
  <2>2. Mixed(t, b + 1) = Mix(Mixed(t, b), c.ch)
    BY <1>3, <1>5, <2>1
  <2> QED
    BY <1>6, <1>7, <2>2 DEF Mix
<1> DEFINE T == {i \in 0..e - b - 1 : Mixed(t, b + 1 + i) = all}
<1>9. e - b - 1 \in Nat
  BY <1>3
<1>10. 0 \in T
  <2>1. b + 1 + 0 = b + 1
    BY <1>3
  <2> QED
    BY <1>8, <1>9, <2>1
<1>11. \A i \in 1..e - b - 1 : i - 1 \in T => i \in T
  <2> SUFFICES ASSUME NEW i \in 1..e - b - 1, i - 1 \in T PROVE i \in T
    OBVIOUS
  <2>1. PICK q : q = b + 1 + i
    OBVIOUS
  <2>2. q \in f..p - 1 /\ q \in b + 2..e /\ q - 1 = b + 1 + (i - 1) /\ i \in 0..e - b - 1
    <3>1. /\ f \in Nat /\ p \in Nat /\ f <= p /\ b \in Nat /\ e \in Nat /\ b <= p - 1 /\ e <= p - 1
          /\ b >= f - 1 /\ i \in Nat /\ i >= 1 /\ i <= e - b - 1
      BY <1>1, <1>3, <1>4
    <3> QED
      BY ONLY <2>1, <3>1
  <2>3. Mixed(t, q - 1) = all
    BY <2>2
  <2>4. Mixed(t, q) = all
    BY <1>3, <1>5, <2>2, <2>3 DEF Mix
  <2> QED
    BY <2>1, <2>2, <2>4
<1>12. 0..e - b - 1 \subseteq T
  <2> HIDE DEF T
  <2> QED
    BY ONLY <1>9, <1>10, <1>11, StepByStep
<1>13. Mixed(t, e) = all
  <2>1. e - b - 1 \in 0..e - b - 1 /\ b + 1 + (e - b - 1) = e
    BY <1>3
  <2>2. e - b - 1 \in T
    BY <2>1, <1>12
  <2> QED
    BY <2>1, <2>2
<1>14. e >= f - 1
  BY ONLY <1>1, <1>3, <1>4
<1> QED
  BY <1>1, <1>2, <1>7, <1>13, <1>14

(* What it mixes in of the point and the digits after it.                  *)
MixedFraction(text) == IF Point(text) <= Len(text) THEN FractionHashed(text, Point(text)) ELSE <<>>

LEMMA LastNonZeroFinds ==
  ASSUME NEW text \in Seq(Chars), NEW p \in 1..Len(text), text[p] # Zero,
         NEW last, last = LastNonZero(text, p)
  PROVE  /\ last \in p..Len(text) /\ text[last] # Zero
         /\ \A q \in last + 1..Len(text) : text[q] = Zero
<1>1. PICK n : n = Len(text) /\ n \in Nat /\ p \in 1..n
  BY LenProperties
<1> DEFINE T == {q \in p..n : text[q] # Zero}
<1>2. T \subseteq Int /\ p \in T /\ n \in Int /\ \A q \in T : q <= n
  BY <1>1
<1>3. Max(T) \in T /\ \A q \in T : q <= Max(T)
  <2>1. T # {}
    BY <1>2
  <2> HIDE DEF T
  <2> QED
    BY ONLY <1>2, <2>1, GreatestElement
<1>4. PICK m : m = Max(T)
  OBVIOUS
<1>5. m \in p..n /\ text[m] # Zero
  BY <1>3, <1>4
<1>6. \A q \in m + 1..n : text[q] = Zero
  <2> SUFFICES ASSUME NEW q \in m + 1..n, text[q] # Zero PROVE FALSE
    OBVIOUS
  <2>1. q \in T /\ q > m
    BY <1>1, <1>5
  <2> QED
    BY <1>3, <1>4, <1>5, <2>1
<1> QED
  BY <1>1, <1>5, <1>6 DEF LastNonZero

LEMMA NoFractionMixed ==
  ASSUME NEW text \in Seq(Chars), NoFraction(text)
  PROVE  MixedFraction(text) = <<>>
<1>1. PICK n, p : n = Len(text) /\ n \in Nat /\ p = Point(text) /\ p \in 1..n + 1
                  /\ (p <= n => text[p] = Dot)
  BY LenProperties, PointFacts
<1>2. CASE p <= n
  <2>1. p \in 1..n /\ text[p] # Zero
    BY <1>1, <1>2 DEF Dot, Zero
  <2>2. PICK last : last = LastNonZero(text, p)
    OBVIOUS
  <2>3. last \in p..n /\ text[last] # Zero
    BY <1>1, <2>1, <2>2, LastNonZeroFinds
  <2>4. last = p
    <3>1. \A i \in p + 1..n : text[i] = Zero
      BY <1>1 DEF NoFraction
    <3> QED
      BY <1>1, <2>3, <3>1
  <2> QED
    BY <1>1, <1>2, <2>2, <2>4 DEF MixedFraction, FractionHashed
<1>3. CASE ~(p <= n)
  BY <1>1, <1>3 DEF MixedFraction
<1> QED
  BY <1>2, <1>3

(* Fractions that are the same but for zeros at their ends.                *)
SameFraction(l, r, j) ==
  /\ Point(l) <= Len(l) /\ Point(r) <= Len(r)
  /\ j \in Nat /\ j <= Places(l) /\ j <= Places(r)
  /\ \A i \in 1..j : l[Point(l) + i] = r[Point(r) + i]
  /\ \A q \in Point(l) + j + 1..Len(l) : l[q] = Zero
  /\ \A q \in Point(r) + j + 1..Len(r) : r[q] = Zero

LEMMA LastPlaceNotAfter ==
  ASSUME NEW l \in Seq(Chars), NEW r \in Seq(Chars), NEW j, SameFraction(l, r, j),
         NEW x, NEW y, x = LastNonZero(l, Point(l)) - Point(l), y = LastNonZero(r, Point(r)) - Point(r)
  PROVE  x \in 0..j /\ y \in 0..j /\ ~(x < y)
<1>1. PICK n, p : /\ n = Len(l) /\ n \in Nat /\ p = Point(l) /\ p \in 1..n /\ l[p] = Dot
                  /\ Places(l) = n - p
  BY LenProperties, PointFacts DEF SameFraction, Places
<1>2. PICK m, q : /\ m = Len(r) /\ m \in Nat /\ q = Point(r) /\ q \in 1..m /\ r[q] = Dot
                  /\ Places(r) = m - q
  BY LenProperties, PointFacts DEF SameFraction, Places
<1>3. Dot # Zero
  BY DEF Dot, Zero
<1>4. /\ j \in Nat /\ j <= n - p /\ j <= m - q
      /\ \A i \in 1..j : l[p + i] = r[q + i]
      /\ \A i \in p + j + 1..n : l[i] = Zero
      /\ \A i \in q + j + 1..m : r[i] = Zero
  BY <1>1, <1>2 DEF SameFraction
<1>5. PICK a, b : a = LastNonZero(l, p) /\ b = LastNonZero(r, q)
  OBVIOUS
<1>6. a \in p..n /\ l[a] # Zero /\ \A i \in a + 1..n : l[i] = Zero
  BY <1>1, <1>3, <1>5, LastNonZeroFinds
<1>7. b \in q..m /\ r[b] # Zero
  BY <1>2, <1>3, <1>5, LastNonZeroFinds
<1>8. x = a - p /\ y = b - q
  BY <1>1, <1>2, <1>5
<1>9. x \in 0..j
  <2>1. ~(a \in p + j + 1..n)
    BY <1>4, <1>6
  <2>2. n \in Nat /\ p \in 1..n /\ j \in Nat /\ a \in p..n /\ x = a - p
    BY <1>1, <1>4, <1>6, <1>8
  <2> QED
    BY ONLY <2>1, <2>2
<1>10. y \in 0..j
  <2>1. ~(b \in q + j + 1..m)
    BY <1>4, <1>7
  <2>2. m \in Nat /\ q \in 1..m /\ j \in Nat /\ b \in q..m /\ y = b - q
    BY <1>2, <1>4, <1>7, <1>8
  <2> QED
    BY ONLY <2>1, <2>2
<1>11. ASSUME x < y PROVE FALSE
  <2>1. y \in 1..j /\ q + y = b
    BY ONLY <1>2, <1>7, <1>8, <1>9, <1>10, <1>11
  <2>2. l[p + y] = r[b]
    BY <1>4, <2>1
  <2>3. p + y \in a + 1..n
    <3>1. n \in Nat /\ p \in 1..n /\ a \in p..n /\ x = a - p /\ x < y /\ y \in 1..j
      BY <1>1, <1>6, <1>8, <1>11, <2>1
    <3>2. j \in Nat /\ j <= n - p
      BY <1>1, <1>4
    <3> QED
      BY ONLY <3>1, <3>2
  <2> QED
    BY <1>6, <1>7, <2>2, <2>3
<1> QED
  BY <1>9, <1>10, <1>11

LEMMA SameFractionMixed ==
  ASSUME NEW l \in Seq(Chars), NEW r \in Seq(Chars), NEW j, SameFraction(l, r, j)
  PROVE  MixedFraction(l) = MixedFraction(r)
<1>1. PICK n, p : n = Len(l) /\ n \in Nat /\ p = Point(l) /\ p \in 1..n /\ l[p] = Dot
                  /\ Places(l) = n - p
  BY LenProperties, PointFacts DEF SameFraction, Places
<1>2. PICK m, q : m = Len(r) /\ m \in Nat /\ q = Point(r) /\ q \in 1..m /\ r[q] = Dot
                  /\ Places(r) = m - q
  BY LenProperties, PointFacts DEF SameFraction, Places
<1>3. SameFraction(r, l, j)
  BY DEF SameFraction
<1>4. PICK x, y : x = LastNonZero(l, p) - p /\ y = LastNonZero(r, q) - q
  OBVIOUS
<1>5. x \in 0..j /\ y \in 0..j /\ ~(x < y) /\ ~(y < x)
  BY <1>1, <1>2, <1>3, <1>4, LastPlaceNotAfter
<1>6. j \in Nat /\ j <= n - p /\ j <= m - q
  BY <1>1, <1>2 DEF SameFraction
<1>7. x = y /\ x \in Nat /\ x <= j
  BY ONLY <1>5, <1>6
<1>7a. /\ n \in Nat /\ m \in Nat /\ p \in Nat /\ q \in Nat /\ p >= 1 /\ q >= 1
       /\ x \in Nat /\ p + x <= n /\ q + x <= m
  BY <1>1, <1>2, <1>6, <1>7
<1>8. LastNonZero(l, p) = p + x /\ LastNonZero(r, q) = q + x
  <2>1. PICK a, b : a = LastNonZero(l, p) /\ b = LastNonZero(r, q)
    OBVIOUS
  <2>2. a \in p..n /\ b \in q..m
    <3>1. Dot # Zero
      BY DEF Dot, Zero
    <3> QED
      BY <1>1, <1>2, <2>1, <3>1, LastNonZeroFinds
  <2>3. x = a - p /\ x = b - q
    BY <1>4, <1>7, <2>1
  <2>4. a = p + x /\ b = q + x
    <3>1. a \in Nat /\ b \in Nat /\ p \in Nat /\ q \in Nat
      BY <2>2, <1>7a
    <3> QED
      BY ONLY <2>3, <3>1
  <2> QED
    BY <2>1, <2>4
<1>9. PICK s, t : s = SubSeq(l, p, p + x) /\ t = SubSeq(r, q, q + x)
  OBVIOUS
<1>10. s = t
  <2>1. /\ p \in Nat \ {0} /\ q \in Nat \ {0} /\ p + x \in 0..n /\ q + x \in 0..m
        /\ (p + x) - p + 1 = x + 1 /\ (q + x) - q + 1 = x + 1 /\ p <= p + x /\ q <= q + x
    BY ONLY <1>7a
  <2>2. IsSequence(l) /\ IsSequence(r)
    BY DEF IsSequence
  <2>3. IsSequence(s) /\ Len(s) = x + 1 /\ \A i \in 1..Len(s) : s[i] = l[p + i - 1]
    <3>1. PICK a \in Nat \ {0} : a = p
      BY <2>1
    <3>2. PICK b \in 0..Len(l) : b = p + x
      BY <1>1, <2>1
    <3>3. /\ IsSequence(SubSeq(l, a, b))
          /\ Len(SubSeq(l, a, b)) = IF a <= b THEN b - a + 1 ELSE 0
          /\ \A i \in 1..Len(SubSeq(l, a, b)) : SubSeq(l, a, b)[i] = l[a + i - 1]
      BY <2>2, PartSequence
    <3>4. s = SubSeq(l, a, b) /\ a <= b /\ b - a + 1 = x + 1
      BY <1>9, <2>1, <3>1, <3>2
    <3> QED
      BY <3>1, <3>3, <3>4
  <2>4. IsSequence(t) /\ Len(t) = x + 1 /\ \A i \in 1..Len(t) : t[i] = r[q + i - 1]
    <3>1. PICK a \in Nat \ {0} : a = q
      BY <2>1
    <3>2. PICK b \in 0..Len(r) : b = q + x
      BY <1>2, <2>1
    <3>3. /\ IsSequence(SubSeq(r, a, b))
          /\ Len(SubSeq(r, a, b)) = IF a <= b THEN b - a + 1 ELSE 0
          /\ \A i \in 1..Len(SubSeq(r, a, b)) : SubSeq(r, a, b)[i] = r[a + i - 1]
      BY <2>2, PartSequence
    <3>4. t = SubSeq(r, a, b) /\ a <= b /\ b - a + 1 = x + 1
      BY <1>9, <2>1, <3>1, <3>2
    <3> QED
      BY <3>1, <3>3, <3>4
  <2>5. \A i \in 1..j : l[p + i] = r[q + i]
    BY <1>1, <1>2 DEF SameFraction
  <2>6. \A i \in 1..x + 1 : s[i] = t[i]
    <3> SUFFICES ASSUME NEW i \in 1..x + 1 PROVE l[p + i - 1] = r[q + i - 1]
      BY <2>3, <2>4
    <3>1. CASE i = 1
      <4>1. p + i - 1 = p /\ q + i - 1 = q
        BY <1>1, <1>2, <3>1
      <4> QED
        BY <1>1, <1>2, <4>1
    <3>2. CASE i # 1
      <4>1. PICK k : k = i - 1 /\ k \in 1..j /\ p + i - 1 = p + k /\ q + i - 1 = q + k
        BY <1>1, <1>2, <1>6, <1>7, <3>2
      <4> QED
        BY <2>5, <4>1
    <3> QED
      BY <3>1, <3>2
  <2> QED
    BY <2>3, <2>4, <2>6, SameSequence
<1>11. p + x = p <=> q + x = q
  BY ONLY <1>7a
<1>12. FractionHashed(l, p) = IF p + x = p THEN <<>> ELSE Reverse(s)
  BY <1>8, <1>9 DEF FractionHashed
<1>13. FractionHashed(r, q) = IF q + x = q THEN <<>> ELSE Reverse(t)
  BY <1>8, <1>9 DEF FractionHashed
<1>14. MixedFraction(l) = FractionHashed(l, p) /\ MixedFraction(r) = FractionHashed(r, q)
  BY <1>1, <1>2 DEF MixedFraction
<1> QED
  BY <1>10, <1>11, <1>12, <1>13, <1>14

(* The hash of a text of the documented format.                            *)
Hash(mixed, negative) == IF negative /\ mixed # <<>> THEN Append(mixed, Minus) ELSE mixed

LEMMA HashIs ==
  ASSUME NEW text \in Seq(Chars), Documented(text)
  PROVE  NumericHash(text) =
           Hash(Mixed(text, Point(text) - 1) \o MixedFraction(text), Negative(text))
<1>1. PICK n, p, d, f : /\ n = Len(text) /\ n \in Nat /\ p = Point(text) /\ p \in 1..n + 1
                        /\ d = Trimmed(text) /\ f = d.pos - 1 /\ f = First(text) /\ f \in 1..p
                        /\ d.negative = Negative(text)
  BY LenProperties, PointFacts, FirstFacts DEF First
<1>2. PICK last : last = SkipTo(text, f, Chars \ {Dot, STR_END})
  OBVIOUS
<1>3. last = p
  <2>1. f \in 1..Len(text) + 1
    BY <1>1
  <2>2. /\ last \in f..n + 1
        /\ \A i \in f..last - 1 : text[i] \in Chars \ {Dot, STR_END}
        /\ last = n + 1 \/ text[last] \notin Chars \ {Dot, STR_END}
    <3>1. PICK chars : chars = Chars \ {Dot, STR_END}
      OBVIOUS
    <3>2. last = SkipTo(text, f, chars)
      BY <1>2, <3>1
    <3>3. /\ last \in f..Len(text) + 1
          /\ \A i \in f..last - 1 : text[i] \in chars
          /\ last = Len(text) + 1 \/ text[last] \notin chars
      BY ONLY <2>1, <3>2, text \in Seq(Chars), SkipToFinds
    <3> QED
      BY <1>1, <3>1, <3>3
  <2>3. ~(last < p)
    <3> SUFFICES ASSUME last < p PROVE FALSE
      OBVIOUS
    <3>1. last \in 1..p - 1 /\ last \in 1..n /\ last # n + 1
      BY <1>1, <2>2
    <3>2. text[last] \in Digits \cup {Comma, Minus}
      BY <1>1, <3>1, DocumentedChars
    <3>3. text[last] \in Chars /\ text[last] # Dot /\ text[last] # STR_END
      BY <1>1, <3>1, <3>2, DigitFacts DEF Skipped, Comma, Minus, Dot, STR_END
    <3> QED
      BY <2>2, <3>1, <3>3
  <2>4. ~(last > p)
    <3> SUFFICES ASSUME last > p PROVE FALSE
      OBVIOUS
    <3>1. p <= n /\ p \in f..last - 1
      BY <1>1, <2>2
    <3> QED
      BY <1>1, <2>2, <3>1, PointFacts
  <2> QED
    BY ONLY <1>1, <2>2, <2>3, <2>4
<1>4. CharAt(text, p) = Dot <=> p <= n
  <2>1. STR_END # Dot
    BY DEF STR_END, Dot
  <2> QED
    BY <1>1, <2>1, PointFacts DEF CharAt
<1>5. PICK digits, fraction, mixed :
        /\ digits = MixedDigits(SubSeq(text, f, p - 1)) /\ fraction = MixedFraction(text)
        /\ mixed = digits \o fraction
  OBVIOUS
<1>6. fraction = IF CharAt(text, p) = Dot THEN FractionHashed(text, p) ELSE <<>>
  BY <1>1, <1>4, <1>5 DEF MixedFraction
<1>7. NumericHash(text) = Hash(mixed, d.negative)
  <2>1. d = TrimLeadingZeros(TrimLeadingSign(text))
    BY <1>1 DEF Trimmed
  <2> QED
    BY <1>1, <1>2, <1>3, <1>5, <1>6, <2>1, Zenon DEF NumericHash, Hash, MixedDigits
<1>8. digits = Mixed(text, p - 1)
  BY <1>1, <1>5, MixedFacts DEF WholeDigits
<1> QED
  BY <1>1, <1>5, <1>7, <1>8

-------------------------------------------------------------------------------
(* HashesAgree is not inductive either: the digits that numeric_equal has  *)
(* found to be the same are those that numeric_hash mixes.                 *)
MixedAlike ==
  /\ Before(lhs) >= First(lhs.text) - 1 /\ Before(rhs) >= First(rhs.text) - 1
  /\ Mixed(lhs.text, Before(lhs)) = Mixed(rhs.text, Before(rhs))

PlacesAlike ==
  /\ Mixed(lhs.text, Point(lhs.text) - 1) = Mixed(rhs.text, Point(rhs.text) - 1)
  /\ \A i \in 1..lhs.pos - Point(lhs.text) - 1 :
       lhs.text[Point(lhs.text) + i] = rhs.text[Point(rhs.text) + i]

HashAlike ==
  BothDocumented /\ ~Compares =>
    /\ phase = "digits" => MixedAlike
    /\ phase = "fraction" => PlacesAlike

Hashed == HashesAgree /\ HashAlike

LEMMA HashAnswered ==
  ASSUME NEW result, Hashed, Return(result),
         BothDocumented /\ ~Compares /\ result =>
           NumericHash(call.left) = NumericHash(call.right)
  PROVE  Hashed'
<1>1. PICK k : k = [call |-> call, result |-> result]
  OBVIOUS
<1>2. k.call = call /\ k.result = result /\ known' = known \cup {k}
  BY <1>1 DEF Return
<1> DEFINE Agrees(m) ==
             Documented(m.call.left) /\ Documented(m.call.right) /\ m.call.op = "equal" /\ m.result =>
               NumericHash(m.call.left) = NumericHash(m.call.right)
<1>3. Agrees(k)
  <2>1. k.call.op = "equal" => ~Compares
    BY <1>2 DEF Compares
  <2> QED
    BY <1>2, <2>1 DEF BothDocumented
<1>4. \A m \in known : Agrees(m)
  BY Zenon DEF Hashed, HashesAgree
<1>5. \A m \in known' : Agrees(m)
  <2> HIDE DEF Agrees
  <2> QED
    BY <1>2, <1>3, <1>4
<1>6. HashesAgree'
  BY <1>5, Zenon DEF HashesAgree
<1>7. phase' = "idle"
  BY DEF Return
<1>8. HashAlike'
  BY <1>7 DEF HashAlike
<1> QED
  BY <1>6, <1>8 DEF Hashed

LEMMA HashUnanswered ==
  ASSUME Hashed, UNCHANGED known
  PROVE  HashesAgree'
  BY DEF Hashed, HashesAgree

(* If the parts are the same, the hashes are.                              *)
LEMMA PartsHashed ==
  ASSUME NEW result, Inv, Hashed, Return(result),
         BothDocumented => Operands,
         BothDocumented /\ ~Compares /\ result =>
           /\ Mixed(lhs.text, Point(lhs.text) - 1) = Mixed(rhs.text, Point(rhs.text) - 1)
           /\ MixedFraction(lhs.text) = MixedFraction(rhs.text)
  PROVE  Hashed'
<1>1. ASSUME BothDocumented, ~Compares, result
      PROVE  NumericHash(call.left) = NumericHash(call.right)
  <2>1. PICK l, r : l = lhs.text /\ r = rhs.text
    OBVIOUS
  <2>2. l = call.left /\ r = call.right /\ Negative(l) = Negative(r)
    BY <1>1, <2>1 DEF Operands, Swapped
  <2>3. l \in Seq(Chars) /\ r \in Seq(Chars) /\ Documented(l) /\ Documented(r)
    BY <1>1, <2>1, OperandsTyped
  <2>4. /\ NumericHash(l) = Hash(Mixed(l, Point(l) - 1) \o MixedFraction(l), Negative(l))
        /\ NumericHash(r) = Hash(Mixed(r, Point(r) - 1) \o MixedFraction(r), Negative(r))
    BY <2>3, HashIs
  <2>5. Mixed(l, Point(l) - 1) = Mixed(r, Point(r) - 1) /\ MixedFraction(l) = MixedFraction(r)
    BY <1>1, <2>1
  <2> QED
    BY <2>2, <2>4, <2>5
<1> QED
  BY <1>1, HashAnswered

-------------------------------------------------------------------------------
(* A text that is zero has nothing to mix, not even its sign.              *)
LEMMA ZeroHashed ==
  ASSUME NEW text \in Seq(Chars), Documented(text), Absolute(text) = 0
  PROVE  NumericHash(text) = <<>>
<1>1. Splits(text, Point(text), Whole(text), 1)
  BY WholeSplits
<1>2. PICK d \in Cursors : /\ d = Trimmed(text) /\ Reading(d) /\ d.text = text /\ d.ch # Zero
                           /\ NumberRead(d) = 0 /\ Before(d) = First(text) - 1
  BY FirstFacts
<1>3. Whole(text) \in Nat
  BY <1>2, ReadingTyped
<1>4. PICK w \in Nat \ {0} : \E rest \in 0..w - 1 :
        /\ 0 = Whole(text) * w + rest
        /\ rest = 0 <=> \A i \in Point(text) + 1..Len(text) : text[i] = Zero
  BY <1>1 DEF Splits
<1>5. PICK rest \in 0..w - 1 :
        /\ 0 = Whole(text) * w + rest
        /\ rest = 0 <=> \A i \in Point(text) + 1..Len(text) : text[i] = Zero
  BY <1>4
<1>6. rest = 0 /\ Whole(text) = 0
  <2>1. PICK v \in Nat : v = Whole(text)
    BY <1>3
  <2>2. w \in Nat /\ w # 0 /\ rest \in Nat /\ 0 = v * w + rest
    BY <1>4, <1>5, <2>1
  <2>3. rest = 0 /\ v = 0
    BY ONLY <2>1, <2>2
  <2> QED
    BY <2>1, <2>3
<1>7. MixedFraction(text) = <<>>
  <2>1. NoFraction(text)
    BY <1>5, <1>6 DEF NoFraction
  <2> QED
    BY <2>1, NoFractionMixed
<1>8. IsEnd(d.ch)
  <2> SUFFICES ASSUME ~IsEnd(d.ch) PROVE FALSE
    OBVIOUS
  <2>1. Whole(text) >= 10 * NumberRead(d) + (d.ch - Zero)
    BY <1>2, WholeAtLeast
  <2>2. d.ch - Zero \in 0..9 /\ d.ch - Zero # 0
    BY <1>2, ReadingTyped, DigitFacts
  <2>3. PICK x : x = d.ch - Zero
    OBVIOUS
  <2>4. 0 >= 10 * 0 + x /\ x \in 0..9 /\ x # 0
    BY <1>2, <1>6, <2>1, <2>2, <2>3
  <2> QED
    BY ONLY <2>4
<1>9. Mixed(text, Point(text) - 1) = <<>>
  <2>1. Before(d) = Point(text) - 1
    BY <1>2, <1>8, ReadingTyped
  <2>2. Mixed(text, First(text) - 1) = <<>>
    BY MixedFacts
  <2> QED
    BY <1>2, <2>1, <2>2
<1>10. <<>> \o <<>> = <<>>
  OBVIOUS
<1> QED
  BY <1>7, <1>9, <1>10, HashIs DEF Hash

LEMMA DifferentSignsHashed == Inv /\ Judged /\ Hashed /\ DifferentSigns => Hashed'
<1> SUFFICES ASSUME Inv, Judged, Hashed, DifferentSigns PROVE Hashed'
  OBVIOUS
<1>1. PICK result : /\ result = (IF Compares THEN lhs.negative /\ ~BothZero(lhs, rhs)
                                 ELSE BothZero(lhs, rhs))
                    /\ Return(result) /\ phase = "signs"
  BY Zenon DEF DifferentSigns
<1>2. ASSUME BothDocumented, ~Compares, result
      PROVE  NumericHash(call.left) = NumericHash(call.right)
  <2>1. PICK l, r : /\ l = call.left /\ r = call.right
                    /\ l \in Seq(Chars) /\ r \in Seq(Chars) /\ Documented(l) /\ Documented(r)
                    /\ lhs = TrimLeadingSign(l) /\ rhs = TrimLeadingSign(r)
    BY <1>1, <1>2, SignsTrimmed DEF BothDocumented
  <2>2. ~NonZero(lhs) /\ ~NonZero(rhs)
    BY <1>1, <1>2 DEF BothZero
  <2>3. Absolute(l) = 0 /\ Absolute(r) = 0
    BY <2>1, <2>2, NonZeroExact
  <2> QED
    BY <2>1, <2>3, ZeroHashed
<1> QED
  BY <1>1, <1>2, HashAnswered

LEMMA SameSignsHashed == Inv /\ Judged /\ Hashed /\ SameSigns => Hashed'
<1> SUFFICES ASSUME Inv, Judged, Hashed, SameSigns PROVE Hashed'
  OBVIOUS
<1>1. /\ phase = "signs" /\ phase' = "digits" /\ UNCHANGED <<call, known>>
      /\ lhs' = TrimLeadingZeros(IF Swaps THEN rhs ELSE lhs)
      /\ rhs' = TrimLeadingZeros(IF Swaps THEN lhs ELSE rhs)
  BY DEF SameSigns
<1>2. ASSUME BothDocumented, ~Compares
      PROVE  MixedAlike'
  <2>1. PICK l, r : /\ l = call.left /\ r = call.right
                    /\ l \in Seq(Chars) /\ r \in Seq(Chars) /\ Documented(l) /\ Documented(r)
                    /\ lhs = TrimLeadingSign(l) /\ rhs = TrimLeadingSign(r)
    BY <1>1, <1>2, SignsTrimmed DEF BothDocumented
  <2>2. lhs' = Trimmed(l) /\ rhs' = Trimmed(r)
    BY <1>1, <1>2, <2>1 DEF Swaps, Trimmed
  <2>3. /\ lhs'.text = l /\ Before(lhs') = First(l) - 1 /\ First(l) \in Int
        /\ rhs'.text = r /\ Before(rhs') = First(r) - 1 /\ First(r) \in Int
    BY <2>1, <2>2, FirstFacts
  <2>4. Mixed(l, First(l) - 1) = <<>> /\ Mixed(r, First(r) - 1) = <<>>
    BY <2>1, MixedFacts
  <2>5. PICK b, c : b = Before(lhs') /\ c = Before(rhs')
    OBVIOUS
  <2>6. b >= First(l) - 1 /\ c >= First(r) - 1 /\ Mixed(l, b) = <<>> /\ Mixed(r, c) = <<>>
    BY <2>3, <2>4, <2>5
  <2> QED
    BY <2>3, <2>5, <2>6 DEF MixedAlike
<1>3. HashAlike'
  BY <1>1, <1>2 DEF HashAlike, BothDocumented, Compares
<1> QED
  BY <1>1, <1>3, HashUnanswered DEF Hashed

LEMMA CallHashed == Inv /\ Hashed /\ Call => Hashed'
<1> SUFFICES ASSUME Inv, Hashed, Call PROVE Hashed'
  OBVIOUS
<1>1. phase' = "signs" /\ UNCHANGED known
  BY DEF Call
<1>2. HashAlike'
  BY <1>1 DEF HashAlike
<1> QED
  BY <1>1, <1>2, HashUnanswered DEF Hashed

LEMMA SameDigitHashed == Inv /\ Judged /\ Hashed /\ SameDigit => Hashed'
<1> SUFFICES ASSUME Inv, Judged, Hashed, SameDigit PROVE Hashed'
  OBVIOUS
<1>1. /\ phase = "digits" /\ phase' = "digits" /\ UNCHANGED <<call, known>>
      /\ ~IsEnd(lhs.ch) /\ lhs.ch = rhs.ch
      /\ lhs' = GetNext(lhs) /\ rhs' = GetNext(rhs)
      /\ lhs \in Cursors /\ rhs \in Cursors
  BY DEF SameDigit, Inv, TypeOK
<1>2. ASSUME BothDocumented, ~Compares
      PROVE  MixedAlike'
  <2>1. Reading(lhs) /\ Reading(rhs)
    BY <1>1, <1>2 DEF Judged, ReadAlike, SameRead
  <2>2. MixedAlike
    BY <1>1, <1>2 DEF Hashed, HashAlike
  <2>3. lhs'.text = lhs.text /\ rhs'.text = rhs.text
    BY <1>1, <2>1, NextRead
  <2>4. /\ Mixed(lhs.text, Before(lhs')) = Append(Mixed(lhs.text, Before(lhs)), lhs.ch)
        /\ Before(lhs') >= First(lhs.text) - 1
    BY <1>1, <2>1, <2>2, NextMixed DEF MixedAlike
  <2>5. /\ Mixed(rhs.text, Before(rhs')) = Append(Mixed(rhs.text, Before(rhs)), rhs.ch)
        /\ Before(rhs') >= First(rhs.text) - 1
    BY <1>1, <2>1, <2>2, NextMixed DEF MixedAlike
  <2>6. Mixed(lhs.text, Before(lhs)) = Mixed(rhs.text, Before(rhs))
    BY <2>2 DEF MixedAlike
  <2>7. Mixed(lhs.text, Before(lhs')) = Mixed(rhs.text, Before(rhs'))
    BY <1>1, <2>4, <2>5, <2>6
  <2> QED
    BY <2>3, <2>4, <2>5, <2>7 DEF MixedAlike
<1>3. HashAlike'
  BY <1>1, <1>2 DEF HashAlike, BothDocumented, Compares
<1> QED
  BY <1>1, <1>3, HashUnanswered DEF Hashed

LEMMA OtherDigitHashed == Inv /\ Judged /\ Hashed /\ OtherDigit => Hashed'
<1> SUFFICES ASSUME Inv, Judged, Hashed, OtherDigit PROVE Hashed'
  OBVIOUS
<1>1. CASE Compares
  <2>1. phase' = "longer" /\ UNCHANGED known
    BY <1>1 DEF OtherDigit
  <2>2. HashAlike'
    BY <2>1 DEF HashAlike
  <2> QED
    BY <2>1, <2>2, HashUnanswered DEF Hashed
<1>2. CASE ~Compares
  <2>1. Return(FALSE)
    BY <1>2 DEF OtherDigit
  <2> QED
    BY <2>1, HashAnswered
<1> QED
  BY <1>1, <1>2

LEMMA FindLongerHashed == Inv /\ Judged /\ Hashed /\ FindLonger => Hashed'
<1> SUFFICES ASSUME Inv, Judged, Hashed, FindLonger PROVE Hashed'
  OBVIOUS
<1>1. BothDocumented => Compares
  BY DEF FindLonger, Judged, ReadAlike, OtherRead
<1>2. CASE IsEnd(lhs.ch) \/ IsEnd(rhs.ch)
  <2>1. PICK result : Return(result)
    BY <1>2 DEF FindLonger
  <2> QED
    BY <1>1, <2>1, HashAnswered
<1>3. CASE ~(IsEnd(lhs.ch) \/ IsEnd(rhs.ch))
  <2>1. phase' = "longer" /\ UNCHANGED known
    BY <1>3 DEF FindLonger
  <2>2. HashAlike'
    BY <2>1 DEF HashAlike
  <2> QED
    BY <2>1, <2>2, HashUnanswered DEF Hashed
<1> QED
  BY <1>2, <1>3

LEMMA DigitsEndHashed == Inv /\ Judged /\ Hashed /\ DigitsEnd => Hashed'
<1> SUFFICES ASSUME Inv, Judged, Hashed, DigitsEnd PROVE Hashed'
  OBVIOUS
<1>1. phase = "digits" /\ lhs \in Cursors /\ rhs \in Cursors
  BY DEF DigitsEnd, Inv, TypeOK
<1>2. BothDocumented => Operands /\ Reading(lhs) /\ Reading(rhs)
  BY <1>1 DEF Judged, ReadAlike, SameRead
<1>3. PICK l, r : l = lhs.text /\ r = rhs.text
  OBVIOUS
<1>4. ASSUME BothDocumented, ~Compares, IsEnd(lhs.ch), IsEnd(rhs.ch)
      PROVE  /\ Mixed(l, Point(l) - 1) = Mixed(r, Point(r) - 1)
             /\ lhs.ch = STR_END => NoFraction(l)
             /\ rhs.ch = STR_END => NoFraction(r)
             /\ lhs.ch = Dot => lhs.pos = Point(l) + 1 /\ (~RestNonZero(lhs) => NoFraction(l))
             /\ rhs.ch = Dot => rhs.pos = Point(r) + 1 /\ (~RestNonZero(rhs) => NoFraction(r))
             /\ Point(l) \in Nat
  <2>1. Before(lhs) = Point(l) - 1 /\ Before(rhs) = Point(r) - 1
    BY <1>1, <1>2, <1>3, <1>4, ReadingTyped
  <2>2. MixedAlike
    BY <1>1, <1>4 DEF Hashed, HashAlike
  <2>3. Mixed(l, Point(l) - 1) = Mixed(r, Point(r) - 1)
    BY <1>3, <2>1, <2>2 DEF MixedAlike
  <2>4. Point(l) \in Nat
    BY <1>2, <1>3, <1>4, PointFacts DEF Reading
  <2> QED
    BY <1>1, <1>2, <1>3, <1>4, <2>3, <2>4, EndReached
<1>5. ASSUME NEW result, Return(result),
             BothDocumented /\ ~Compares /\ result =>
               /\ Mixed(l, Point(l) - 1) = Mixed(r, Point(r) - 1)
               /\ NoFraction(l) /\ NoFraction(r) /\ l \in Seq(Chars) /\ r \in Seq(Chars)
      PROVE  Hashed'
  <2>1. BothDocumented /\ ~Compares /\ result => MixedFraction(l) = MixedFraction(r)
    BY <1>5, NoFractionMixed
  <2> QED
    BY <1>2, <1>3, <1>5, <2>1, PartsHashed
<1>6. BothDocumented => l \in Seq(Chars) /\ r \in Seq(Chars)
  BY <1>2, <1>3 DEF Reading
<1>7. \A ch : ch = STR_END \/ ch = Dot => IsEnd(ch)
  BY DEF IsEnd
<1>8. CASE ~IsEnd(lhs.ch) /\ Return(FALSE)
  BY <1>8, HashAnswered
<1>9. CASE ~IsEnd(rhs.ch) /\ Return(Compares)
  <2>1. PICK result : result = Compares /\ Return(result)
    BY <1>9
  <2> QED
    BY <2>1, HashAnswered
<1>10. CASE lhs.ch = STR_END /\ rhs.ch = STR_END /\ Return(~Compares)
  <2>1. PICK result : result = ~Compares /\ Return(result)
    BY <1>10
  <2> QED
    BY <1>4, <1>5, <1>6, <1>7, <1>10, <2>1
<1>11. CASE lhs.ch = STR_END /\ rhs.ch = Dot /\ Return(Compares = RestNonZero(rhs))
  <2>1. PICK result : result = (Compares = RestNonZero(rhs)) /\ Return(result)
    BY <1>11
  <2>2. result /\ ~Compares => ~RestNonZero(rhs)
    BY <2>1
  <2> QED
    BY <1>4, <1>5, <1>6, <1>7, <1>11, <2>1, <2>2
<1>12. CASE lhs.ch = Dot /\ rhs.ch = STR_END /\ Return(~Compares /\ ~RestNonZero(lhs))
  <2>1. PICK result : result = (~Compares /\ ~RestNonZero(lhs)) /\ Return(result)
    BY <1>12
  <2>2. result => ~RestNonZero(lhs)
    BY <2>1
  <2> QED
    BY <1>4, <1>5, <1>6, <1>7, <1>12, <2>1, <2>2
<1>13. CASE /\ lhs.ch = Dot /\ rhs.ch = Dot
            /\ phase' = "fraction"
            /\ UNCHANGED <<call, lhs, rhs, left_leaning, known>>
  <2>1. ASSUME BothDocumented, ~Compares
        PROVE  PlacesAlike
    <3>1. /\ Mixed(l, Point(l) - 1) = Mixed(r, Point(r) - 1)
          /\ lhs.pos = Point(l) + 1 /\ Point(l) \in Nat
      BY <1>4, <1>7, <1>13, <2>1
    <3>2. 1..lhs.pos - Point(l) - 1 = {}
      BY <3>1
    <3> QED
      BY <1>3, <3>1, <3>2 DEF PlacesAlike
  <2>2. BothDocumented /\ ~Compares => PlacesAlike'
    BY <1>13, <2>1 DEF PlacesAlike
  <2>3. HashAlike'
    BY <1>13, <2>2 DEF HashAlike, BothDocumented, Compares
  <2> QED
    BY <1>13, <2>3, HashUnanswered DEF Hashed
<1> QED
  BY <1>8, <1>9, <1>10, <1>11, <1>12, <1>13 DEF DigitsEnd

LEMMA SameFractionDigitHashed == Inv /\ Judged /\ Hashed /\ SameFractionDigit => Hashed'
<1> SUFFICES ASSUME Inv, Judged, Hashed, SameFractionDigit PROVE Hashed'
  OBVIOUS
<1>1. /\ phase = "fraction" /\ lhs.text[lhs.pos] = rhs.text[rhs.pos]
      /\ lhs' = Advanced(lhs) /\ rhs' = Advanced(rhs)
      /\ UNCHANGED <<call, left_leaning, phase, known>>
  BY DEF SameFractionDigit
<1>2. \A c \in Cursors : Advanced(c).text = c.text /\ Advanced(c).pos = c.pos + 1
  BY DEF Advanced, Cursors
<1>3. ASSUME BothDocumented, ~Compares
      PROVE  PlacesAlike'
  <2>1. /\ SamePlaces /\ lhs \in Cursors /\ rhs \in Cursors
        /\ lhs.text \in Seq(Chars) /\ rhs.text \in Seq(Chars)
    BY <1>1, <1>3, FractionAlike
  <2>2. PICK j \in Nat : SameUpTo(j)
    BY <2>1 DEF SamePlaces
  <2>3. PICK l, r, p, q : /\ l = lhs.text /\ r = rhs.text /\ p = Point(l) /\ q = Point(r)
                          /\ p \in Nat /\ q \in Nat
    BY <2>1, PointFacts
  <2>4. lhs.pos = p + j + 1 /\ rhs.pos = q + j + 1
    BY <2>2, <2>3 DEF SameUpTo
  <2>5. /\ Mixed(l, p - 1) = Mixed(r, q - 1)
        /\ \A i \in 1..lhs.pos - p - 1 : l[p + i] = r[q + i]
    BY <1>1, <1>3, <2>3 DEF Hashed, HashAlike, PlacesAlike
  <2>6. lhs'.text = l /\ rhs'.text = r /\ lhs'.pos = p + j + 2
    <3>1. lhs.pos + 1 = p + j + 2
      BY ONLY <2>2, <2>3, <2>4
    <3> QED
      BY <1>1, <1>2, <2>1, <2>3, <3>1
  <2>7. \A i \in 1..lhs'.pos - p - 1 : l[p + i] = r[q + i]
    <3> SUFFICES ASSUME NEW i \in 1..j + 1 PROVE l[p + i] = r[q + i]
      BY <2>3, <2>6
    <3>1. CASE i = j + 1
      <4>1. p + i = lhs.pos /\ q + i = rhs.pos
        BY <2>3, <2>4, <3>1
      <4> QED
        BY <1>1, <2>3, <4>1
    <3>2. CASE i # j + 1
      <4>1. i \in 1..lhs.pos - p - 1
        BY <2>3, <2>4, <3>2
      <4> QED
        BY <2>5, <4>1
    <3> QED
      BY <3>1, <3>2
  <2> QED
    BY <2>3, <2>5, <2>6, <2>7 DEF PlacesAlike
<1>4. HashAlike'
  BY <1>1, <1>3 DEF HashAlike, BothDocumented, Compares
<1> QED
  BY <1>1, <1>4, HashUnanswered DEF Hashed

LEMMA OtherFractionDigitHashed == Inv /\ Judged /\ Hashed /\ OtherFractionDigit => Hashed'
<1> SUFFICES ASSUME Hashed, OtherFractionDigit PROVE Hashed'
  OBVIOUS
<1>1. PICK result : /\ result = (Compares /\ lhs.text[lhs.pos] < rhs.text[rhs.pos])
                    /\ Return(result)
  BY DEF OtherFractionDigit
<1> QED
  BY <1>1, HashAnswered

LEMMA FractionEndsHashed == Inv /\ Judged /\ Hashed /\ FractionEnds => Hashed'
<1> SUFFICES ASSUME Inv, Judged, Hashed, FractionEnds PROVE Hashed'
  OBVIOUS
<1>1. PICK result \in BOOLEAN :
        /\ phase = "fraction" /\ Return(result)
        /\ \/ AtEnd(rhs) /\ result = (~Compares /\ ~RestNonZero(lhs))
           \/ AtEnd(lhs) /\ result = (Compares = RestNonZero(rhs))
  BY DEF FractionEnds, Compares, RestNonZero
<1>2. ASSUME BothDocumented
      PROVE  Operands
  BY <1>1, <1>2, FractionAlike
<1>3. ASSUME BothDocumented, ~Compares, result
      PROVE  /\ Mixed(lhs.text, Point(lhs.text) - 1) = Mixed(rhs.text, Point(rhs.text) - 1)
             /\ MixedFraction(lhs.text) = MixedFraction(rhs.text)
  <2>1. /\ SamePlaces /\ lhs \in Cursors /\ rhs \in Cursors
        /\ lhs.text \in Seq(Chars) /\ rhs.text \in Seq(Chars)
    BY <1>1, <1>3, FractionAlike
  <2>2. PICK j \in Nat : SameUpTo(j)
    BY <2>1 DEF SamePlaces
  <2>3. PICK l, r, p, q : /\ l = lhs.text /\ r = rhs.text /\ p = Point(l) /\ q = Point(r)
                          /\ p \in Nat /\ q \in Nat
    BY <2>1, PointFacts
  <2>4. /\ lhs.pos = p + j + 1 /\ rhs.pos = q + j + 1
        /\ j <= Places(l) /\ j <= Places(r)
    BY <2>2, <2>3 DEF SameUpTo
  <2>5. /\ Mixed(l, p - 1) = Mixed(r, q - 1)
        /\ \A i \in 1..lhs.pos - p - 1 : l[p + i] = r[q + i]
    BY <1>1, <1>3, <2>3 DEF Hashed, HashAlike, PlacesAlike
  <2>6. lhs.pos - p - 1 = j
    BY <2>3, <2>4
  <2>7. /\ AtEnd(lhs) => \A i \in p + j + 1..Len(l) : l[i] = Zero
        /\ AtEnd(rhs) => \A i \in q + j + 1..Len(r) : r[i] = Zero
        /\ ~RestNonZero(lhs) => \A i \in p + j + 1..Len(l) : l[i] = Zero
        /\ ~RestNonZero(rhs) => \A i \in q + j + 1..Len(r) : r[i] = Zero
    <3>1. Len(l) \in Nat /\ Len(r) \in Nat
      BY <2>1, <2>3, LenProperties
    <3>2. PICK a, b : /\ a = lhs.pos /\ a = p + j + 1 /\ a \in Nat
                      /\ b = rhs.pos /\ b = q + j + 1 /\ b \in Nat
      BY <2>3, <2>4
    <3>3. /\ AtEnd(lhs) => a > Len(l)
          /\ AtEnd(rhs) => b > Len(r)
      BY <2>3, <3>2 DEF AtEnd
    <3>4. /\ ~RestNonZero(lhs) => \A i \in a..Len(l) : l[i] = Zero
          /\ ~RestNonZero(rhs) => \A i \in b..Len(r) : r[i] = Zero
      BY <2>3, <3>2 DEF RestNonZero
    <3> QED
      BY ONLY <3>1, <3>2, <3>3, <3>4
  <2>8. /\ \A i \in p + j + 1..Len(l) : l[i] = Zero
        /\ \A i \in q + j + 1..Len(r) : r[i] = Zero
    <3>1. CASE AtEnd(rhs) /\ result = (~Compares /\ ~RestNonZero(lhs))
      BY <1>3, <2>7, <3>1
    <3>2. CASE AtEnd(lhs) /\ result = (Compares = RestNonZero(rhs))
      <4>1. ~RestNonZero(rhs)
        BY <1>3, <3>2
      <4> QED
        BY <2>7, <3>2, <4>1
    <3> QED
      BY <1>1, <3>1, <3>2
  <2>9. p <= Len(l) /\ q <= Len(r)
    BY <2>1, <2>3 DEF SamePlaces
  <2>10. SameFraction(l, r, j)
    BY <2>3, <2>4, <2>5, <2>6, <2>8, <2>9 DEF SameFraction
  <2>11. MixedFraction(l) = MixedFraction(r)
    BY <2>1, <2>3, <2>10, SameFractionMixed
  <2> QED
    BY <2>3, <2>5, <2>11
<1> QED
  BY <1>1, <1>2, <1>3, PartsHashed

-------------------------------------------------------------------------------
LEMMA InitHashed == Init => Hashed
<1> SUFFICES ASSUME Init PROVE Hashed
  OBVIOUS
<1>1. known = {} /\ phase = "idle"
  BY DEF Init
<1>2. HashesAgree
  BY <1>1 DEF HashesAgree
<1>3. HashAlike
  BY <1>1 DEF HashAlike
<1> QED
  BY <1>2, <1>3 DEF Hashed

LEMMA NextHashed == Inv /\ Judged /\ Hashed /\ [Next]_vars => Hashed'
<1>1. Inv /\ Judged /\ Hashed /\ Step => Hashed'
  BY DifferentSignsHashed, SameSignsHashed, SameDigitHashed, OtherDigitHashed, DigitsEndHashed,
     FindLongerHashed, SameFractionDigitHashed, OtherFractionDigitHashed, FractionEndsHashed
     DEF Step
<1>2. Hashed /\ UNCHANGED vars => Hashed'
  <2> SUFFICES ASSUME Hashed, UNCHANGED vars PROVE Hashed'
    OBVIOUS
  <2>1. UNCHANGED <<call, lhs, rhs, left_leaning, phase, known>>
    BY DEF vars
  <2>2. HashesAgree'
    BY <2>1, HashUnanswered
  <2>3. HashAlike'
    BY <2>1 DEF Hashed, HashAlike, BothDocumented, Compares, MixedAlike, PlacesAlike
  <2> QED
    BY <2>2, <2>3 DEF Hashed
<1> QED
  BY <1>1, <1>2, CallHashed DEF Next, Terminated

(* Two texts of the documented format that numeric_equal finds equal have  *)
(* the same numeric_hash, whatever zeros, commas, signs and points they    *)
(* are written with.                                                       *)
THEOREM EqualsHashAlike == Spec => []HashesAgree
<1>1. Init => Inv /\ Judged /\ Hashed
  BY InitInv, InitJudged, InitHashed
<1>2. (Inv /\ Judged /\ Hashed) /\ [Next]_vars => (Inv /\ Judged /\ Hashed)'
  BY NextInv, NextJudged, NextHashed
<1>3. Inv /\ Judged /\ Hashed => HashesAgree
  BY DEF Hashed
<1> QED
  BY <1>1, <1>2, <1>3, PTL DEF Spec

===============================================================================
