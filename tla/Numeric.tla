-------------------------------- MODULE Numeric -------------------------------
(***************************************************************************)
(* Comparing tokens as numbers (algo_utils.hpp): numeric_compare orders    *)
(* them for --sort, numeric_equal and numeric_hash find duplicates for     *)
(* --unique.  The functions read two texts side by side and never convert  *)
(* them, so that every branch is a way in which one text may end before,   *)
(* with or after the other.                                                *)
(*                                                                         *)
(* A call is a sequence of steps, one per character.  A text is a sequence *)
(* of signed chars, a cursor the place one of the scans has reached: ch is *)
(* the character looked at, pos the place of the one after it (counted     *)
(* from 1, so that the end of the text is Len + 1).                        *)
(***************************************************************************)
EXTENDS Integers, SequencesExt

CONSTANTS Texts,    \* the tokens that are compared
          MaxCalls  \* bound: how many comparisons are made

Chars == -128..127
Comma == 44
Minus == 45
Dot == 46
Zero == 48
STR_END_Unsigned == 174

STR_END == -82   \* the decimal point with its high bit set

ASSUME TextsAssumption == Texts \subseteq Seq(Chars)
ASSUME CallsAssumption == MaxCalls \in Nat

VARIABLES call,          \* the function called, and its arguments
          lhs, rhs,      \* its two cursors
          left_leaning,  \* of two numbers of the same length, lhs is greater
          phase,
          known          \* history: the results so far

vars == <<call, lhs, rhs, left_leaning, phase, known>>

Cursors == [text : Seq(Chars), negative : BOOLEAN, pos : Nat \ {0}, ch : Chars]
Calls == [op : {"compare", "equal"}, left : Seq(Chars), right : Seq(Chars)]
Phases == {"idle", "signs", "digits", "longer", "fraction"}

-------------------------------------------------------------------------------
(* Helpers of the scans.                                                   *)

CharAt(text, pos) == IF pos <= Len(text) THEN text[pos] ELSE STR_END

(* ch & END_MASK is a decimal point.                                       *)
IsEnd(ch) == ch \in {Dot, STR_END}

(* The first place at or after from, or the end, that has none of chars.   *)
SkipTo(text, from, chars) ==
  CHOOSE p \in from..Len(text) + 1 :
    /\ \A q \in from..p - 1 : text[q] \in chars
    /\ p = Len(text) + 1 \/ text[p] \notin chars

(* Here pos is still the place of ch itself.                               *)
TrimLeadingSign(text) ==
  LET negative == CharAt(text, 1) = Minus
      first == IF negative THEN 2 ELSE 1
  IN [text |-> text, negative |-> negative, pos |-> first, ch |-> CharAt(text, first)]

(* ... and from here on the place after it, even beyond the end.           *)
MovedTo(c, pos, ch) == [c EXCEPT !.pos = pos, !.ch = ch]

TrimLeadingZeros_KeepsCommas(c) ==
  LET first == SkipTo(c.text, c.pos, {Zero})
  IN MovedTo(c, first + 1, CharAt(c.text, first))

TrimLeadingZeros(c) ==
  LET first == SkipTo(c.text, c.pos, {Zero, Comma})
  IN MovedTo(c, first + 1, CharAt(c.text, first))

(* The first character that is not a comma, or the end.                    *)
GetNext_PastEnd(c) ==
  MovedTo(c, c.pos + 1, IF c.pos <= Len(c.text) THEN c.text[c.pos] ELSE Zero)

GetNext(c) ==
  IF c.pos > Len(c.text) THEN MovedTo(c, c.pos, STR_END)
  ELSE LET p == SkipTo(c.text, c.pos, {Comma})
       IN MovedTo(c, IF p <= Len(c.text) THEN p + 1 ELSE p, CharAt(c.text, p))

NonZero(c) ==
  CharAt(c.text, SkipTo(c.text, c.pos, {Zero, Comma, Dot})) # STR_END

(* Something other than zeros is left.                                     *)
RestNonZero(c) == \E p \in c.pos..Len(c.text) : c.text[p] # Zero

AtEnd(c) == c.pos > Len(c.text)
Advanced(c) == [c EXCEPT !.pos = @ + 1]

-------------------------------------------------------------------------------
Init ==
  /\ call = [op |-> "equal", left |-> <<>>, right |-> <<>>]
  /\ lhs = TrimLeadingSign(<<>>) /\ rhs = TrimLeadingSign(<<>>)
  /\ left_leaning = FALSE
  /\ phase = "idle"
  /\ known = {}

Call ==
  /\ phase = "idle" /\ Cardinality(known) < MaxCalls
  /\ \E op \in {"compare", "equal"}, left, right \in Texts :
       /\ call' = [op |-> op, left |-> left, right |-> right]
       /\ lhs' = TrimLeadingSign(left) /\ rhs' = TrimLeadingSign(right)
  /\ phase' = "signs"
  /\ UNCHANGED <<left_leaning, known>>

Return(result) ==
  /\ known' = known \cup {[call |-> call, result |-> result]}
  /\ phase' = "idle"
  /\ UNCHANGED <<call, lhs, rhs, left_leaning>>

Compares == call.op = "compare"

(* Zero has no sign.                                                       *)
BothZero_Never(l, r) == FALSE

BothZero(l, r) == ~NonZero(l) /\ ~NonZero(r)

DifferentSigns ==
  /\ phase = "signs" /\ lhs.negative # rhs.negative
  /\ Return(IF Compares THEN lhs.negative /\ ~BothZero(lhs, rhs) ELSE BothZero(lhs, rhs))

(* Of two negative numbers the operands change places.                     *)
Swaps_Never == FALSE

Swaps == Compares /\ lhs.negative

SameSigns ==
  /\ phase = "signs" /\ lhs.negative = rhs.negative
  /\ lhs' = TrimLeadingZeros(IF Swaps THEN rhs ELSE lhs)
  /\ rhs' = TrimLeadingZeros(IF Swaps THEN lhs ELSE rhs)
  /\ phase' = "digits"
  /\ UNCHANGED <<call, left_leaning, known>>

-------------------------------------------------------------------------------
(* Before the decimal points.                                              *)

SameDigit ==
  /\ phase = "digits"
  /\ ~IsEnd(lhs.ch) /\ lhs.ch = rhs.ch
  /\ lhs' = GetNext(lhs) /\ rhs' = GetNext(rhs)
  /\ UNCHANGED <<call, left_leaning, phase, known>>

OtherDigit ==
  /\ phase = "digits"
  /\ ~IsEnd(lhs.ch) /\ ~IsEnd(rhs.ch) /\ lhs.ch # rhs.ch
  /\ IF Compares
     THEN /\ left_leaning' = (lhs.ch > rhs.ch)
          /\ lhs' = GetNext(lhs) /\ rhs' = GetNext(rhs)
          /\ phase' = "longer"
          /\ UNCHANGED <<call, known>>
     ELSE Return(FALSE)

(* One of the two has no digits left.                                      *)
DigitsEnd ==
  /\ phase = "digits"
  /\ IsEnd(lhs.ch) \/ IsEnd(rhs.ch)
  /\ \/ ~IsEnd(lhs.ch) /\ Return(FALSE)
     \/ ~IsEnd(rhs.ch) /\ Return(Compares)
     \/ lhs.ch = STR_END /\ rhs.ch = STR_END /\ Return(~Compares)
     \/ lhs.ch = STR_END /\ rhs.ch = Dot /\ Return(Compares = RestNonZero(rhs))
     \/ lhs.ch = Dot /\ rhs.ch = STR_END /\ Return(~Compares /\ ~RestNonZero(lhs))
     \/ /\ lhs.ch = Dot /\ rhs.ch = Dot
        /\ phase' = "fraction"
        /\ UNCHANGED <<call, lhs, rhs, left_leaning, known>>

(* The digits differed: the number with more of them is greater, and if    *)
(* neither has, the first that differed decides.                           *)
Longer_EndsFirst(l, r) == IsEnd(l.ch)

Longer(l, r) == IsEnd(l.ch) /\ (IsEnd(r.ch) => ~left_leaning)

FindLonger ==
  /\ phase = "longer"
  /\ IF IsEnd(lhs.ch) \/ IsEnd(rhs.ch) THEN Return(Longer(lhs, rhs))
     ELSE /\ lhs' = GetNext(lhs) /\ rhs' = GetNext(rhs)
          /\ UNCHANGED <<call, left_leaning, phase, known>>

-------------------------------------------------------------------------------
(* fraction_compare and fraction_equal.                                    *)

SameFractionDigit ==
  /\ phase = "fraction"
  /\ ~AtEnd(lhs) /\ ~AtEnd(rhs) /\ lhs.text[lhs.pos] = rhs.text[rhs.pos]
  /\ lhs' = Advanced(lhs) /\ rhs' = Advanced(rhs)
  /\ UNCHANGED <<call, left_leaning, phase, known>>

OtherFractionDigit ==
  /\ phase = "fraction"
  /\ ~AtEnd(lhs) /\ ~AtEnd(rhs) /\ lhs.text[lhs.pos] # rhs.text[rhs.pos]
  /\ Return(Compares /\ lhs.text[lhs.pos] < rhs.text[rhs.pos])

FractionEnds ==
  /\ phase = "fraction"
  /\ \/ AtEnd(rhs) /\ Return(~Compares /\ ~RestNonZero(lhs))
     \/ AtEnd(lhs) /\ ~AtEnd(rhs) /\ Return(Compares = RestNonZero(rhs))

Step ==
  \/ DifferentSigns \/ SameSigns
  \/ SameDigit \/ OtherDigit \/ DigitsEnd \/ FindLonger
  \/ SameFractionDigit \/ OtherFractionDigit \/ FractionEnds

(* A bounded number of calls has been made.                                *)
Terminated == phase = "idle" /\ Cardinality(known) = MaxCalls /\ UNCHANGED vars

Next == Call \/ Step \/ Terminated

Spec == Init /\ [][Next]_vars

-------------------------------------------------------------------------------
(* numeric_hash: the characters that are mixed into the hash, which is     *)
(* taken to be different for different characters.  The fraction is read   *)
(* backwards, beginning at the last digit that is not zero, and the        *)
(* decimal point is mixed in only if there is such a digit.                *)
LastNonZero(text, dot) ==
  CHOOSE p \in dot..Len(text) :
    /\ text[p] # Zero
    /\ \A q \in p + 1..Len(text) : text[q] = Zero

FractionHashed_WithDot(text, dot) == Reverse(SubSeq(text, dot, LastNonZero(text, dot)))

FractionHashed(text, dot) ==
  IF LastNonZero(text, dot) = dot THEN <<>>
  ELSE Reverse(SubSeq(text, dot, LastNonZero(text, dot)))

(* ... and the digits before it without the commas.                        *)
Mix(mixed, ch) == IF ch = Comma THEN mixed ELSE Append(mixed, ch)

NumericHash(text) ==
  LET c == TrimLeadingZeros(TrimLeadingSign(text))
      first == c.pos - 1
      last == SkipTo(text, first, Chars \ {Dot, STR_END})
      digits == FoldLeft(Mix, <<>>, SubSeq(text, first, last - 1))
      mixed == digits \o (IF CharAt(text, last) = Dot THEN FractionHashed(text, last) ELSE <<>>)
  IN IF c.negative /\ mixed # <<>> THEN Append(mixed, Minus) ELSE mixed

-------------------------------------------------------------------------------
(* Properties.                                                             *)

TypeOK ==
  /\ call \in Calls
  /\ lhs \in Cursors /\ rhs \in Cursors
  /\ left_leaning \in BOOLEAN
  /\ phase \in Phases
  /\ known \subseteq [call : Calls, result : BOOLEAN]

(* The scans never read past the end of a text: "possibly points one after *)
(* end (when lhs_ch == STR_END), but that's ok" (numeric_compare) is all   *)
(* that happens, and no such cursor reaches a loop that reads first.       *)
Inside(c) ==
  /\ c.pos <= Len(c.text) + 2
  /\ c.pos = Len(c.text) + 2 => c.ch = STR_END
ReadsInside ==
  /\ Inside(lhs) /\ Inside(rhs)
  /\ phase = "fraction" => lhs.pos <= Len(lhs.text) + 1 /\ rhs.pos <= Len(rhs.text) + 1

(* The documented format: a sign, digits and commas, a point and digits,   *)
(* each of them optional.                                                  *)
Digits == Zero..Zero + 9
Point(text) == SkipTo(text, 1, Chars \ {Dot})
Documented(text) ==
  /\ \A i \in 1..Point(text) - 1 : text[i] \in Digits \cup {Comma} \/ (i = 1 /\ text[i] = Minus)
  /\ \A i \in Point(text) + 1..Len(text) : text[i] \in Digits

(* The number that such a text stands for is Unscaled / Scale.             *)
WithDigit(n, ch) == IF ch \in {Minus, Comma, Dot} THEN n ELSE 10 * n + (ch - Zero)
Absolute(text) == FoldLeft(WithDigit, 0, text)
Unscaled(text) == IF CharAt(text, 1) = Minus THEN -Absolute(text) ELSE Absolute(text)
Tenfold(n, ch) == 10 * n
Scale(text) == FoldLeft(Tenfold, 1, SubSeq(text, Point(text) + 1, Len(text)))

(* Such texts are compared as the numbers that they stand for, whatever    *)
(* zeros, commas, signs and points they are written with, so that          *)
(* numeric_compare is a strict weak ordering and numeric_equal is its      *)
(* equivalence, as std::sort, upper_bound and the sets of --unique need.   *)
ComparesValues ==
  \A k \in known :
    Documented(k.call.left) /\ Documented(k.call.right) =>
    LET l == Unscaled(k.call.left) * Scale(k.call.right)
        r == Unscaled(k.call.right) * Scale(k.call.left)
    IN k.result = IF k.call.op = "compare" THEN l < r ELSE l = r

(* Equal ones have equal hashes, as the hash table of --unique needs.      *)
HashesAgree ==
  \A k \in known :
    Documented(k.call.left) /\ Documented(k.call.right) /\ k.call.op = "equal" /\ k.result =>
      NumericHash(k.call.left) = NumericHash(k.call.right)

(* Any tokens are in an order: the checks of the comment at the end of     *)
(* algo_utils.hpp, "transitivity failure", on characters of any value.     *)
Less(l, r) == [call |-> [op |-> "compare", left |-> l, right |-> r], result |-> TRUE]
NotLess(l, r) == [Less(l, r) EXCEPT !.result = FALSE]
Transitive ==
  \A l, m, r \in Texts : {Less(l, m), Less(m, r)} \subseteq known => NotLess(l, r) \notin known
===============================================================================
