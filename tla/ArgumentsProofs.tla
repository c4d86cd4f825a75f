---------------------------- MODULE ArgumentsProofs ----------------------------
(***************************************************************************)
(* Every command line that is accepted fits the rest of the program,       *)
(* however long it is and whatever PCRE2 says of its patterns.             *)
(***************************************************************************)
EXTENDS Arguments, SequenceLemmas

-------------------------------------------------------------------------------
(* Numbers: overflow is noticed for integers of every width, since the     *)
(* division after a product that has wrapped never gives back the other    *)
(* factor.                                                                 *)

(* What is left of a product modulo max + 1.                               *)
LEMMA WrappedProduct ==
  ASSUME NEW n \in Nat, NEW max \in Nat
  PROVE  /\ n % (max + 1) \in 0..max
         /\ n <= max => n % (max + 1) = n
OBVIOUS

(* A quotient times its divisor is not more than what was divided.         *)
LEMMA QuotientBound ==
  ASSUME NEW n \in Nat, NEW a \in Nat \ {0}
  PROVE  n \div a \in Nat /\ a * (n \div a) <= n
OBVIOUS

(* mul_overflow reports an overflow exactly when the product is more than  *)
(* max, and is the product otherwise.                                      *)
THEOREM MulOverflowExact ==
  ASSUME NEW max \in Nat, NEW a \in 0..max, NEW b \in 0..max
  PROVE  MulOverflow(a, b, max) = IF a * b <= max THEN a * b ELSE NoNumber
<1> DEFINE out == (a * b) % (max + 1)
<1>1. a * b \in Nat
  OBVIOUS
<1>2. out \in 0..max /\ (a * b <= max => out = a * b)
  BY <1>1, WrappedProduct
<1>3. MulOverflow(a, b, max) = IF a # 0 /\ out \div a # b THEN NoNumber ELSE out
  BY DEF MulOverflow
<1> HIDE DEF out
<1>4. CASE a * b <= max
  <2>1. a # 0 => (a * b) \div a = b
    OBVIOUS
  <2> QED
    BY <1>2, <1>3, <1>4, <2>1
<1>5. CASE a * b > max
  <2>1. a # 0
    BY <1>5
  <2>2. a * (out \div a) <= out
    BY <1>2, <2>1, QuotientBound
  <2>3. out < a * b
    BY <1>1, <1>2, <1>5
  <2>4. out \div a # b
    BY <1>1, <1>2, <2>2, <2>3
  <2> QED
    BY <1>1, <1>3, <1>5, <2>1, <2>4
<1> QED
  BY <1>1, <1>4, <1>5

(* add_overflow does for sums.                                             *)
THEOREM AddOverflowExact ==
  ASSUME NEW max \in Nat, NEW a \in 0..max, NEW b \in 0..max
  PROVE  AddOverflow(a, b, max) = IF a + b <= max THEN a + b ELSE NoNumber
<1> DEFINE out == (a + b) % (max + 1)
<1>1. a + b <= max => out = a + b
  BY WrappedProduct
<1>2. a + b > max => out = a + b - (max + 1)
  OBVIOUS
<1>3. AddOverflow(a, b, max) = IF out < a THEN NoNumber ELSE out
  BY DEF AddOverflow
<1> HIDE DEF out
<1> QED
  BY <1>1, <1>2, <1>3

(* One more digit is read without an error exactly when there is room for  *)
(* it, whatever the character.                                             *)
THEOREM DigitExact ==
  ASSUME NEW max \in Nat, max >= 10, NEW n \in 0..max, NEW ch \in Int
  PROVE  WithDigit(n, ch, max) =
           IF ch \in DigitChars /\ 10 * n + (ch - Zero) <= max THEN 10 * n + (ch - Zero)
           ELSE NoNumber
<1>1. MulOverflow(n, 10, max) = IF n * 10 <= max THEN n * 10 ELSE NoNumber
  BY MulOverflowExact
<1>2. n # NoNumber /\ n * 10 # NoNumber
  BY DEF NoNumber
<1>3. CASE ch \notin DigitChars
  BY <1>3 DEF WithDigit
<1>4. CASE ch \in DigitChars /\ n * 10 > max
  <2>1. MulOverflow(n, 10, max) = NoNumber
    BY <1>1, <1>4
  <2>2. ~(10 * n + (ch - Zero) <= max)
    BY <1>4 DEF DigitChars, Zero
  <2>3. WithDigit(n, ch, max) = NoNumber
    BY <2>1 DEF WithDigit
  <2> QED
    BY <2>2, <2>3
<1>5. CASE ch \in DigitChars /\ n * 10 <= max
  <2>1. MulOverflow(n, 10, max) = n * 10
    BY <1>1, <1>5
  <2>2. ch - Zero \in 0..max
    BY <1>5 DEF DigitChars, Zero
  <2>3. AddOverflow(n * 10, ch - Zero, max) =
          IF n * 10 + (ch - Zero) <= max THEN n * 10 + (ch - Zero) ELSE NoNumber
    BY <1>5, <2>2, AddOverflowExact
  <2>4. WithDigit(n, ch, max) = AddOverflow(n * 10, ch - Zero, max)
    BY <1>2, <1>5, <2>1 DEF WithDigit
  <2> QED
    BY <1>5, <2>2, <2>3, <2>4
<1> QED
  BY <1>3, <1>4, <1>5

(* All digits together: parse_number, step by step.                        *)
D == INSTANCE FoldLemmas WITH Op <- WithDigit

TenfoldPlus(n, ch, k) == 10 * n + (ch - Zero)

T == INSTANCE FoldLemmas WITH Op <- TenfoldPlus

DecimalOf(s) == T!Fold(0, s, 0)

AllDigits(s) == \A i \in DOMAIN s : s[i] \in DigitChars

LEMMA DigitsRead ==
  ASSUME NEW max \in Nat, max >= 10, NEW s \in Seq(Nat)
  PROVE  /\ D!Fold(0, s, max) = IF AllDigits(s) /\ DecimalOf(s) <= max THEN DecimalOf(s)
                                ELSE NoNumber
         /\ AllDigits(s) => DecimalOf(s) \in Nat
<1>1. PICK n \in Nat : n = Len(s) /\ DOMAIN s = 1..n
  BY LenProperties
<1>2. PICK v : D!Steps(v, 0, s, max, n) /\ D!Fold(0, s, max) = v[n]
  <2>1. n \in Nat /\ DOMAIN s = 1..n
    BY <1>1
  <2> QED
    BY ONLY <2>1, D!FoldValues
<1>3. PICK w : T!Steps(w, 0, s, 0, n) /\ T!Fold(0, s, 0) = w[n]
  BY <1>1, T!FoldValues
<1>4. /\ v[0] = 0 /\ \A i \in 1..n : v[i] = WithDigit(v[i - 1], s[i], max)
      /\ w[0] = 0 /\ \A i \in 1..n : w[i] = 10 * w[i - 1] + (s[i] - Zero)
  BY <1>2, <1>3 DEF D!Steps, T!Steps, TenfoldPlus
<1> DEFINE All(i) == \A j \in 1..i : s[j] \in DigitChars
           Right(i) == /\ All(i) => w[i] \in Nat
                       /\ v[i] = IF All(i) /\ w[i] <= max THEN w[i] ELSE NoNumber
           Wrong == {i \in 0..n : ~Right(i)}
<1>5. All(0) /\ \A i \in 1..n : All(i) <=> All(i - 1) /\ s[i] \in DigitChars
  <2>1. All(0)
    OBVIOUS
  <2>2. ASSUME NEW i \in 1..n PROVE All(i) <=> All(i - 1) /\ s[i] \in DigitChars
    <3>1. \A j \in 1..i : j \in 1..i - 1 \/ j = i
      BY <1>1
    <3>2. \A j \in 1..i - 1 : j \in 1..i
      BY <1>1
    <3>3. i \in 1..i
      BY <1>1
    <3> QED
      BY <3>1, <3>2, <3>3
  <2> QED
    BY <2>1, <2>2
<1>6. All(n) <=> AllDigits(s)
  BY <1>1 DEF AllDigits
<1> HIDE DEF All
<1>7. Wrong = {}
  <2>1. SUFFICES ASSUME Wrong # {} PROVE FALSE
    OBVIOUS
  <2>2. PICK d \in Wrong : \A i \in Wrong : d <= i
    <3>1. Wrong \subseteq Nat
      OBVIOUS
    <3> HIDE DEF Wrong
    <3> QED
      BY <2>1, <3>1, LeastElement
  <2>3. d \in 0..n /\ ~Right(d)
    OBVIOUS
  <2>4. d # 0
    BY <1>4, <1>5, <2>3
  <2>5. d \in 1..n /\ d - 1 \in 0..n /\ d - 1 \notin Wrong
    BY <2>2, <2>3, <2>4
  <2>6. Right(d - 1)
    BY <2>5
  <2>7. s[d] \in Nat
    BY <1>1, <2>5, ElementOfSeq
  <2>8. PICK x, y, x1, y1 : x = v[d - 1] /\ y = w[d - 1] /\ x1 = v[d] /\ y1 = w[d]
    OBVIOUS
  <2>9. x1 = WithDigit(x, s[d], max) /\ y1 = 10 * y + (s[d] - Zero)
    BY <1>4, <2>5, <2>8
  <2>10. /\ All(d - 1) => y \in Nat
         /\ x = IF All(d - 1) /\ y <= max THEN y ELSE NoNumber
    BY <2>6, <2>8
  <2>11. All(d) <=> All(d - 1) /\ s[d] \in DigitChars
    BY <1>5, <2>5
  <2>12. ~(/\ All(d) => y1 \in Nat
           /\ x1 = IF All(d) /\ y1 <= max THEN y1 ELSE NoNumber)
    BY <2>3, <2>8
  <2>13. All(d) => y1 \in Nat
    <3>1. s[d] \in DigitChars => s[d] - Zero \in Nat
      BY DEF DigitChars, Zero
    <3> QED
      BY <2>9, <2>10, <2>11, <3>1
  <2>14. CASE All(d - 1) /\ y <= max
    <3>1. y \in 0..max /\ x = y
      BY <2>10, <2>14
    <3>2. WithDigit(y, s[d], max) =
            IF s[d] \in DigitChars /\ 10 * y + (s[d] - Zero) <= max THEN 10 * y + (s[d] - Zero)
            ELSE NoNumber
      BY <2>7, <3>1, DigitExact
    <3> QED
      BY <2>9, <2>11, <2>12, <2>13, <2>14, <3>1, <3>2
  <2>15. CASE ~(All(d - 1) /\ y <= max)
    <3>1. x = NoNumber
      BY <2>10, <2>15
    <3>2. x1 = NoNumber
      BY <2>9, <3>1 DEF WithDigit
    <3>3. ~(All(d) /\ y1 <= max)
      <4>1. SUFFICES ASSUME All(d), y1 <= max PROVE FALSE
        OBVIOUS
      <4>2. s[d] - Zero \in Nat
        BY <2>11, <4>1 DEF DigitChars, Zero
      <4>3. y \in Nat /\ y > max
        BY <2>10, <2>11, <2>15, <4>1
      <4> QED
        BY <2>9, <4>1, <4>2, <4>3
    <3> QED
      BY <2>12, <2>13, <3>2, <3>3
  <2> QED
    BY <2>14, <2>15
<1>8. Right(n)
  BY <1>7
<1> QED
  BY <1>2, <1>3, <1>6, <1>8 DEF DecimalOf

(* The text before the first comma and the text after it.                  *)
LEMMA CommaSplits ==
  ASSUME NEW text \in Seq(Nat)
  PROVE  /\ CommaAt(text) \in 0..Len(text)
         /\ BeforeComma(text) \in Seq(Nat) /\ AfterComma(text) \in Seq(Nat)
         /\ \A i \in DOMAIN BeforeComma(text) : BeforeComma(text)[i] = text[i]
<1>1. PICK n \in Nat : n = Len(text) /\ \A i \in 1..n : text[i] \in Nat
  BY LenProperties, ElementOfSeq
<1>2. CommaAt(text) \in 0..n
  <2> DEFINE I == {i \in 1..Len(text) : text[i] = Comma}
  <2>1. CommaAt(text) = IF I # {} THEN Min(I) ELSE 0
    BY DEF CommaAt, SelectInSeq
  <2>2. I # {} => Min(I) \in I
    <3>1. I \subseteq Nat
      BY <1>1
    <3> HIDE DEF I
    <3> QED
      BY <3>1, MinIsLeast
  <2> QED
    BY <1>1, <2>1, <2>2
<1>3. PICK c \in 0..n : c = CommaAt(text)
  BY <1>2
<1>4. AfterComma(text) \in Seq(Nat)
  <2>1. \A i \in c + 1..n : text[i] \in Nat
    BY <1>1
  <2>2. SubSeq(text, c + 1, n) \in Seq(Nat)
    BY <2>1, SubSeqProperties
  <2> QED
    BY <1>1, <1>3, <2>2 DEF AfterComma
<1>5. CASE c = 0
  BY <1>1, <1>3, <1>4, <1>5 DEF BeforeComma
<1>6. CASE c # 0
  <2>1. \A i \in 1..c - 1 : text[i] \in Nat
    BY <1>1
  <2>2. 1 \in Int /\ c - 1 \in Int
    BY <1>1
  <2> DEFINE b == SubSeq(text, 1, c - 1)
  <2>3. /\ b \in Seq(Nat) /\ Len(b) = IF 1 <= c - 1 THEN (c - 1) - 1 + 1 ELSE 0
        /\ \A i \in 1..(c - 1) - 1 + 1 : b[i] = text[1 + i - 1]
    BY <2>1, <2>2, SubSeqProperties
  <2>4. b = BeforeComma(text)
    BY <1>3, <1>6 DEF BeforeComma
  <2> HIDE DEF b
  <2>5. DOMAIN b = 1..c - 1
    <3>1. Len(b) = c - 1
      BY <1>1, <1>6, <2>3
    <3> QED
      BY <2>3, <3>1, LenProperties
  <2>6. \A i \in 1..c - 1 : b[i] = text[i]
    BY <1>1, <2>3
  <2> QED
    BY <1>1, <1>2, <1>4, <2>3, <2>4, <2>5, <2>6
<1> QED
  BY <1>5, <1>6

LEMMA DecimalIs == ASSUME NEW text PROVE Decimal(text) = DecimalOf(BeforeComma(text))
  BY DEF Decimal, DecimalOf, T!Fold, TenfoldPlus, FoldLeft, T!FoldLeft, MapThenFoldSet,
         T!MapThenFoldSet, Max, T!Max

(* parse_number gives the number that is written, if it is one and in the  *)
(* range that is asked for, and an error otherwise: no text however long   *)
(* wraps around to a number.                                               *)
THEOREM ParseNumberExact ==
  ASSUME NEW max \in Nat, max >= 10, NEW text \in Seq(Nat),
         NEW zero_allowed \in BOOLEAN, NEW max_allowed \in BOOLEAN
  PROVE  ParseNumber(text, max, zero_allowed, max_allowed) =
           IF IsNumber(text, IF zero_allowed THEN 0 ELSE 1, IF max_allowed THEN max ELSE max - 1)
           THEN Decimal(text) ELSE NoNumber
<1>1. PICK s \in Seq(Nat) : s = BeforeComma(text)
  BY CommaSplits
<1>2. AllDigits(s) <=> \A i \in DOMAIN BeforeComma(text) : text[i] \in DigitChars
  BY <1>1, CommaSplits DEF AllDigits
<1>3. PICK d : d = Decimal(text) /\ d = DecimalOf(s)
  BY <1>1, DecimalIs
<1>4. PICK out : out = D!Fold(0, s, max)
  OBVIOUS
<1>5. /\ out = IF AllDigits(s) /\ d <= max THEN d ELSE NoNumber
      /\ AllDigits(s) => d \in Nat
  BY <1>3, <1>4, DigitsRead
<1>6. ParseNumber(text, max, zero_allowed, max_allowed) =
        IF (~max_allowed /\ out = max) \/ (~zero_allowed /\ out = 0) THEN NoNumber ELSE out
  BY <1>1, <1>4 DEF ParseNumber, D!Fold, FoldLeft, D!FoldLeft, MapThenFoldSet,
                    D!MapThenFoldSet, Max, D!Max
<1>7. \A least, most : IsNumber(text, least, most) <=> AllDigits(s) /\ d \in least..most
  BY <1>2, <1>3 DEF IsNumber
<1>8. CASE ~AllDigits(s)
  <2>1. out = NoNumber
    BY <1>5, <1>8
  <2>2. ParseNumber(text, max, zero_allowed, max_allowed) = NoNumber
    BY <1>6, <2>1
  <2> QED
    BY <1>7, <1>8, <2>2
<1>9. CASE AllDigits(s)
  <2>1. d \in Nat /\ out = IF d <= max THEN d ELSE NoNumber
    BY <1>5, <1>9
  <2>2. IsNumber(text, IF zero_allowed THEN 0 ELSE 1, IF max_allowed THEN max ELSE max - 1) <=>
          /\ d <= max
          /\ ~(~max_allowed /\ d = max) /\ ~(~zero_allowed /\ d = 0)
    BY <1>7, <1>9, <2>1
  <2>3. NoNumber # max /\ NoNumber # 0
    BY DEF NoNumber
  <2> QED
    BY <1>3, <1>6, <2>1, <2>2, <2>3
<1> QED
  BY <1>8, <1>9

(* So are the two numbers of a range, or the one.                          *)
THEOREM ParseNumberPairExact ==
  ASSUME NEW text \in Seq(Nat), SIZE_MAX \in Nat, SIZE_MAX >= 10
  PROVE  ParseNumberPair(text, SIZE_MAX) =
           IF IsRange(text)
           THEN [first |-> Decimal(text), failed |-> FALSE,
                 second |-> IF CommaAt(text) = 0 THEN NoLimit ELSE Decimal(AfterComma(text))]
           ELSE [first |-> 0, second |-> 0, failed |-> TRUE]
<1>1. PICK t \in Seq(Nat) : t = AfterComma(text)
  BY CommaSplits
<1>2. /\ ParseNumber(text, SIZE_MAX, TRUE, TRUE) =
           IF IsNumber(text, 0, SIZE_MAX) THEN Decimal(text) ELSE NoNumber
      /\ ParseNumber(t, SIZE_MAX, TRUE, TRUE) =
           IF IsNumber(t, 0, SIZE_MAX) THEN Decimal(t) ELSE NoNumber
  BY ParseNumberExact
<1>3. /\ IsNumber(text, 0, SIZE_MAX) => Decimal(text) \in 0..SIZE_MAX
      /\ IsNumber(t, 0, SIZE_MAX) => Decimal(t) \in 0..SIZE_MAX
  BY DEF IsNumber
<1>4. IsRange(text) <=> IsNumber(text, 0, SIZE_MAX) /\ (CommaAt(text) # 0 => IsNumber(t, 0, SIZE_MAX))
  BY <1>1 DEF IsRange
<1>5. PICK first, other, comma : /\ first = ParseNumber(text, SIZE_MAX, TRUE, TRUE)
                                 /\ other = ParseNumber(t, SIZE_MAX, TRUE, TRUE)
                                 /\ comma = CommaAt(text)
  OBVIOUS
<1>6. ParseNumberPair(text, SIZE_MAX) =
        IF first = NoNumber \/ (comma # 0 /\ (IF comma = 0 THEN NoLimit ELSE other) = NoNumber)
        THEN [first |-> 0, second |-> 0, failed |-> TRUE]
        ELSE [first |-> Number(first), second |-> IF comma = 0 THEN NoLimit ELSE other,
              failed |-> FALSE]
  BY <1>1, <1>5 DEF ParseNumberPair
<1>7. IsRange(text) <=> first # NoNumber /\ (comma # 0 => other # NoNumber)
  <2>1. \A d \in 0..SIZE_MAX : d # NoNumber
    BY DEF NoNumber
  <2>2. first # NoNumber <=> IsNumber(text, 0, SIZE_MAX)
    BY <1>2, <1>3, <1>5, <2>1
  <2>3. other # NoNumber <=> IsNumber(t, 0, SIZE_MAX)
    BY <1>2, <1>3, <1>5, <2>1
  <2> QED
    BY <1>4, <1>5, <2>2, <2>3
<1>8. CASE ~IsRange(text)
  BY <1>6, <1>7, <1>8
<1>9. CASE IsRange(text)
  <2>1. first = Decimal(text) /\ Number(first) = first /\ (comma # 0 => other = Decimal(t))
    BY <1>2, <1>4, <1>5, <1>7, <1>9 DEF Number
  <2>2. ParseNumberPair(text, SIZE_MAX) =
          [first |-> first, second |-> IF comma = 0 THEN NoLimit ELSE other, failed |-> FALSE]
    BY <1>6, <1>7, <1>9, <2>1
  <2> QED
    BY <1>1, <1>5, <1>9, <2>1, <2>2
<1> QED
  BY <1>8, <1>9

-------------------------------------------------------------------------------
(* The command line.                                                       *)

(* The invariant.  The first part is about the shape of the state, the     *)
(* others say early what FitsTheRest only says of what is accepted.        *)
RetFields ==
  {"flags", "sort_type", "unique_type", "out_start", "out_end", "tail", "sizes",
   "out_delimiter", "bout_delimiter", "in_byte_delimiter", "ordered_ops"}
SizeFields == {"buf_size", "buf_size_frag", "max_lookbehind", "bytes_to_read"}
CodeFields ==
  {"re_options", "ordered_ops", "primary", "field", "tail_start", "tail_end", "bout_delimiter_set"}

Compiled == {"defaults", "checking"} \cup Accepted
OptionsRead == {"compiling"} \cup Compiled

Shape ==
  /\ argv \in CommandLines /\ optind \in Nat \ {0}
  /\ DOMAIN ret = RetFields /\ DOMAIN ret.sizes = SizeFields /\ DOMAIN uncompiled = CodeFields
  /\ phase \in Phases
  /\ phase \in OptionsRead => ~arg_has_errors

RangesWhole ==
  /\ ret.out_start # NoLimit => ret.out_end # NoLimit
  /\ uncompiled.tail_start # NoLimit => uncompiled.tail_end # NoLimit

(* Until an error is reported.                                             *)
OpsLegal ==
  LET ops == uncompiled.ordered_ops
  IN /\ IsSequence(ops)
     /\ \A i \in DOMAIN ops : ops[i].kind \in Ops!OpKinds
     /\ \A i \in DOMAIN ops : ops[i].kind = "tui_select" => Is("tui")
     /\ ~arg_has_errors => Ops!LegalOps(ops)
     /\ phase \in OptionsRead /\ NeedsMatch => Is("match")
     /\ phase \in Compiled => ret.ordered_ops = ops

SizesRead ==
  /\ ret.sizes.buf_size \in 0..SIZE_MAX /\ ret.sizes.bytes_to_read \in 0..SIZE_MAX
  /\ ~arg_has_errors => ret.sizes.buf_size # 0 /\ ret.sizes.bytes_to_read # 0

PatternKept ==
  /\ phase \in OptionsRead => uncompiled.primary # Missing
  /\ phase \in Compiled =>
       /\ ret.in_byte_delimiter => ~Is("match")
       /\ ~ret.in_byte_delimiter =>
            \A p \in uncompiled.primary : Compiles(p, uncompiled.re_options)

SedDirect == phase \in Accepted /\ Is("sed") => IsDirectOutput(Compile(CommandLine))

Inv == Shape /\ RangesWhole /\ OpsLegal /\ SizesRead /\ PatternKept /\ SedDirect

-------------------------------------------------------------------------------
(* FitsTheRest follows.                                                    *)

(* Nothing that --sed is refused with is given.                            *)
LEMMA DirectMeans ==
  IsDirectOutput(Compile(CommandLine)) =>
    ~(Is("tui") \/ Is("sort") \/ Is("flip") \/ uncompiled.tail_end # NoLimit)
BY DEF IsDirectOutput, Compile, CommandLine, Turned, Is

LEMMA InvFits == Inv => FitsTheRest
<1> SUFFICES ASSUME Inv, phase \in Accepted PROVE FitsTheRest
  BY DEF FitsTheRest
<1>1. phase \in Compiled /\ phase \in OptionsRead /\ ~arg_has_errors
  BY DEF Inv, Shape, Compiled, OptionsRead
<1>2. Consistent(CommandLine)
  <2>1. Is("sed") => ~(Is("tui") \/ Is("sort") \/ Is("flip") \/ uncompiled.tail_end # NoLimit)
    BY DirectMeans DEF Inv, SedDirect
  <2> QED
    BY <2>1 DEF Consistent, CommandLine, Inv, RangesWhole, Is
<1>3. /\ Ops!LegalOps(ret.ordered_ops)
      /\ \A i \in DOMAIN ret.ordered_ops :
           /\ ret.ordered_ops[i].kind = "tui_select" => Is("tui")
           /\ ret.ordered_ops[i].kind = "replace" => Is("match")
  BY <1>1 DEF Inv, OpsLegal, NeedsMatch
<1>4. /\ ret.in_byte_delimiter => ~Is("match")
      /\ HasPattern => Compiles(Pattern, uncompiled.re_options)
  <2>1. Pattern \in uncompiled.primary
    BY <1>1 DEF Inv, PatternKept, Pattern, Missing
  <2> QED
    BY <1>1, <2>1 DEF Inv, PatternKept, HasPattern
<1>5. ret.sizes.buf_size \in 1..SIZE_MAX /\ ret.sizes.bytes_to_read \in 1..SIZE_MAX
  BY <1>1, LimitsAssumption DEF Inv, SizesRead
<1> QED
  BY <1>2, <1>3, <1>4, <1>5 DEF FitsTheRest

LEMMA InitInv == Init => Inv
<1> SUFFICES ASSUME Init PROVE Inv
  OBVIOUS
<1>1. Shape
  BY DEF Init, Shape, RetFields, SizeFields, CodeFields, Phases, OptionsRead, Compiled, Accepted
<1>2. RangesWhole
  BY DEF Init, RangesWhole
<1>3. OpsLegal
  <2>1. IsSequence(<<>>)
    <3>1. <<>> \in Seq({})
      OBVIOUS
    <3> QED
      BY <3>1 DEF IsSequence
  <2> QED
    BY <2>1 DEF Init, OpsLegal, Ops!LegalOps, OptionsRead, Compiled, Accepted
<1>4. SizesRead
  BY LimitsAssumption DEF Init, SizesRead
<1>5. PatternKept /\ SedDirect
  BY DEF Init, PatternKept, SedDirect, OptionsRead, Compiled, Accepted
<1> QED
  BY <1>1, <1>2, <1>3, <1>4, <1>5 DEF Inv

-------------------------------------------------------------------------------
(* The loop.  While the options are read only some of this can be lost.    *)

(* One more word is read, n more are taken.                                *)
LEMMA Consumed ==
  ASSUME Inv, NEW names, Reads(names), NEW n \in Nat, NEW args, NEW wrong, Consume(n, args, wrong)
  PROVE  /\ argv' = argv /\ argv \in CommandLines /\ optind' \in Nat \ {0}
         /\ phase = "parsing" /\ phase' = "parsing"
         /\ ~arg_has_errors' => ~arg_has_errors /\ ~wrong
<1>1. argv' = argv /\ argv \in CommandLines /\ phase = "parsing" /\ phase' = "parsing"
  BY DEF Inv, Shape, Reads, Consume
<1>2. optind' \in Nat \ {0}
  BY DEF Inv, Shape, Consume
<1>3. ~arg_has_errors' => ~arg_has_errors /\ ~wrong
  BY Zenon DEF Consume
<1> QED
  BY <1>1, <1>2, <1>3

(* The word that is read.                                                  *)
LEMMA WordIs ==
  ASSUME argv \in CommandLines, optind \in Nat \ {0}, NEW names, Reads(names)
  PROVE  /\ argv \in Seq([name : STRING, arg : Seq(Seq(Nat))])
         /\ Len(argv) \in Nat /\ optind \in 1..Len(argv)
         /\ word.name \in names /\ word.arg \in Seq(Seq(Nat)) /\ Len(word.arg) <= 1
         /\ word.arg # <<>> => Head(word.arg) \in Seq(Nat) /\ Len(word.arg) = 1
         /\ word.name \in TakesArgument => word.arg # <<>>
<1>1. argv \in Seq([name : STRING, arg : Seq(Seq(Nat))]) /\ optind <= Len(argv) /\ word.name \in names
  BY WordsAssumption DEF Reads
<1>2. Len(argv) \in Nat /\ optind \in 1..Len(argv) /\ optind \in DOMAIN argv
  BY <1>1, LenProperties
<1>3. word \in [name : STRING, arg : Seq(Seq(Nat))]
  BY <1>1, <1>2, ElementOfSeq DEF word
<1>4. Len(word.arg) <= 1 /\ (word.name \in TakesArgument => word.arg # <<>>)
  BY <1>2, WordsAssumption DEF word
<1>5. PICK arg \in Seq(Seq(Nat)) : arg = word.arg
  BY <1>3
<1>6. ASSUME arg # <<>> PROVE Head(arg) \in Seq(Nat) /\ Len(arg) = 1
  <2>1. Len(arg) \in Nat /\ Len(arg) # 0
    BY <1>6, LenProperties, EmptySeq
  <2>2. Len(arg) = 1
    <3>1. PICK l : l = Len(arg)
      OBVIOUS
    <3>2. l <= 1 /\ l \in Nat /\ l # 0
      BY <1>4, <1>5, <2>1, <3>1
    <3> QED
      BY <3>1, <3>2
  <2>3. Head(arg) \in Seq(Nat)
    BY ONLY <1>6, arg \in Seq(Seq(Nat)), HeadTailProperties
  <2> QED
    BY <2>2, <2>3
<1> QED
  BY <1>1, <1>2, <1>4, <1>5, <1>6

(* --sub takes the words that are left, which are too few, or two texts.   *)
LEMMA SubIs ==
  ASSUME Inv, AddSub
  PROVE  /\ Reads({"sub"}) /\ word.name = "sub" /\ ret' = ret
         /\ \E n, args, wrong :
              /\ n \in Nat /\ wrong \in BOOLEAN
              /\ optind + n <= Len(argv) /\ Consume(n, args, wrong)
              /\ \/ /\ wrong /\ optind + n = Len(argv) /\ Len(args) <= 1
                    /\ uncompiled' = uncompiled
                 \/ /\ ~wrong /\ Len(args) = 2
                    /\ \E target, replacement :
                         uncompiled' = Added(Ops!SubOp(target, replacement))
<1>1. Reads({"sub"}) /\ word.name = "sub" /\ ret' = ret
  BY DEF AddSub, Reads
<1>2. argv \in CommandLines /\ optind \in Nat \ {0}
  BY DEF Inv, Shape
<1>3. Len(argv) \in Nat /\ optind \in 1..Len(argv) /\ Len(word.arg) <= 1
  BY <1>1, <1>2, WordIs
<1>4. SubTakes \in Nat
  BY DEF SubTakes
<1>5. CASE optind + SubTakes > Len(argv)
  <2>1. Consume(Len(argv) - optind, word.arg, TRUE) /\ uncompiled' = uncompiled
    BY <1>5, Zenon DEF AddSub
  <2>2. PICK n : n = Len(argv) - optind
    OBVIOUS
  <2>3. n \in Nat /\ optind + n = Len(argv) /\ optind + n <= Len(argv)
    BY <1>3, <2>2
  <2> QED
    BY <1>1, <1>3, <2>1, <2>2, <2>3
<1>6. CASE ~(optind + SubTakes > Len(argv))
  <2>1. PICK target, replacement :
          /\ uncompiled' = Added(Ops!SubOp(target, replacement))
          /\ Consume(SubTakes, <<target, replacement>>, FALSE)
    BY <1>6, Zenon DEF AddSub
  <2>2. PICK n, args : n = SubTakes /\ args = <<target, replacement>>
    OBVIOUS
  <2>3. n \in Nat /\ optind + n <= Len(argv) /\ Len(args) = 2
    BY <1>3, <1>4, <1>6, <2>2
  <2> QED
    BY <1>1, <2>1, <2>2, <2>3
<1> QED
  BY <1>5, <1>6

(* The least and the greatest that it may set.                             *)
LeastSize(name) == IF name \in {"buf-size", "read"} THEN 1 ELSE 0

GreatestSize(name) ==
  CASE name = "buf-size" -> SIZE_MAX [] name = "max-lookbehind" -> UINT32_MAX - 1
    [] OTHER -> SIZE_MAX - 1

LEMMA SizeParsed ==
  ASSUME NEW name \in DOMAIN SizeOf, NEW text \in Seq(Nat)
  PROVE  /\ ParseSize(name, text) = IF IsNumber(text, LeastSize(name), GreatestSize(name))
                                    THEN Decimal(text) ELSE NoNumber
         /\ ParseSize(name, text) \in (LeastSize(name)..GreatestSize(name)) \cup {NoNumber}
<1>1. name \in {"buf-size", "buf-size-frag", "max-lookbehind", "read"}
  BY DEF SizeOf
<1>2. SIZE_MAX \in Nat /\ SIZE_MAX >= 10 /\ UINT32_MAX \in Nat /\ UINT32_MAX >= 10
  BY LimitsAssumption
<1>3. ParseSize(name, text) = IF IsNumber(text, LeastSize(name), GreatestSize(name))
                              THEN Decimal(text) ELSE NoNumber
  <2>1. CASE name = "buf-size"
    BY <1>2, <2>1, ParseNumberExact DEF ParseSize, LeastSize, GreatestSize
  <2>2. CASE name = "buf-size-frag"
    BY <1>2, <2>2, ParseNumberExact DEF ParseSize, LeastSize, GreatestSize
  <2>3. CASE name = "max-lookbehind"
    BY <1>2, <2>3, ParseNumberExact DEF ParseSize, LeastSize, GreatestSize
  <2>4. CASE name = "read"
    BY <1>2, <2>4, ParseNumberExact DEF ParseSize, LeastSize, GreatestSize
  <2> QED
    BY <1>1, <2>1, <2>2, <2>3, <2>4
<1> QED
  BY <1>3 DEF IsNumber

LEMMA ParsingInv ==
  ASSUME phase' = "parsing", argv' \in CommandLines, optind' \in Nat \ {0},
         (DOMAIN ret)' = RetFields, (DOMAIN ret.sizes)' = SizeFields,
         (DOMAIN uncompiled)' = CodeFields,
         RangesWhole', SizesRead',
         IsSequence(uncompiled.ordered_ops'),
         \A i \in DOMAIN uncompiled.ordered_ops' : uncompiled.ordered_ops'[i].kind \in Ops!OpKinds,
         \A i \in DOMAIN uncompiled.ordered_ops' :
           uncompiled.ordered_ops'[i].kind = "tui_select" => Is("tui")',
         ~arg_has_errors' => Ops!LegalOps(uncompiled.ordered_ops)'
  PROVE  Inv'
BY DEF Inv, Shape, OpsLegal, PatternKept, SedDirect, OptionsRead, Compiled, Accepted, Phases

(* The operations stay, and the flags only become more.                    *)
LEMMA OpsStay ==
  ASSUME Inv, uncompiled.ordered_ops' = uncompiled.ordered_ops,
         ret.flags \subseteq ret.flags', ~arg_has_errors' => ~arg_has_errors
  PROVE  /\ IsSequence(uncompiled.ordered_ops')
         /\ \A i \in DOMAIN uncompiled.ordered_ops' : uncompiled.ordered_ops'[i].kind \in Ops!OpKinds
         /\ \A i \in DOMAIN uncompiled.ordered_ops' :
              uncompiled.ordered_ops'[i].kind = "tui_select" => Is("tui")'
         /\ ~arg_has_errors' => Ops!LegalOps(uncompiled.ordered_ops)'
BY DEF Inv, OpsLegal, Is, Ops!LegalOps

LEMMA SetFlagsKeeps == Inv /\ SetFlags => Inv'
<1> SUFFICES ASSUME Inv, SetFlags PROVE Inv'
  OBVIOUS
<1>1. /\ argv' \in CommandLines /\ optind' \in Nat \ {0} /\ phase' = "parsing"
      /\ ~arg_has_errors' => ~arg_has_errors
  BY Consumed DEF SetFlags
<1>2. /\ (DOMAIN ret)' = RetFields /\ ret.sizes' = ret.sizes
      /\ ret.out_start' = ret.out_start /\ ret.out_end' = ret.out_end
      /\ ret.flags \subseteq ret.flags'
      /\ uncompiled' = uncompiled
  BY DEF SetFlags, Inv, Shape, RetFields
<1>3. RangesWhole' /\ SizesRead'
  BY <1>1, <1>2 DEF Inv, RangesWhole, SizesRead
<1>4. (DOMAIN ret.sizes)' = SizeFields /\ (DOMAIN uncompiled)' = CodeFields
  BY <1>2 DEF Inv, Shape
<1> QED
  BY <1>1, <1>2, <1>3, <1>4, OpsStay, ParsingInv

(* Nothing in ret changes but what the rest does not depend on.            *)
LEMMA CodesChange ==
  ASSUME Inv, argv' \in CommandLines, optind' \in Nat \ {0}, phase' = "parsing",
         ~arg_has_errors' => ~arg_has_errors,
         (DOMAIN ret)' = RetFields, ret.sizes' = ret.sizes,
         ret.out_start' = ret.out_start, ret.out_end' = ret.out_end, ret.flags' = ret.flags,
         (DOMAIN uncompiled)' = CodeFields, uncompiled.ordered_ops' = uncompiled.ordered_ops,
         uncompiled.tail_start' = uncompiled.tail_start,
         uncompiled.tail_end' = uncompiled.tail_end
  PROVE  Inv'
<1>1. RangesWhole' /\ SizesRead'
  BY DEF Inv, RangesWhole, SizesRead
<1>2. (DOMAIN ret.sizes)' = SizeFields
  BY DEF Inv, Shape
<1> QED
  BY <1>1, <1>2, OpsStay, ParsingInv

LEMMA OthersKeep ==
  Inv /\ (SetReOptions \/ Positional \/ SetDelimiter \/ SetField \/ WrongOption \/ SetPrompt \/ OtherOption) => Inv'
<1> SUFFICES ASSUME Inv, SetReOptions \/ Positional \/ SetDelimiter \/ SetField \/ WrongOption \/ SetPrompt \/ OtherOption
    PROVE  Inv'
  OBVIOUS
<1>1. /\ argv' \in CommandLines /\ optind' \in Nat \ {0} /\ phase' = "parsing"
      /\ ~arg_has_errors' => ~arg_has_errors
  BY Consumed DEF SetReOptions, Positional, SetDelimiter, SetField, WrongOption, SetPrompt, OtherOption
<1>2. /\ (DOMAIN ret)' = RetFields /\ ret.sizes' = ret.sizes
      /\ ret.out_start' = ret.out_start /\ ret.out_end' = ret.out_end /\ ret.flags' = ret.flags
  BY DEF SetReOptions, Positional, SetDelimiter, SetField, WrongOption, SetPrompt, OtherOption, Inv, Shape, RetFields
<1>3. /\ (DOMAIN uncompiled)' = CodeFields /\ uncompiled.ordered_ops' = uncompiled.ordered_ops
      /\ uncompiled.tail_start' = uncompiled.tail_start
      /\ uncompiled.tail_end' = uncompiled.tail_end
  BY DEF SetReOptions, Positional, SetDelimiter, SetField, WrongOption, SetPrompt, OtherOption, Inv, Shape, CodeFields
<1> QED
  BY <1>1, <1>2, <1>3, CodesChange

LEMMA SetSizeKeeps == Inv /\ SetSize => Inv'
<1> SUFFICES ASSUME Inv, SetSize PROVE Inv'
  OBVIOUS
<1> DEFINE n == ParseSize(word.name, Head(word.arg))
           k == SizeOf[word.name]
           wrong == n = NoNumber \/ (word.name = "buf-size" /\ n > MAX_BUF_SIZE)
<1>1. /\ Reads(DOMAIN SizeOf) /\ Consume(0, word.arg, wrong)
      /\ ret' = [ret EXCEPT !.sizes[k] = Number(n)] /\ uncompiled' = uncompiled
  BY DEF SetSize
<1>2. /\ argv' \in CommandLines /\ optind' \in Nat \ {0} /\ phase' = "parsing"
      /\ ~arg_has_errors' => ~arg_has_errors /\ n # NoNumber
  <2>1. ~arg_has_errors' => ~wrong
    BY <1>1, Consumed
  <2> QED
    BY <1>1, <2>1, Consumed
<1>3. /\ word.name \in DOMAIN SizeOf
      /\ n \in (LeastSize(word.name)..GreatestSize(word.name)) \cup {NoNumber}
  <2>1. argv \in CommandLines /\ optind \in Nat \ {0}
    BY DEF Inv, Shape
  <2>2. word.name \in DOMAIN SizeOf
    BY <1>1 DEF Reads
  <2>3. word.name \in TakesArgument
    BY <2>2 DEF SizeOf, TakesArgument
  <2>4. Head(word.arg) \in Seq(Nat)
    BY <1>1, <2>1, <2>3, WordIs
  <2> QED
    BY <2>2, <2>4, SizeParsed
<1>4. Number(n) \in 0..SIZE_MAX
  BY <1>3, LimitsAssumption DEF Number, LeastSize, GreatestSize
<1>5. k \in SizeFields /\ (k \in {"buf_size", "bytes_to_read"} /\ n # NoNumber => Number(n) # 0)
  <2>1. word.name \in {"buf-size", "buf-size-frag", "max-lookbehind", "read"}
    BY <1>3 DEF SizeOf
  <2>2. k \in SizeFields /\ (k \in {"buf_size", "bytes_to_read"} => word.name \in {"buf-size", "read"})
    BY <2>1 DEF SizeOf, SizeFields
  <2>3. word.name \in {"buf-size", "read"} => n # 0
    BY <1>3 DEF LeastSize, NoNumber
  <2> QED
    BY <2>2, <2>3 DEF Number
<1> HIDE DEF n, k, wrong
<1>6. /\ (DOMAIN ret)' = RetFields /\ (DOMAIN ret.sizes)' = SizeFields
      /\ ret.out_start' = ret.out_start /\ ret.out_end' = ret.out_end /\ ret.flags' = ret.flags
      /\ \A f \in SizeFields : ret.sizes'[f] = IF f = k THEN Number(n) ELSE ret.sizes[f]
  BY <1>1 DEF Inv, Shape, RetFields
<1>7. SizesRead'
  BY <1>2, <1>4, <1>5, <1>6 DEF Inv, SizesRead, SizeFields
<1>8. RangesWhole' /\ (DOMAIN uncompiled)' = CodeFields
  BY <1>1, <1>6 DEF Inv, Shape, RangesWhole
<1> QED
  BY <1>1, <1>2, <1>6, <1>7, <1>8, OpsStay, ParsingInv

(* One more operation: a --replace after one that edits is an error.       *)
LEMMA OpAdded ==
  ASSUME Inv, NEW op, uncompiled' = Added(op), op.kind \in Ops!OpKinds,
         op.kind = "tui_select" => Is("tui")', ret.flags \subseteq ret.flags',
         ~arg_has_errors' => ~arg_has_errors,
         op.kind = "replace" /\ ~arg_has_errors' => ~EditsBefore(uncompiled.ordered_ops)
  PROVE  /\ IsSequence(uncompiled.ordered_ops')
         /\ \A i \in DOMAIN uncompiled.ordered_ops' : uncompiled.ordered_ops'[i].kind \in Ops!OpKinds
         /\ \A i \in DOMAIN uncompiled.ordered_ops' :
              uncompiled.ordered_ops'[i].kind = "tui_select" => Is("tui")'
         /\ ~arg_has_errors' => Ops!LegalOps(uncompiled.ordered_ops)'
         /\ (DOMAIN uncompiled)' = CodeFields
         /\ uncompiled.tail_start' = uncompiled.tail_start
         /\ uncompiled.tail_end' = uncompiled.tail_end
<1> DEFINE ops == uncompiled.ordered_ops
<1>1. /\ uncompiled.ordered_ops' = Append(ops, op)
      /\ (DOMAIN uncompiled)' = CodeFields
      /\ uncompiled.tail_start' = uncompiled.tail_start
      /\ uncompiled.tail_end' = uncompiled.tail_end
  BY DEF Inv, Shape, Added, CodeFields
<1>2. /\ IsSequence(Append(ops, op))
      /\ DOMAIN Append(ops, op) = 1..Len(ops) + 1 /\ DOMAIN ops = 1..Len(ops) /\ Len(ops) \in Nat
      /\ \A i \in 1..Len(ops) : Append(ops, op)[i] = ops[i]
      /\ Append(ops, op)[Len(ops) + 1] = op
  BY AppendedSequence DEF Inv, OpsLegal
<1>3. \A i \in DOMAIN Append(ops, op) : i \in DOMAIN ops \/ i = Len(ops) + 1
  BY <1>2
<1>4. \A i \in DOMAIN Append(ops, op) : Append(ops, op)[i].kind \in Ops!OpKinds
  BY <1>2, <1>3 DEF Inv, OpsLegal
<1>5. \A i \in DOMAIN Append(ops, op) : Append(ops, op)[i].kind = "tui_select" => Is("tui")'
  BY <1>2, <1>3 DEF Inv, OpsLegal, Is
<1>6. ASSUME ~arg_has_errors', NEW i \in DOMAIN Append(ops, op), Append(ops, op)[i].kind = "replace",
             NEW j \in 1..i - 1
      PROVE  Append(ops, op)[j].kind \in {"remove", "filter", "head"}
  <2>1. j \in 1..Len(ops) /\ Append(ops, op)[j] = ops[j]
    BY <1>2
  <2>2. CASE i = Len(ops) + 1
    BY <1>2, <1>6, <2>1, <2>2 DEF EditsBefore
  <2>3. CASE i \in 1..Len(ops)
    BY <1>2, <1>6, <2>1, <2>3 DEF Inv, OpsLegal, Ops!LegalOps
  <2> QED
    BY <1>2, <1>3, <1>6, <2>2, <2>3
<1>7. ~arg_has_errors' => Ops!LegalOps(Append(ops, op))
  BY <1>4, <1>6 DEF Ops!LegalOps
<1> QED
  BY <1>1, <1>2, <1>4, <1>5, <1>7 DEF Ops!LegalOps

(* A range has an end, whatever was written.                               *)
LEMMA RangeHasEnd ==
  ASSUME NEW text, NEW start,
         NEW pair, pair = [first |-> 10, second |-> NoLimit, failed |-> FALSE]
                     \/ pair = ParseNumberPair(text, SIZE_MAX)
  PROVE  RangeEnd(pair) # NoLimit
<1>1. pair.first # NoLimit
  <2>1. CASE pair = [first |-> 10, second |-> NoLimit, failed |-> FALSE]
    BY <2>1 DEF NoLimit
  <2>2. CASE pair = ParseNumberPair(text, SIZE_MAX)
    <3>1. PICK n, m : pair = [first |-> 0, second |-> 0, failed |-> TRUE]
                        \/ pair = [first |-> Number(n), second |-> m, failed |-> FALSE]
      BY <2>2, Zenon DEF ParseNumberPair
    <3> QED
      BY <3>1 DEF Number, NoNumber, NoLimit
  <2> QED
    BY <2>1, <2>2
<1> QED
  BY <1>1 DEF RangeEnd

LEMMA SetRangeKeeps == Inv /\ SetRange => Inv'
<1> SUFFICES ASSUME Inv, SetRange PROVE Inv'
  OBVIOUS
<1> DEFINE pair == IF OptionalArg = <<>> THEN [first |-> 10, second |-> NoLimit, failed |-> FALSE]
                   ELSE ParseNumberPair(Head(OptionalArg), SIZE_MAX)
<1>1. RangeEnd(pair) # NoLimit
  BY RangeHasEnd
<1>2. /\ argv' \in CommandLines /\ optind' \in Nat \ {0} /\ phase' = "parsing"
      /\ ~arg_has_errors' => ~arg_has_errors
  <2>1. Taken \in Nat
    BY DEF Taken
  <2> QED
    BY <2>1, Consumed DEF SetRange
<1>3. \/ uncompiled' = Added(Ops!InLimitOp(Ranged(NoLimit, pair), RangeEnd(pair))) /\ ret' = ret
      \/ /\ ret' = [ret EXCEPT !.out_start = Ranged(@, pair), !.out_end = RangeEnd(pair)]
         /\ uncompiled' = uncompiled
      \/ /\ uncompiled' = [uncompiled EXCEPT !.tail_start = Ranged(@, pair),
                                             !.tail_end = RangeEnd(pair)]
         /\ ret' = ret
  BY DEF SetRange
<1> HIDE DEF pair
<1>4. CASE uncompiled' = Added(Ops!InLimitOp(Ranged(NoLimit, pair), RangeEnd(pair))) /\ ret' = ret
  <2>1. Ops!InLimitOp(Ranged(NoLimit, pair), RangeEnd(pair)).kind = "head"
    BY DEF Ops!InLimitOp
  <2>2. /\ IsSequence(uncompiled.ordered_ops')
        /\ \A i \in DOMAIN uncompiled.ordered_ops' : uncompiled.ordered_ops'[i].kind \in Ops!OpKinds
        /\ \A i \in DOMAIN uncompiled.ordered_ops' :
             uncompiled.ordered_ops'[i].kind = "tui_select" => Is("tui")'
        /\ ~arg_has_errors' => Ops!LegalOps(uncompiled.ordered_ops)'
        /\ (DOMAIN uncompiled)' = CodeFields
        /\ uncompiled.tail_start' = uncompiled.tail_start
        /\ uncompiled.tail_end' = uncompiled.tail_end
    BY <1>2, <1>4, <2>1, OpAdded DEF Ops!OpKinds
  <2>3. RangesWhole' /\ SizesRead' /\ (DOMAIN ret)' = RetFields /\ (DOMAIN ret.sizes)' = SizeFields
    BY <1>2, <1>4, <2>2 DEF Inv, Shape, RangesWhole, SizesRead
  <2> QED
    BY <1>2, <2>2, <2>3, ParsingInv
<1>5. CASE /\ ret' = [ret EXCEPT !.out_start = Ranged(@, pair), !.out_end = RangeEnd(pair)]
           /\ uncompiled' = uncompiled
  <2>1. /\ (DOMAIN ret)' = RetFields /\ (DOMAIN ret.sizes)' = SizeFields
        /\ ret.sizes' = ret.sizes /\ ret.flags' = ret.flags /\ ret.out_end' = RangeEnd(pair)
    BY <1>5 DEF Inv, Shape, RetFields
  <2>2. RangesWhole' /\ SizesRead' /\ (DOMAIN uncompiled)' = CodeFields
    BY <1>1, <1>2, <1>5, <2>1 DEF Inv, Shape, RangesWhole, SizesRead
  <2> QED
    BY <1>2, <1>5, <2>1, <2>2, OpsStay, ParsingInv
<1>6. CASE /\ uncompiled' = [uncompiled EXCEPT !.tail_start = Ranged(@, pair),
                                              !.tail_end = RangeEnd(pair)]
           /\ ret' = ret
  <2>1. /\ (DOMAIN uncompiled)' = CodeFields
        /\ uncompiled.ordered_ops' = uncompiled.ordered_ops
        /\ uncompiled.tail_end' = RangeEnd(pair)
    BY <1>6 DEF Inv, Shape, CodeFields
  <2>2. RangesWhole' /\ SizesRead' /\ (DOMAIN ret)' = RetFields /\ (DOMAIN ret.sizes)' = SizeFields
    BY <1>1, <1>2, <1>6, <2>1 DEF Inv, Shape, RangesWhole, SizesRead
  <2> QED
    BY <1>2, <1>6, <2>1, <2>2, OpsStay, ParsingInv
<1> QED
  BY <1>3, <1>4, <1>5, <1>6

LEMMA AddOpKeeps == Inv /\ (AddIndex \/ AddFilter \/ AddTuiSelect \/ AddSub \/ AddReplace) => Inv'
<1> SUFFICES ASSUME Inv, AddIndex \/ AddFilter \/ AddTuiSelect \/ AddSub \/ AddReplace
    PROVE  Inv'
  OBVIOUS
<1>1. /\ argv' \in CommandLines /\ optind' \in Nat \ {0} /\ phase' = "parsing"
      /\ ~arg_has_errors' => ~arg_has_errors
  <2>1. Taken \in Nat
    BY DEF Taken
  <2>2. CASE AddSub
    BY <2>2, SubIs, Consumed
  <2> QED
    BY <2>1, <2>2, Consumed DEF AddIndex, AddFilter, AddTuiSelect, AddReplace
<1>2. /\ (DOMAIN ret)' = RetFields /\ ret.sizes' = ret.sizes
      /\ ret.out_start' = ret.out_start /\ ret.out_end' = ret.out_end
      /\ ret.flags \subseteq ret.flags' /\ (AddTuiSelect => Is("tui")')
  BY DEF AddIndex, AddFilter, AddTuiSelect, AddSub, AddReplace, Inv, Shape, RetFields, Is
<1>3. /\ SizesRead' /\ (DOMAIN ret.sizes)' = SizeFields
      /\ (uncompiled.tail_start' = uncompiled.tail_start /\
          uncompiled.tail_end' = uncompiled.tail_end => RangesWhole')
  BY <1>1, <1>2 DEF Inv, Shape, SizesRead, RangesWhole
<1>4. \/ uncompiled' = uncompiled
      \/ \E op : /\ uncompiled' = Added(op) /\ op.kind \in Ops!OpKinds
                 /\ op.kind = "tui_select" => Is("tui")'
                 /\ op.kind = "replace" /\ ~arg_has_errors' => ~EditsBefore(uncompiled.ordered_ops)
  <2>1. CASE AddIndex
    <3>1. PICK align : uncompiled' = Added(Ops!IndexOp(align))
      BY <2>1 DEF AddIndex
    <3>2. Ops!IndexOp(align).kind = "index"
      BY DEF Ops!IndexOp
    <3> QED
      BY <3>1, <3>2 DEF Ops!OpKinds, Ops!EditKinds
  <2>2. CASE AddFilter
    <3>1. PICK matches : uncompiled' \in {Added(Ops!FilterOp(matches)), Added(Ops!RmOp(matches))}
      BY <2>2 DEF AddFilter
    <3>2. Ops!FilterOp(matches).kind = "filter" /\ Ops!RmOp(matches).kind = "remove"
      BY DEF Ops!FilterOp, Ops!RmOp
    <3> QED
      BY <3>1, <3>2 DEF Ops!OpKinds
  <2>3. CASE AddTuiSelect
    <3>1. PICK matches : uncompiled' = Added(Ops!TuiSelectOp(matches))
      BY <2>3 DEF AddTuiSelect
    <3>2. Ops!TuiSelectOp(matches).kind = "tui_select"
      BY DEF Ops!TuiSelectOp
    <3> QED
      BY <1>2, <2>3, <3>1, <3>2 DEF Ops!OpKinds
  <2>4. CASE AddSub
    <3>1. CASE uncompiled' = uncompiled
      BY <3>1
    <3>2. CASE uncompiled' # uncompiled
      <4>1. PICK target, replacement : uncompiled' = Added(Ops!SubOp(target, replacement))
        BY <2>4, <3>2, SubIs
      <4>2. Ops!SubOp(target, replacement).kind = "sub"
        BY DEF Ops!SubOp
      <4> QED
        BY <4>1, <4>2 DEF Ops!OpKinds, Ops!EditKinds
    <3> QED
      BY <3>1, <3>2
  <2>5. CASE AddReplace
    <3>1. PICK replacement : uncompiled' = Added(Ops!ReplaceOp(replacement))
      BY <2>5 DEF AddReplace
    <3>2. Ops!ReplaceOp(replacement).kind = "replace"
      BY DEF Ops!ReplaceOp
    <3>3. ~arg_has_errors' => ~EditsBefore(uncompiled.ordered_ops)
      BY <2>5, Consumed DEF AddReplace
    <3> QED
      BY <3>1, <3>2, <3>3 DEF Ops!OpKinds, Ops!EditKinds
  <2> QED
    BY <2>1, <2>2, <2>3, <2>4, <2>5
<1>5. CASE uncompiled' = uncompiled
  <2>1. RangesWhole' /\ (DOMAIN uncompiled)' = CodeFields
    BY <1>3, <1>5 DEF Inv, Shape
  <2> QED
    BY <1>1, <1>2, <1>3, <1>5, <2>1, OpsStay, ParsingInv
<1>6. ASSUME NEW op, uncompiled' = Added(op), op.kind \in Ops!OpKinds,
             op.kind = "tui_select" => Is("tui")',
             op.kind = "replace" /\ ~arg_has_errors' => ~EditsBefore(uncompiled.ordered_ops)
      PROVE  Inv'
  <2>1. /\ IsSequence(uncompiled.ordered_ops')
        /\ \A i \in DOMAIN uncompiled.ordered_ops' : uncompiled.ordered_ops'[i].kind \in Ops!OpKinds
        /\ \A i \in DOMAIN uncompiled.ordered_ops' :
             uncompiled.ordered_ops'[i].kind = "tui_select" => Is("tui")'
        /\ ~arg_has_errors' => Ops!LegalOps(uncompiled.ordered_ops)'
        /\ (DOMAIN uncompiled)' = CodeFields
        /\ uncompiled.tail_start' = uncompiled.tail_start
        /\ uncompiled.tail_end' = uncompiled.tail_end
    BY <1>1, <1>2, <1>6, OpAdded
  <2> QED
    BY <1>1, <1>2, <1>3, <2>1, ParsingInv
<1> QED
  BY <1>4, <1>5, <1>6

LEMMA ShowKeeps == Inv /\ Show => Inv'
BY DEF Inv, Show, Reads, Shape, RangesWhole, OpsLegal, SizesRead, PatternKept, SedDirect,
       OptionsRead, Compiled, Accepted, Phases, Is

-------------------------------------------------------------------------------
(* After the loop.                                                         *)
LEMMA EndOfOptionsKeeps == Inv /\ EndOfOptions => Inv'
<1> SUFFICES ASSUME Inv, EndOfOptions PROVE Inv'
  OBVIOUS
<1>1. /\ (DOMAIN ret)' = RetFields /\ ret.sizes' = ret.sizes
      /\ ret.out_start' = ret.out_start /\ ret.out_end' = ret.out_end /\ ret.flags' = ret.flags
  BY DEF EndOfOptions, Inv, Shape, RetFields
<1>2. /\ (DOMAIN uncompiled)' = CodeFields /\ uncompiled.ordered_ops' = uncompiled.ordered_ops
      /\ uncompiled.tail_start' = uncompiled.tail_start
      /\ uncompiled.tail_end' = uncompiled.tail_end
      /\ uncompiled.primary' # Missing
  BY DEF EndOfOptions, Inv, Shape, CodeFields, Missing
<1>3. /\ phase' \in {"failed", "compiling"} /\ (phase' = "compiling" => ~arg_has_errors')
      /\ ~arg_has_errors' => ~arg_has_errors /\ (NeedsMatch => Is("match"))
  BY Zenon DEF EndOfOptions
<1>4. Shape'
  BY <1>1, <1>2, <1>3 DEF EndOfOptions, Inv, Shape, OptionsRead, Compiled, Accepted, Phases
<1>5. RangesWhole' /\ SizesRead'
  BY <1>1, <1>2, <1>3 DEF Inv, RangesWhole, SizesRead
<1>6. OpsLegal'
  BY <1>1, <1>2, <1>3
     DEF Inv, OpsLegal, NeedsMatch, Is, OptionsRead, Compiled, Accepted, Ops!LegalOps
<1>7. PatternKept' /\ SedDirect'
  BY <1>2, <1>3 DEF PatternKept, SedDirect, Compiled, Accepted
<1> QED
  BY <1>4, <1>5, <1>6, <1>7 DEF Inv

LEMMA CompileAllKeeps == Inv /\ CompileAll => Inv'
<1> SUFFICES ASSUME Inv, CompileAll PROVE Inv'
  OBVIOUS
<1>1. /\ phase = "compiling" /\ ~arg_has_errors
      /\ argv' = argv /\ optind' = optind /\ uncompiled' = uncompiled
      /\ arg_has_errors' = arg_has_errors
  BY DEF CompileAll, Inv, Shape, OptionsRead
<1>2. CASE AllCompile
  <2>1. /\ (DOMAIN ret)' = RetFields /\ ret.sizes' = ret.sizes
        /\ ret.out_start' = ret.out_start /\ ret.out_end' = ret.out_end /\ ret.flags' = ret.flags
        /\ ret.ordered_ops' = uncompiled.ordered_ops /\ phase' = "defaults"
        /\ ret.in_byte_delimiter' = (\E p \in uncompiled.primary : InByteDelimiter(p))
    BY <1>2 DEF CompileAll, Inv, Shape, RetFields
  <2>2. Shape' /\ RangesWhole' /\ SizesRead'
    BY <1>1, <2>1 DEF Inv, Shape, RangesWhole, SizesRead, Phases
  <2>3. OpsLegal'
    BY <1>1, <2>1
       DEF Inv, OpsLegal, NeedsMatch, Is, OptionsRead, Compiled, Accepted, Ops!LegalOps
  <2>4. ret.in_byte_delimiter' => ~Is("match")
    BY <2>1 DEF InByteDelimiter
  <2>5. ~ret.in_byte_delimiter' => \A p \in uncompiled.primary : Compiles(p, uncompiled.re_options)
    BY <1>2, <2>1 DEF AllCompile
  <2>6. PatternKept' /\ SedDirect'
    BY <1>1, <2>1, <2>4, <2>5
       DEF Inv, PatternKept, SedDirect, Is, OptionsRead, Compiled, Accepted
  <2> QED
    BY <2>2, <2>3, <2>6 DEF Inv
<1>3. CASE ~AllCompile
  BY <1>1, <1>3
     DEF CompileAll, Inv, Shape, RangesWhole, OpsLegal, SizesRead, PatternKept, SedDirect, Is,
         OptionsRead, Compiled, Accepted, Phases, Ops!LegalOps
<1> QED
  BY <1>2, <1>3

LEMMA FillDefaultsKeeps == Inv /\ FillDefaults => Inv'
<1> SUFFICES ASSUME Inv, FillDefaults PROVE Inv'
  OBVIOUS
<1>1. /\ phase = "defaults" /\ ~arg_has_errors
      /\ argv' = argv /\ optind' = optind /\ uncompiled' = uncompiled
      /\ arg_has_errors' = arg_has_errors
  BY DEF FillDefaults, Inv, Shape, OptionsRead, Compiled
<1>2. CASE phase' = "failed" /\ ret' = ret
  BY <1>1, <1>2
     DEF Inv, Shape, RangesWhole, OpsLegal, SizesRead, PatternKept, SedDirect, Is,
         OptionsRead, Compiled, Accepted, Phases, Ops!LegalOps
<1>3. ASSUME NEW frag, NEW lookbehind, phase' = "checking",
             ret' = [ret EXCEPT
               !.sizes = [buf_size |-> ret.sizes.buf_size, buf_size_frag |-> frag,
                          max_lookbehind |-> lookbehind,
                          bytes_to_read |-> IF ret.sizes.bytes_to_read = SIZE_MAX
                                            THEN ret.sizes.buf_size
                                            ELSE ret.sizes.bytes_to_read]]
      PROVE  Inv'
  <2>1. /\ (DOMAIN ret)' = RetFields /\ (DOMAIN ret.sizes)' = SizeFields
        /\ ret.out_start' = ret.out_start /\ ret.out_end' = ret.out_end /\ ret.flags' = ret.flags
        /\ ret.ordered_ops' = ret.ordered_ops /\ ret.in_byte_delimiter' = ret.in_byte_delimiter
        /\ ret.sizes.buf_size' = ret.sizes.buf_size
        /\ ret.sizes.bytes_to_read' \in {ret.sizes.buf_size, ret.sizes.bytes_to_read}
    BY <1>3 DEF Inv, Shape, RetFields, SizeFields
  <2>2. Shape' /\ RangesWhole' /\ SizesRead'
    BY <1>1, <1>3, <2>1 DEF Inv, Shape, RangesWhole, SizesRead, Phases
  <2>3. OpsLegal'
    BY <1>1, <1>3, <2>1
       DEF Inv, OpsLegal, NeedsMatch, Is, OptionsRead, Compiled, Accepted, Ops!LegalOps
  <2>4. PatternKept' /\ SedDirect'
    BY <1>1, <1>3, <2>1 DEF Inv, PatternKept, SedDirect, Is, OptionsRead, Compiled, Accepted
  <2> QED
    BY <2>2, <2>3, <2>4 DEF Inv
<1> QED
  BY <1>2, <1>3 DEF FillDefaults

LEMMA CheckKeeps == Inv /\ Check => Inv'
<1> SUFFICES ASSUME Inv, Check PROVE Inv'
  OBVIOUS
<1>1. /\ phase = "checking" /\ ~arg_has_errors /\ phase' \in Phases
      /\ argv' = argv /\ optind' = optind /\ uncompiled' = uncompiled /\ ret' = ret
      /\ arg_has_errors' = arg_has_errors
  BY DEF Check, Inv, Shape, OptionsRead, Compiled, Phases, Accepted
<1>2. phase' \in Accepted => ~Senseless
  BY DEF Check, Accepted
<1>3. Shape' /\ RangesWhole' /\ SizesRead'
  BY <1>1 DEF Inv, Shape, RangesWhole, SizesRead
<1>4. OpsLegal' /\ PatternKept'
  BY <1>1 DEF Inv, OpsLegal, PatternKept, NeedsMatch, Is, OptionsRead, Compiled, Ops!LegalOps
<1>5. SedDirect'
  <2>1. CommandLine' = CommandLine
    BY <1>1 DEF CommandLine, Is
  <2> QED
    BY <1>1, <1>2, <2>1 DEF SedDirect, Senseless, Is
<1> QED
  BY <1>3, <1>4, <1>5 DEF Inv

LEMMA NextInv == Inv /\ [Next]_vars => Inv'
<1>1. Inv /\ UNCHANGED vars => Inv'
  BY DEF Inv, Shape, RangesWhole, OpsLegal, SizesRead, PatternKept, SedDirect, NeedsMatch, Is,
         CommandLine, Ops!LegalOps, vars
<1> QED
  BY <1>1, SetFlagsKeeps, OthersKeep, SetSizeKeeps, SetRangeKeeps, AddOpKeeps, ShowKeeps,
     EndOfOptionsKeeps, CompileAllKeeps, FillDefaultsKeeps, CheckKeeps DEF Next, Terminated

(* What handle_args accepts is what the collector, the pipeline and the    *)
(* tokenizer assume, for every set of command lines.                       *)
THEOREM AcceptedFits == Spec => []FitsTheRest
<1>1. Spec => []Inv
  BY InitInv, NextInv, PTL DEF Spec
<1> QED
  BY <1>1, InvFits, PTL

-------------------------------------------------------------------------------
(* What the options turn on.                                               *)

(* The names of the options whose errors have a reason of their own, and   *)
(* of some that other facts are about.                                     *)
Particular ==
  {"?", ":", "buf-size", "buf-size-frag", "max-lookbehind", "read", "head", "out", "tail",
   "index", "load-factor", "sub", "positional", "null", "replace", "tui-select"}

UtfNames == {"utf", "utf-allow-invalid"}

UtfOptions == {"utf", "match_invalid_utf"}

LEMMA TurnsMatch ==
  ASSUME NEW name \in DOMAIN Turns
  PROVE  /\ name \notin Particular \cup UtfNames
         /\ "match" \in Turns[name] <=> name \in {"match", "sed"}
BY DEF Turns, Particular, UtfNames

LEMMA TypesChosen ==
  /\ \A name \in DOMAIN SortTypes : SortTypes[name] \in Comparisons
  /\ \A name \in DOMAIN UniqueTypes : UniqueTypes[name] \in Comparisons
BY DEF SortTypes, UniqueTypes, Comparisons

LEMMA ReOptionsAdded ==
  ASSUME NEW name \in DOMAIN AddsRe
  PROVE  /\ AddsRe[name] \subseteq ReOptions
         /\ name \notin Particular \cup {"match", "sed"}
         /\ AddsRe[name] \cap UtfOptions # {} <=> name \in UtfNames
         /\ RemovesRe(name) \cap UtfOptions = {}
BY DEF AddsRe, RemovesRe, ReOptions, Particular, UtfNames, UtfOptions

-------------------------------------------------------------------------------
(* One more option is seen.                                                *)
LEMMA PlacesMore ==
  ASSUME IsSequence(seen), NEW w, seen' = Append(seen, w)
  PROVE  /\ IsSequence(seen')
         /\ Len(seen) \in Nat /\ DOMAIN seen = 1..Len(seen)
         /\ DOMAIN seen' = 1..Len(seen) + 1 /\ seen'[Len(seen) + 1] = w
         /\ \A i \in DOMAIN seen : seen'[i] = seen[i]
         /\ \A names : Places(names)' = Places(names) \cup
                                          (IF w.name \in names THEN {Len(seen) + 1} ELSE {})
<1>1. /\ IsSequence(Append(seen, w))
      /\ DOMAIN Append(seen, w) = 1..Len(seen) + 1 /\ DOMAIN seen = 1..Len(seen) /\ Len(seen) \in Nat
      /\ \A i \in 1..Len(seen) : Append(seen, w)[i] = seen[i]
      /\ Append(seen, w)[Len(seen) + 1] = w
  BY AppendedSequence
<1>2. PICK n, more : n \in Nat /\ n = Len(seen) /\ more = seen'
  BY <1>1
<1>3. /\ DOMAIN seen = 1..n /\ DOMAIN more = 1..n + 1 /\ more[n + 1] = w
      /\ \A i \in 1..n : more[i] = seen[i]
  BY <1>1, <1>2
<1>4. \A i : i \in 1..n + 1 <=> i \in 1..n \/ i = n + 1
  BY <1>2
<1>5. ASSUME NEW names
      PROVE  Places(names)' = Places(names) \cup (IF w.name \in names THEN {n + 1} ELSE {})
  <2>1. Places(names)' = {i \in 1..n + 1 : more[i].name \in names}
    BY <1>2, <1>3 DEF Places
  <2>2. Places(names) = {i \in 1..n : seen[i].name \in names}
    BY <1>3 DEF Places
  <2> QED
    BY <1>3, <1>4, <2>1, <2>2
<1> QED
  BY <1>1, <1>2, <1>5

LEMMA LastPlace ==
  ASSUME NEW n \in Nat, NEW P, P \subseteq 1..n
  PROVE  /\ P # {} => Max(P) \in P
         /\ Max(P \cup {n + 1}) = n + 1
<1>1. ASSUME P # {} PROVE Max(P) \in P
  <2>1. PICK m \in Int : m = n
    OBVIOUS
  <2>2. P \subseteq Int /\ \A x \in P : x <= m
    BY <2>1
  <2> QED
    BY ONLY <1>1, <2>2, GreatestElement, m \in Int
<1>2. PICK m \in Int : m = n + 1
  OBVIOUS
<1>3. PICK Q : Q = P \cup {m}
  OBVIOUS
<1>4. Q \subseteq Int /\ m \in Q /\ \A x \in Q : x <= m
  <2>1. \A x \in P : x \in Int /\ x <= m
    BY <1>2
  <2> QED
    BY <1>3, <2>1
<1>5. Max(Q) \in Q /\ \A x \in Q : x <= Max(Q)
  <2>1. Q # {}
    BY <1>4
  <2> QED
    BY ONLY <1>4, <2>1, GreatestElement, m \in Int
<1>6. PICK x \in Int : x = Max(Q)
  BY <1>4, <1>5
<1>7. x <= m /\ m <= x
  BY <1>4, <1>5, <1>6
<1>8. x = m
  BY <1>7
<1> QED
  BY <1>1, <1>2, <1>3, <1>6, <1>8

(* WrongAt, of an option that is read now.                                 *)
WrongNow(name, arg) ==
  \/ name \in {"?", ":"}
  \/ name = "buf-size" /\ ~IsNumber(Head(arg), 1, MAX_BUF_SIZE)
  \/ name = "buf-size-frag" /\ ~IsNumber(Head(arg), 0, SIZE_MAX - 1)
  \/ name = "max-lookbehind" /\ ~IsNumber(Head(arg), 0, UINT32_MAX - 1)
  \/ name = "read" /\ ~IsNumber(Head(arg), 1, SIZE_MAX - 1)
  \/ name \in {"head", "out", "tail"} /\ arg # <<>> /\ ~IsRange(Head(arg))
  \/ name = "index" /\ arg # <<>> /\ Head(arg) \notin Alignments
  \/ name = "load-factor" /\ Head(arg) \notin LoadFactors
  \/ name = "sub" /\ Len(arg) < 2
  \/ name = "positional" /\ Places({"positional", "null"}) # {}
  \/ name = "replace" /\ Places({"sub", "replace", "index", "tui-select"}) # {}

AnyWrong == \E i \in DOMAIN seen : WrongAt(i)

LEMMA WrongMore ==
  ASSUME IsSequence(seen), NEW w, seen' = Append(seen, w)
  PROVE  AnyWrong' <=> AnyWrong \/ WrongNow(w.name, w.arg)
<1>0. PICK n \in Nat : n = Len(seen)
  BY PlacesMore
<1>1. PICK more : /\ n = Len(seen) /\ more = seen'
                  /\ DOMAIN seen = 1..n /\ DOMAIN more = 1..n + 1 /\ more[n + 1] = w
                  /\ \A i \in 1..n : more[i] = seen[i]
  BY <1>0, PlacesMore
<1>2. \A names : Places(names)' = Places(names) \cup (IF w.name \in names THEN {n + 1} ELSE {})
  BY <1>1, PlacesMore
<1>3. \A names : Places(names) \subseteq 1..n
  BY <1>1 DEF Places
<1>4. ASSUME NEW i \in 1..n PROVE WrongAt(i)' <=> WrongAt(i)
  <2>1. seen'[i] = seen[i]
    BY <1>1
  <2>2. \A names : (\E j \in Places(names)' : j < i) <=> (\E j \in Places(names) : j < i)
    BY <1>2, <1>3
  <2>3. /\ (\E j \in Places({"positional", "null"})' : j < i)
             <=> (\E j \in Places({"positional", "null"}) : j < i)
        /\ (\E j \in Places({"sub", "replace", "index", "tui-select"})' : j < i)
             <=> (\E j \in Places({"sub", "replace", "index", "tui-select"}) : j < i)
    BY <2>2
  <2> QED
    BY <2>1, <2>3 DEF WrongAt, Written
<1>5. WrongAt(n + 1)' <=> WrongNow(w.name, w.arg)
  <2>1. seen'[n + 1] = w
    BY <1>1
  <2>2. \A names : (\E j \in Places(names)' : j < n + 1) <=> Places(names) # {}
    BY <1>2, <1>3
  <2>3. /\ (\E j \in Places({"positional", "null"})' : j < n + 1)
             <=> Places({"positional", "null"}) # {}
        /\ (\E j \in Places({"sub", "replace", "index", "tui-select"})' : j < n + 1)
             <=> Places({"sub", "replace", "index", "tui-select"}) # {}
    BY <2>2
  <2> QED
    BY <2>1, <2>3 DEF WrongAt, WrongNow, Written
<1>6. \A i : i \in 1..n + 1 <=> i \in 1..n \/ i = n + 1
  BY <1>1
<1> QED
  BY <1>1, <1>4, <1>5, <1>6 DEF AnyWrong

-------------------------------------------------------------------------------
(* Errors: what is known of the options so far is what was written.        *)
Edits == {"sub", "replace", "index", "tui-select"}
Primaries == {"positional", "null"}
Matches == {"match", "sed"}

Counted ==
  /\ IsSequence(seen)
  /\ Is("match") <=> Places(Matches) # {}
  /\ NeedsMatch <=> Places({"replace"}) # {}
  /\ phase = "parsing" =>
       /\ uncompiled.primary # Missing <=> Places(Primaries) # {}
       /\ optind <= Len(argv) => (EditsBefore(uncompiled.ordered_ops) <=> Places(Edits) # {})
       /\ arg_has_errors <=> AnyWrong
  /\ ErrorsReported

LEMMA CountedMore ==
  ASSUME Inv, Counted, NEW names, Reads(names), NEW n \in Nat, NEW args, NEW wrong \in BOOLEAN,
         Consume(n, args, wrong), wrong <=> WrongNow(word.name, args),
         Is("match")' <=> Is("match") \/ word.name \in Matches,
         NeedsMatch' <=> NeedsMatch \/ word.name = "replace",
         (uncompiled.primary # Missing)' <=> uncompiled.primary # Missing \/ word.name \in Primaries,
         optind' <= Len(argv) =>
           (EditsBefore(uncompiled.ordered_ops)' <=>
              EditsBefore(uncompiled.ordered_ops) \/ word.name \in Edits)
  PROVE  Counted'
<1>0. PICK w : w = [name |-> word.name, arg |-> args]
  OBVIOUS
<1>1. w = [name |-> word.name, arg |-> args] /\ w.name = word.name /\ w.arg = args
  BY <1>0
<1>2. /\ seen' = Append(seen, w) /\ IsSequence(seen) /\ phase = "parsing"
      /\ optind' = optind + 1 + n /\ argv' = argv /\ phase' = "parsing"
  BY <1>1 DEF Consume, Counted, Reads
<1>3. arg_has_errors' = (arg_has_errors \/ wrong)
  BY DEF Consume
<1>4. /\ IsSequence(seen')
      /\ \A ns : Places(ns)' = Places(ns) \cup (IF w.name \in ns THEN {Len(seen) + 1} ELSE {})
  BY <1>2, PlacesMore
<1>5. \A ns : Places(ns)' # {} <=> Places(ns) # {} \/ word.name \in ns
  BY <1>1, <1>4
<1>6. AnyWrong' <=> AnyWrong \/ WrongNow(word.name, args)
  BY <1>1, <1>2, WrongMore
<1>7. arg_has_errors' <=> AnyWrong'
  BY <1>2, <1>3, <1>6, Zenon DEF Counted
<1>8. Is("match")' <=> Places(Matches)' # {}
  BY <1>5 DEF Counted
<1>9. NeedsMatch' <=> Places({"replace"})' # {}
  BY <1>5 DEF Counted
<1>10. (uncompiled.primary # Missing)' <=> Places(Primaries)' # {}
  BY <1>2, <1>5 DEF Counted
<1>11. optind' <= Len(argv') => (EditsBefore(uncompiled.ordered_ops)' <=> Places(Edits)' # {})
  <2> SUFFICES ASSUME optind' <= Len(argv)
               PROVE  EditsBefore(uncompiled.ordered_ops)' <=> Places(Edits)' # {}
    BY <1>2
  <2>1. optind <= Len(argv)
    <3>1. optind \in Nat /\ Len(argv) \in Nat
      <4>1. argv \in CommandLines /\ optind \in Nat \ {0}
        BY DEF Inv, Shape
      <4> QED
        BY <4>1, WordIs
    <3> QED
      BY <1>2, <3>1
  <2> QED
    BY <1>2, <1>5, <2>1 DEF Counted
<1>12. ErrorsReported'
  BY <1>2 DEF ErrorsReported
<1> QED
  BY <1>2, <1>4, <1>7, <1>8, <1>9, <1>10, <1>11, <1>12 DEF Counted

(* The operations that are known.                                          *)
LEMMA OpsAsBefore ==
  ASSUME uncompiled.ordered_ops' = uncompiled.ordered_ops
  PROVE  /\ NeedsMatch' <=> NeedsMatch
         /\ EditsBefore(uncompiled.ordered_ops)' <=> EditsBefore(uncompiled.ordered_ops)
BY DEF NeedsMatch, EditsBefore

LEMMA OpsMore ==
  ASSUME Inv, NEW op, uncompiled' = Added(op)
  PROVE  /\ NeedsMatch' <=> NeedsMatch \/ op.kind = "replace"
         /\ EditsBefore(uncompiled.ordered_ops)' <=>
              EditsBefore(uncompiled.ordered_ops) \/ op.kind \notin {"remove", "filter", "head"}
         /\ uncompiled.primary' = uncompiled.primary
<1> DEFINE ops == uncompiled.ordered_ops
<1>1. uncompiled.ordered_ops' = Append(ops, op) /\ uncompiled.primary' = uncompiled.primary
  BY DEF Inv, Shape, Added, CodeFields
<1>2. PICK n, more : n \in Nat /\ more = uncompiled.ordered_ops' /\ n = Len(ops)
  BY AppendedSequence DEF Inv, OpsLegal
<1>3. /\ DOMAIN more = 1..n + 1 /\ DOMAIN ops = 1..n
      /\ \A i \in 1..n : more[i] = ops[i]
      /\ more[n + 1] = op
  BY <1>1, <1>2, AppendedSequence DEF Inv, OpsLegal
<1>4. \A i : i \in 1..n + 1 <=> i \in 1..n \/ i = n + 1
  BY <1>2
<1>5. NeedsMatch' <=> NeedsMatch \/ op.kind = "replace"
  <2>1. NeedsMatch' <=> \E i \in 1..n + 1 : more[i].kind = "replace"
    BY <1>2, <1>3 DEF NeedsMatch
  <2>2. NeedsMatch <=> \E i \in 1..n : ops[i].kind = "replace"
    BY <1>3 DEF NeedsMatch
  <2> QED
    BY <1>3, <1>4, <2>1, <2>2
<1>6. EditsBefore(ops)' <=> EditsBefore(ops) \/ op.kind \notin {"remove", "filter", "head"}
  <2>1. EditsBefore(ops)' <=> \E i \in 1..n + 1 : more[i].kind \notin {"remove", "filter", "head"}
    BY <1>2, <1>3 DEF EditsBefore
  <2>2. EditsBefore(ops) <=> \E i \in 1..n : ops[i].kind \notin {"remove", "filter", "head"}
    BY <1>3 DEF EditsBefore
  <2> QED
    BY <1>3, <1>4, <2>1, <2>2
<1> QED
  BY <1>1, <1>5, <1>6

(* Most options are never wrong.                                           *)
LEMMA NeverWrong ==
  ASSUME NEW name, NEW arg, name \notin Particular \ {"null", "tui-select"}
  PROVE  ~WrongNow(name, arg)
BY DEF WrongNow, Particular

LEMMA CountSetFlags == Inv /\ Counted /\ SetFlags => Counted'
<1> SUFFICES ASSUME Inv, Counted, SetFlags PROVE Counted'
  OBVIOUS
<1>1. Reads(DOMAIN Turns) /\ Consume(0, <<>>, FALSE) /\ word.name \in DOMAIN Turns
  BY DEF SetFlags, Reads
<1>2. word.name \notin Particular /\ ("match" \in Turns[word.name] <=> word.name \in Matches)
  BY <1>1, TurnsMatch DEF Matches
<1>3. ~WrongNow(word.name, <<>>)
  BY <1>2, NeverWrong
<1>4. ret.flags' = ret.flags \cup Turns[word.name] /\ uncompiled' = uncompiled
  BY DEF SetFlags, Inv, Shape, RetFields
<1>5. Is("match")' <=> Is("match") \/ word.name \in Matches
  BY <1>2, <1>4 DEF Is
<1>6. word.name # "replace" /\ word.name \notin Primaries /\ word.name \notin Edits
  BY <1>2 DEF Particular, Primaries, Edits
<1>7. /\ NeedsMatch' <=> NeedsMatch
      /\ EditsBefore(uncompiled.ordered_ops)' <=> EditsBefore(uncompiled.ordered_ops)
      /\ (uncompiled.primary # Missing)' <=> uncompiled.primary # Missing
  BY <1>4, OpsAsBefore
<1> QED
  BY <1>1, <1>3, <1>5, <1>6, <1>7, CountedMore

LEMMA CountSetReOptions == Inv /\ Counted /\ SetReOptions => Counted'
<1> SUFFICES ASSUME Inv, Counted, SetReOptions PROVE Counted'
  OBVIOUS
<1>1. Reads(DOMAIN AddsRe) /\ Consume(0, <<>>, FALSE) /\ word.name \in DOMAIN AddsRe
  BY DEF SetReOptions, Reads
<1>2. word.name \notin Particular \cup {"match", "sed"}
  BY <1>1, ReOptionsAdded
<1>3. ~WrongNow(word.name, <<>>)
  BY <1>2, NeverWrong
<1>4. ret' = ret /\ uncompiled.ordered_ops' = uncompiled.ordered_ops
      /\ uncompiled.primary' = uncompiled.primary
  BY DEF SetReOptions, Inv, Shape, CodeFields
<1>5. /\ word.name # "replace" /\ word.name \notin Primaries /\ word.name \notin Edits
      /\ word.name \notin Matches
  BY <1>2 DEF Particular, Primaries, Edits, Matches
<1>6. Is("match")' <=> Is("match")
  BY <1>4 DEF Is
<1>7. /\ NeedsMatch' <=> NeedsMatch
      /\ EditsBefore(uncompiled.ordered_ops)' <=> EditsBefore(uncompiled.ordered_ops)
      /\ (uncompiled.primary # Missing)' <=> uncompiled.primary # Missing
  BY <1>4, OpsAsBefore
<1> QED
  BY <1>1, <1>3, <1>5, <1>6, <1>7, CountedMore

(* A size is wrong when it is not a number in its range.                   *)
LEMMA SizeWrong ==
  ASSUME NEW name \in DOMAIN SizeOf, NEW arg, Head(arg) \in Seq(Nat),
         NEW n, n = ParseSize(name, Head(arg))
  PROVE  n = NoNumber \/ (name = "buf-size" /\ n > MAX_BUF_SIZE) <=> WrongNow(name, arg)
<1>1. name \in {"buf-size", "buf-size-frag", "max-lookbehind", "read"}
  BY DEF SizeOf
<1>2. PICK text \in Seq(Nat) : text = Head(arg)
  OBVIOUS
<1>3. n = IF IsNumber(text, LeastSize(name), GreatestSize(name)) THEN Decimal(text) ELSE NoNumber
  BY <1>2, SizeParsed
<1>5. IsNumber(text, LeastSize(name), GreatestSize(name)) => Decimal(text) \in Nat
  BY LimitsAssumption DEF IsNumber, LeastSize, GreatestSize
<1>6. CASE name = "buf-size"
  <2>1. WrongNow(name, arg) <=> ~IsNumber(text, 1, MAX_BUF_SIZE)
    BY <1>2, <1>6 DEF WrongNow
  <2>2. IsNumber(text, 1, MAX_BUF_SIZE) <=>
          IsNumber(text, 1, SIZE_MAX) /\ Decimal(text) <= MAX_BUF_SIZE
    BY LimitsAssumption DEF IsNumber
  <2>3. LeastSize(name) = 1 /\ GreatestSize(name) = SIZE_MAX
    BY <1>6 DEF LeastSize, GreatestSize
  <2>4. MAX_BUF_SIZE \in Nat
    BY LimitsAssumption
  <2>5. CASE IsNumber(text, 1, SIZE_MAX)
    <3>1. PICK m \in Nat : m = Decimal(text)
      BY <1>5, <2>3, <2>5
    <3>2. n = m /\ n # NoNumber
      BY <1>3, <2>3, <2>5, <3>1 DEF NoNumber
    <3>3. WrongNow(name, arg) <=> ~(m <= MAX_BUF_SIZE)
      BY <2>1, <2>2, <2>5, <3>1
    <3> QED
      BY <1>6, <2>4, <3>2, <3>3
  <2>6. CASE ~IsNumber(text, 1, SIZE_MAX)
    BY <1>3, <2>1, <2>2, <2>3, <2>6
  <2> QED
    BY <2>5, <2>6
<1>7. CASE name # "buf-size"
  <2>1. WrongNow(name, arg) <=> ~IsNumber(text, LeastSize(name), GreatestSize(name))
    BY <1>1, <1>2, <1>7 DEF WrongNow, LeastSize, GreatestSize
  <2>2. \A m \in Nat : m # NoNumber
    BY DEF NoNumber
  <2>3. n = NoNumber <=> ~IsNumber(text, LeastSize(name), GreatestSize(name))
    BY <1>3, <1>5, <2>2
  <2> QED
    BY <1>7, <2>1, <2>3
<1> QED
  BY <1>6, <1>7

LEMMA CountSetSize == Inv /\ Counted /\ SetSize => Counted'
<1> SUFFICES ASSUME Inv, Counted, SetSize PROVE Counted'
  OBVIOUS
<1> DEFINE n == ParseSize(word.name, Head(word.arg))
           k == SizeOf[word.name]
           wrong == n = NoNumber \/ (word.name = "buf-size" /\ n > MAX_BUF_SIZE)
<1>1. /\ Reads(DOMAIN SizeOf) /\ Consume(0, word.arg, wrong)
      /\ ret' = [ret EXCEPT !.sizes[k] = Number(n)] /\ uncompiled' = uncompiled
  BY DEF SetSize
<1>2. word.name \in DOMAIN SizeOf
  BY <1>1 DEF Reads
<1>3. word.name \in {"buf-size", "buf-size-frag", "max-lookbehind", "read"}
  BY <1>2 DEF SizeOf
<1>4. Head(word.arg) \in Seq(Nat)
  <2>1. argv \in CommandLines /\ optind \in Nat \ {0} /\ word.name \in TakesArgument
    BY <1>3 DEF Inv, Shape, TakesArgument
  <2> QED
    BY <1>1, <2>1, WordIs
<1>5. wrong <=> WrongNow(word.name, word.arg)
  BY <1>2, <1>4, SizeWrong
<1>10. wrong \in BOOLEAN
  OBVIOUS
<1> HIDE DEF n, k, wrong
<1>6. ret.flags' = ret.flags
  BY <1>1 DEF Inv, Shape, RetFields
<1>7. /\ word.name # "replace" /\ word.name \notin Primaries /\ word.name \notin Edits
      /\ word.name \notin Matches
  BY <1>3 DEF Primaries, Edits, Matches
<1>8. Is("match")' <=> Is("match")
  BY <1>6 DEF Is
<1>9. /\ NeedsMatch' <=> NeedsMatch
      /\ EditsBefore(uncompiled.ordered_ops)' <=> EditsBefore(uncompiled.ordered_ops)
      /\ (uncompiled.primary # Missing)' <=> uncompiled.primary # Missing
  BY <1>1, OpsAsBefore
<1> QED
  BY <1>1, <1>5, <1>10, <1>7, <1>8, <1>9, CountedMore

(* The optional argument, which may be the next word.                      *)
LEMMA OptionalArgIs ==
  ASSUME Inv, NEW names, Reads(names)
  PROVE  /\ OptionalArg # <<>> => Head(OptionalArg) \in Seq(Nat)
         /\ Taken \in Nat
<1>1. argv \in CommandLines /\ optind \in Nat \ {0}
  BY DEF Inv, Shape
<1>2. /\ argv \in Seq([name : STRING, arg : Seq(Seq(Nat))])
      /\ Len(argv) \in Nat /\ optind \in 1..Len(argv)
      /\ word.arg # <<>> => Head(word.arg) \in Seq(Nat)
  BY <1>1, WordIs
<1>3. CASE TakesNext
  <2>1. optind + 1 \in 1..Len(argv)
    BY <1>2, <1>3 DEF TakesNext
  <2>2. PICK next : next = argv[optind + 1] /\ next \in [name : STRING, arg : Seq(Seq(Nat))]
    BY <1>2, <2>1, ElementOfSeq
  <2>3. PICK arg \in Seq(Seq(Nat)) : arg = next.arg
    BY <2>2
  <2>4. arg # <<>> => Head(arg) \in Seq(Nat)
    BY ONLY arg \in Seq(Seq(Nat)), HeadTailProperties
  <2> QED
    BY <1>3, <2>2, <2>3, <2>4 DEF OptionalArg, Taken
<1>4. CASE ~TakesNext
  BY <1>2, <1>4 DEF OptionalArg, Taken
<1> QED
  BY <1>3, <1>4

LEMMA CountSetRange == Inv /\ Counted /\ SetRange => Counted'
<1> SUFFICES ASSUME Inv, Counted, SetRange PROVE Counted'
  OBVIOUS
<1> DEFINE pair == IF OptionalArg = <<>> THEN [first |-> 10, second |-> NoLimit, failed |-> FALSE]
                   ELSE ParseNumberPair(Head(OptionalArg), SIZE_MAX)
<1>1. /\ Reads({"head", "out", "tail"}) /\ Consume(Taken, OptionalArg, pair.failed)
      /\ \/ uncompiled' = Added(Ops!InLimitOp(Ranged(NoLimit, pair), RangeEnd(pair))) /\ ret' = ret
         \/ /\ ret' = [ret EXCEPT !.out_start = Ranged(@, pair), !.out_end = RangeEnd(pair)]
            /\ uncompiled' = uncompiled
         \/ /\ uncompiled' = [uncompiled EXCEPT !.tail_start = Ranged(@, pair),
                                                !.tail_end = RangeEnd(pair)]
            /\ ret' = ret
  BY DEF SetRange
<1>2. word.name \in {"head", "out", "tail"}
  BY <1>1 DEF Reads
<1>3. (OptionalArg # <<>> => Head(OptionalArg) \in Seq(Nat)) /\ Taken \in Nat
  BY <1>1, OptionalArgIs
<1>4. /\ pair.failed \in BOOLEAN
      /\ pair.failed <=> OptionalArg # <<>> /\ ~IsRange(Head(OptionalArg))
  <2>1. CASE OptionalArg = <<>>
    BY <2>1
  <2>2. CASE OptionalArg # <<>>
    <3>1. SIZE_MAX \in Nat /\ SIZE_MAX >= 10
      BY LimitsAssumption
    <3>2. pair = IF IsRange(Head(OptionalArg))
                 THEN [first |-> Decimal(Head(OptionalArg)), failed |-> FALSE,
                       second |-> IF CommaAt(Head(OptionalArg)) = 0 THEN NoLimit
                                  ELSE Decimal(AfterComma(Head(OptionalArg)))]
                 ELSE [first |-> 0, second |-> 0, failed |-> TRUE]
      BY <1>3, <2>2, <3>1, ParseNumberPairExact
    <3> HIDE DEF pair
    <3> QED
      BY <2>2, <3>2
  <2> QED
    BY <2>1, <2>2
<1> HIDE DEF pair
<1>5. pair.failed <=> WrongNow(word.name, OptionalArg)
  BY <1>2, <1>4 DEF WrongNow
<1>6. /\ word.name # "replace" /\ word.name \notin Primaries /\ word.name \notin Edits
      /\ word.name \notin Matches
  BY <1>2 DEF Primaries, Edits, Matches
<1>7. Is("match")' <=> Is("match")
  <2>1. ret' = ret \/ ret.flags' = ret.flags
    BY <1>1 DEF Inv, Shape, RetFields
  <2> QED
    BY <2>1 DEF Is
<1>8. /\ NeedsMatch' <=> NeedsMatch
      /\ EditsBefore(uncompiled.ordered_ops)' <=> EditsBefore(uncompiled.ordered_ops)
      /\ (uncompiled.primary # Missing)' <=> uncompiled.primary # Missing
  <2>1. CASE uncompiled' = Added(Ops!InLimitOp(Ranged(NoLimit, pair), RangeEnd(pair)))
    <3>1. PICK op : op = Ops!InLimitOp(Ranged(NoLimit, pair), RangeEnd(pair))
      OBVIOUS
    <3>2. op.kind = "head" /\ uncompiled' = Added(op)
      BY <2>1, <3>1 DEF Ops!InLimitOp
    <3> QED
      BY <3>2, OpsMore
  <2>2. CASE \/ uncompiled' = uncompiled
             \/ uncompiled' = [uncompiled EXCEPT !.tail_start = Ranged(@, pair),
                                                 !.tail_end = RangeEnd(pair)]
    <3>1. uncompiled.ordered_ops' = uncompiled.ordered_ops /\ uncompiled.primary' = uncompiled.primary
      BY <2>2 DEF Inv, Shape, CodeFields
    <3> QED
      BY <3>1, OpsAsBefore
  <2> QED
    BY <1>1, <2>1, <2>2
<1> QED
  BY <1>1, <1>3, <1>4, <1>5, <1>6, <1>7, <1>8, CountedMore

(* One operation is added, and nothing else that counts.                   *)
LEMMA CountOp ==
  ASSUME Inv, Counted, NEW names, Reads(names), NEW n \in Nat, NEW args, NEW wrong \in BOOLEAN,
         Consume(n, args, wrong), wrong <=> WrongNow(word.name, args), ret.flags \cap Matches =
           ret.flags' \cap Matches,
         NEW op, uncompiled' = Added(op),
         word.name \notin Matches \cup Primaries,
         op.kind = "replace" <=> word.name = "replace",
         op.kind \notin {"remove", "filter", "head"} <=> word.name \in Edits
  PROVE  Counted'
<1>1. Is("match")' <=> Is("match")
  BY DEF Is, Matches
<1>2. /\ NeedsMatch' <=> NeedsMatch \/ op.kind = "replace"
      /\ EditsBefore(uncompiled.ordered_ops)' <=>
           EditsBefore(uncompiled.ordered_ops) \/ op.kind \notin {"remove", "filter", "head"}
      /\ uncompiled.primary' = uncompiled.primary
  BY OpsMore
<1> QED
  BY <1>1, <1>2, CountedMore

LEMMA CountAddOp == Inv /\ Counted /\ (AddIndex \/ AddFilter \/ AddTuiSelect \/ AddReplace) => Counted'
<1> SUFFICES ASSUME Inv, Counted, AddIndex \/ AddFilter \/ AddTuiSelect \/ AddReplace PROVE Counted'
  OBVIOUS
<1>1. CASE AddIndex
  <2> DEFINE wrong == OptionalArg # <<>> /\ Head(OptionalArg) \notin Alignments
  <2>1. Reads({"index"}) /\ Consume(Taken, OptionalArg, wrong) /\ ret' = ret
    BY <1>1 DEF AddIndex
  <2>2. PICK align : uncompiled' = Added(Ops!IndexOp(align))
    BY <1>1 DEF AddIndex
  <2>3. PICK op : op = Ops!IndexOp(align)
    OBVIOUS
  <2>4. op.kind = "index" /\ word.name = "index" /\ uncompiled' = Added(op)
    BY <2>1, <2>2, <2>3 DEF Ops!IndexOp, Reads
  <2>5. wrong \in BOOLEAN /\ (wrong <=> WrongNow(word.name, OptionalArg))
    BY <2>4 DEF WrongNow
  <2>6. Taken \in Nat
    BY <2>1, OptionalArgIs
  <2> HIDE DEF wrong
  <2>7. word.name \notin Matches \cup Primaries /\ word.name \in Edits
    BY <2>4 DEF Matches, Primaries, Edits
  <2> QED
    BY <2>1, <2>4, <2>5, <2>6, <2>7, CountOp
<1>2. CASE AddFilter
  <2>1. Reads({"filter", "rm"}) /\ Consume(0, word.arg, FALSE) /\ ret' = ret
    BY <1>2 DEF AddFilter
  <2>2. PICK op : /\ uncompiled' = Added(op)
                  /\ op \in {Ops!FilterOp(Head(word.arg)), Ops!RmOp(Head(word.arg))}
    BY <1>2 DEF AddFilter
  <2>3. op.kind \in {"filter", "remove"} /\ word.name \in {"filter", "rm"}
    BY <2>1, <2>2 DEF Ops!FilterOp, Ops!RmOp, Reads
  <2>4. ~WrongNow(word.name, word.arg)
    BY <2>3, NeverWrong DEF Particular
  <2>5. word.name \notin Matches \cup Primaries /\ word.name \notin Edits /\ word.name # "replace"
    BY <2>3 DEF Matches, Primaries, Edits
  <2> QED
    BY <2>1, <2>2, <2>3, <2>4, <2>5, CountOp
<1>3. CASE AddTuiSelect
  <2>1. Reads({"tui-select"}) /\ Consume(0, word.arg, FALSE)
    BY <1>3 DEF AddTuiSelect
  <2>2. PICK op : uncompiled' = Added(op) /\ op = Ops!TuiSelectOp(Head(word.arg))
    BY <1>3 DEF AddTuiSelect
  <2>3. op.kind = "tui_select" /\ word.name = "tui-select"
    BY <2>1, <2>2 DEF Ops!TuiSelectOp, Reads
  <2>4. ~WrongNow(word.name, word.arg)
    BY <2>3, NeverWrong DEF Particular
  <2>5. word.name \notin Matches \cup Primaries /\ word.name \in Edits /\ word.name # "replace"
    BY <2>3 DEF Matches, Primaries, Edits
  <2>6. ret.flags \cap Matches = ret.flags' \cap Matches
    <3>1. ret.flags' = ret.flags \cup {"tui"}
      BY <1>3 DEF AddTuiSelect, Inv, Shape, RetFields
    <3> QED
      BY <3>1 DEF Matches
  <2> QED
    BY <2>1, <2>2, <2>3, <2>4, <2>5, <2>6, CountOp
<1>4. CASE AddReplace
  <2> DEFINE wrong == EditsBefore(uncompiled.ordered_ops)
  <2>1. Reads({"replace"}) /\ Consume(0, word.arg, wrong) /\ ret' = ret
    BY <1>4 DEF AddReplace
  <2>2. PICK op : uncompiled' = Added(op) /\ op = Ops!ReplaceOp(Head(word.arg))
    BY <1>4 DEF AddReplace
  <2>3. op.kind = "replace" /\ word.name = "replace"
    BY <2>1, <2>2 DEF Ops!ReplaceOp, Reads
  <2>4. wrong \in BOOLEAN
    BY DEF EditsBefore
  <2>5. wrong <=> WrongNow(word.name, word.arg)
    BY <2>1, <2>3 DEF WrongNow, Counted, Edits, Reads
  <2> HIDE DEF wrong
  <2>6. word.name \notin Matches \cup Primaries /\ word.name \in Edits
    BY <2>3 DEF Matches, Primaries, Edits
  <2> QED
    BY <2>1, <2>2, <2>3, <2>4, <2>5, <2>6, CountOp
<1> QED
  BY <1>1, <1>2, <1>3, <1>4

(* When --sub has too few arguments nothing follows it.                    *)
LEMMA CountAddSub == Inv /\ Counted /\ AddSub => Counted'
<1> SUFFICES ASSUME Inv, Counted, AddSub PROVE Counted'
  OBVIOUS
<1>1. Reads({"sub"}) /\ ret' = ret /\ word.name = "sub"
  BY SubIs
<1>2. PICK n, args, wrong :
        /\ n \in Nat /\ wrong \in BOOLEAN /\ Consume(n, args, wrong)
        /\ \/ /\ wrong /\ optind + n = Len(argv) /\ Len(args) <= 1
              /\ uncompiled' = uncompiled
           \/ /\ ~wrong /\ Len(args) = 2
              /\ \E target, replacement : uncompiled' = Added(Ops!SubOp(target, replacement))
  BY SubIs
<1>3. n \in Nat /\ wrong \in BOOLEAN /\ Consume(n, args, wrong)
  BY <1>2
<1>4. word.name \notin Matches \cup Primaries /\ word.name \in Edits /\ word.name # "replace"
  BY <1>1 DEF Matches, Primaries, Edits
<1>5. CASE wrong /\ optind + n = Len(argv) /\ Len(args) <= 1 /\ uncompiled' = uncompiled
  <2>1. WrongNow(word.name, args)
    <3>1. PICK l : l = Len(args)
      OBVIOUS
    <3>2. l < 2
      BY <1>5, <3>1
    <3> QED
      BY <1>1, <3>1, <3>2 DEF WrongNow
  <2>2. ~(optind' <= Len(argv))
    BY <1>3, <1>5 DEF Consume, Inv, Shape
  <2>3. /\ NeedsMatch' <=> NeedsMatch
        /\ (uncompiled.primary # Missing)' <=> uncompiled.primary # Missing
        /\ Is("match")' <=> Is("match")
    BY <1>1, <1>5, OpsAsBefore DEF Is
  <2> QED
    BY <1>1, <1>3, <1>4, <1>5, <2>1, <2>2, <2>3, CountedMore
<1>6. CASE /\ ~wrong /\ Len(args) = 2
           /\ \E target, replacement : uncompiled' = Added(Ops!SubOp(target, replacement))
  <2>1. PICK target, replacement : uncompiled' = Added(Ops!SubOp(target, replacement))
    BY <1>6
  <2>2. PICK op : op = Ops!SubOp(target, replacement)
    OBVIOUS
  <2>3. uncompiled' = Added(op) /\ op.kind = "sub"
    BY <2>1, <2>2 DEF Ops!SubOp
  <2>4. ~WrongNow(word.name, args)
    BY <1>1, <1>6 DEF WrongNow
  <2> QED
    BY <1>1, <1>3, <1>4, <1>6, <2>3, <2>4, CountOp
<1> QED
  BY <1>2, <1>5, <1>6

LEMMA CountPositional == Inv /\ Counted /\ Positional => Counted'
<1> SUFFICES ASSUME Inv, Counted, Positional PROVE Counted'
  OBVIOUS
<1> DEFINE wrong == word.name = "positional" /\ uncompiled.primary # Missing
<1>1. /\ Reads({"positional", "null"}) /\ Consume(0, word.arg, wrong) /\ ret' = ret
      /\ word.name \in {"positional", "null"} /\ phase = "parsing"
  BY DEF Positional, Reads
<1>2. wrong \in BOOLEAN /\ (wrong <=> WrongNow(word.name, word.arg))
  BY <1>1 DEF WrongNow, Counted, Primaries
<1> HIDE DEF wrong
<1>3. uncompiled.ordered_ops' = uncompiled.ordered_ops /\ uncompiled.primary' # Missing
  BY DEF Positional, Inv, Shape, CodeFields, Missing
<1>4. /\ NeedsMatch' <=> NeedsMatch
      /\ EditsBefore(uncompiled.ordered_ops)' <=> EditsBefore(uncompiled.ordered_ops)
  BY <1>3, OpsAsBefore
<1>5. /\ word.name # "replace" /\ word.name \in Primaries /\ word.name \notin Edits
      /\ word.name \notin Matches
  BY <1>1 DEF Primaries, Edits, Matches
<1>6. Is("match")' <=> Is("match")
  BY <1>1 DEF Is
<1>7. (uncompiled.primary # Missing)' = (uncompiled.primary' # Missing)
  BY DEF Missing
<1> QED
  BY <1>1, <1>2, <1>3, <1>4, <1>5, <1>6, <1>7, CountedMore

LEMMA CountOthers == Inv /\ Counted /\ (SetDelimiter \/ SetField \/ WrongOption \/ SetPrompt \/ OtherOption) => Counted'
<1> SUFFICES ASSUME Inv, Counted, SetDelimiter \/ SetField \/ WrongOption \/ SetPrompt \/ OtherOption PROVE Counted'
  OBVIOUS
<1>1. PICK names, wrong :
        /\ names = {"output-delimiter", "print0", "batch-delimiter", "batch-print0", "field",
                    "prompt", "locale", "load-factor", "?", ":"}
        /\ wrong = (\/ word.name \in {"?", ":"}
                    \/ word.name = "load-factor" /\ Head(word.arg) \notin LoadFactors)
  OBVIOUS
<1>2. Reads(names) /\ Consume(0, word.arg, wrong) /\ word.name \in names
  <2>1. CASE SetDelimiter
    BY <1>1, <2>1 DEF SetDelimiter, Reads, Consume
  <2>2. CASE SetField
    BY <1>1, <2>2 DEF SetField, Reads, Consume
  <2>3. CASE OtherOption
    BY <1>1, <2>3 DEF OtherOption, Reads, Consume
  <2>4. CASE WrongOption
    BY <1>1, <2>4 DEF WrongOption, Reads, Consume
  <2>5. CASE SetPrompt
    BY <1>1, <2>5 DEF SetPrompt, Reads, Consume
  <2> QED
    BY <2>1, <2>2, <2>3, <2>4, <2>5
<1>3. wrong \in BOOLEAN /\ (wrong <=> WrongNow(word.name, word.arg))
  BY <1>1, <1>2 DEF WrongNow
<1>4. /\ ret.flags' = ret.flags /\ uncompiled.ordered_ops' = uncompiled.ordered_ops
      /\ uncompiled.primary' = uncompiled.primary
  BY DEF SetDelimiter, SetField, WrongOption, SetPrompt, OtherOption, Inv, Shape, RetFields, CodeFields
<1>5. /\ NeedsMatch' <=> NeedsMatch
      /\ EditsBefore(uncompiled.ordered_ops)' <=> EditsBefore(uncompiled.ordered_ops)
      /\ (uncompiled.primary # Missing)' <=> uncompiled.primary # Missing
      /\ Is("match")' <=> Is("match")
  BY <1>4, OpsAsBefore DEF Is
<1>6. /\ word.name # "replace" /\ word.name \notin Primaries /\ word.name \notin Edits
      /\ word.name \notin Matches
  BY <1>1, <1>2 DEF Primaries, Edits, Matches
<1> QED
  BY <1>2, <1>3, <1>5, <1>6, CountedMore

-------------------------------------------------------------------------------
(* The errors are known at the end of the loop, and stay.                  *)
LEMMA CountEnd == Inv /\ Counted /\ EndOfOptions => Counted'
<1> SUFFICES ASSUME Inv, Counted, EndOfOptions PROVE Counted'
  OBVIOUS
<1>1. /\ phase = "parsing" /\ phase' \in {"failed", "compiling"} /\ seen' = seen
      /\ arg_has_errors' = \/ arg_has_errors
                           \/ uncompiled.primary = Missing /\ Is("match")
                           \/ ~Is("match") /\ NeedsMatch
  BY DEF EndOfOptions
<1>2. ret.flags' = ret.flags /\ uncompiled.ordered_ops' = uncompiled.ordered_ops
  BY DEF EndOfOptions, Inv, Shape, RetFields, CodeFields
<1>3. /\ NeedsMatch' <=> NeedsMatch
      /\ Is("match")' <=> Is("match")
  BY <1>2, OpsAsBefore DEF Is
<1>4. \A names : Places(names)' = Places(names)
  BY <1>1 DEF Places
<1>5. AnyWrong' <=> AnyWrong
  BY <1>1, <1>4 DEF AnyWrong, WrongAt, Written
<1>6. arg_has_errors' <=>
        \/ AnyWrong
        \/ Places(Matches) # {} /\ Places(Primaries) = {}
        \/ Places({"replace"}) # {} /\ Places(Matches) = {}
  BY <1>1, Zenon DEF Counted
<1>7. ErrorsReported'
  BY <1>1, <1>4, <1>5, <1>6 DEF ErrorsReported, AnyWrong, Matches, Primaries
<1> QED
  BY <1>1, <1>3, <1>4, <1>7 DEF Counted

LEMMA CountedStays ==
  ASSUME Counted, seen' = seen, arg_has_errors' = arg_has_errors, ret.flags' = ret.flags,
         uncompiled' = uncompiled, argv' = argv, optind' = optind,
         \/ phase' = phase
         \/ phase' # "parsing" /\ (phase' = "shown" \/ phase \notin {"parsing", "shown"})
  PROVE  Counted'
<1>1. NeedsMatch' = NeedsMatch /\ Is("match")' = Is("match")
  BY DEF NeedsMatch, Is
<1>2. AnyWrong' = AnyWrong /\ EditsBefore(uncompiled.ordered_ops)' = EditsBefore(uncompiled.ordered_ops)
  BY DEF AnyWrong, WrongAt, Written, Places, EditsBefore
<1>3. \A names : Places(names)' = Places(names)
  BY DEF Places
<1>4. ErrorsReported'
  BY <1>2, <1>3 DEF Counted, ErrorsReported, AnyWrong
<1> QED
  BY <1>1, <1>2, <1>3, <1>4 DEF Counted

LEMMA CountInit == Init => Counted
<1> SUFFICES ASSUME Init PROVE Counted
  OBVIOUS
<1>1. seen = <<>> /\ DOMAIN seen = {} /\ IsSequence(seen)
  <2>1. <<>> \in Seq({})
    OBVIOUS
  <2> QED
    BY <2>1 DEF Init, IsSequence
<1>2. \A names : Places(names) = {}
  BY <1>1 DEF Places
<1> QED
  BY <1>1, <1>2
     DEF Init, Counted, Is, NeedsMatch, EditsBefore, AnyWrong, ErrorsReported, Missing

LEMMA CountedKept == Inv /\ Counted /\ [Next]_vars => Counted'
<1> SUFFICES ASSUME Inv, Counted, [Next]_vars PROVE Counted'
  OBVIOUS
<1>1. CASE UNCHANGED vars \/ Show
  BY <1>1, CountedStays DEF vars, Show
<1>2. CASE CompileAll
  <2>1. ret.flags' = ret.flags
    BY <1>2 DEF CompileAll, Inv, Shape, RetFields
  <2> QED
    BY <1>2, <2>1, CountedStays DEF CompileAll
<1>3. CASE FillDefaults
  <2>1. ret' = ret \/ \E sizes : ret' = [ret EXCEPT !.sizes = sizes]
    BY <1>3, Zenon DEF FillDefaults
  <2>2. ret.flags' = ret.flags
    BY <2>1 DEF Inv, Shape, RetFields
  <2>3. /\ phase = "defaults" /\ phase' \in {"failed", "checking"}
        /\ UNCHANGED <<argv, optind, uncompiled, arg_has_errors, seen>>
    BY <1>3, Zenon DEF FillDefaults
  <2> QED
    BY <2>2, <2>3, CountedStays
<1>4. CASE Check
  <2>1. phase' # "parsing"
    BY <1>4 DEF Check
  <2> QED
    BY <1>4, <2>1, CountedStays DEF Check
<1> QED
  BY <1>1, <1>2, <1>3, <1>4, CountSetFlags, CountSetReOptions, CountSetSize, CountSetRange,
     CountAddOp, CountAddSub, CountPositional, CountOthers, CountEnd DEF Next, Terminated

(* Whatever the command line, an error is reported exactly if there is     *)
(* one: none is forgotten when others follow, and none is made up.         *)
THEOREM AllErrorsReported == Spec => []ErrorsReported
<1>1. Spec => [](Inv /\ Counted)
  BY InitInv, NextInv, CountInit, CountedKept, PTL DEF Spec
<1>2. Counted => ErrorsReported
  BY DEF Counted
<1> QED
  BY <1>1, <1>2, PTL

-------------------------------------------------------------------------------
(* Types.                                                                  *)
LimitValues == (0..SIZE_MAX) \cup {NoLimit}

SizesType ==
  [buf_size : 0..SIZE_MAX, buf_size_frag : 0..SIZE_MAX,
   max_lookbehind : 0..UINT32_MAX, bytes_to_read : 0..SIZE_MAX]

RetTyped ==
  /\ ret.flags \subseteq FlagSet
  /\ ret.sort_type \in Comparisons /\ ret.unique_type \in Comparisons
  /\ ret.out_start \in LimitValues /\ ret.out_end \in LimitValues
  /\ ret.sizes \in SizesType
  /\ ret.in_byte_delimiter \in BOOLEAN
  /\ \A i \in DOMAIN ret.ordered_ops : ret.ordered_ops[i].kind \in Ops!OpKinds

CodesTyped ==
  /\ uncompiled.tail_start \in LimitValues /\ uncompiled.tail_end \in LimitValues
  /\ uncompiled.re_options \subseteq ReOptions
  /\ uncompiled.primary = Missing \/ \E text \in Texts : uncompiled.primary = {text}
  /\ uncompiled.field = Missing \/ \E text : uncompiled.field = {text}

Typed ==
  /\ optind \in 1..Len(argv) + 1 /\ Len(argv) \in Nat
  /\ arg_has_errors \in BOOLEAN
  /\ RetTyped /\ CodesTyped

LEMMA TypedIs == Inv /\ Typed => TypeOK
<1> SUFFICES ASSUME Inv, Typed PROVE TypeOK
  OBVIOUS
<1>1. \A set : set = Missing \/ (\E text : set = {text}) => Cardinality(set) <= 1
  <2>1. ASSUME NEW set, set = Missing PROVE Cardinality(set) <= 1
    <3>1. Cardinality({}) = 0
      BY FS_EmptySet
    <3> QED
      BY <2>1, <3>1 DEF Missing
  <2>2. ASSUME NEW set, NEW text, set = {text} PROVE Cardinality(set) <= 1
    <3>1. Cardinality({text}) = 1
      BY FS_Singleton
    <3> QED
      BY <2>2, <3>1
  <2> QED
    BY <2>1, <2>2
<1>2. Cardinality(uncompiled.primary) <= 1 /\ Cardinality(uncompiled.field) <= 1
  <2>1. uncompiled.primary = Missing \/ \E text : uncompiled.primary = {text}
    BY DEF Typed, CodesTyped
  <2>2. uncompiled.field = Missing \/ \E text : uncompiled.field = {text}
    BY DEF Typed, CodesTyped
  <2> QED
    BY <1>1, <2>1, <2>2
<1>3. /\ {ret.sort_type, ret.unique_type} \subseteq Comparisons
      /\ {ret.out_start, ret.out_end, uncompiled.tail_start, uncompiled.tail_end} \subseteq LimitValues
      /\ {ret.in_byte_delimiter, arg_has_errors} \subseteq BOOLEAN
  BY DEF Typed, RetTyped, CodesTyped
<1>4. \A l \in {ret.ordered_ops, uncompiled.ordered_ops} :
        \A i \in DOMAIN l : l[i].kind \in Ops!OpKinds
  BY DEF Typed, RetTyped, Inv, OpsLegal
<1> QED
  BY <1>2, <1>3, <1>4 DEF Typed, RetTyped, CodesTyped, TypeOK, LimitValues, SizesType, Inv, Shape

LEMMA InitTyped == Init => Typed
<1> SUFFICES ASSUME Init PROVE Typed
  OBVIOUS
<1>1. argv \in Seq([name : STRING, arg : Seq(Seq(Nat))])
  BY WordsAssumption DEF Init
<1>2. optind \in 1..Len(argv) + 1 /\ Len(argv) \in Nat /\ arg_has_errors \in BOOLEAN
  <2>1. optind = 1 /\ arg_has_errors = FALSE
    BY DEF Init
  <2>2. PICK n \in Nat : n = Len(argv)
    BY ONLY <1>1, LenProperties
  <2>3. optind \in 1..n + 1
    BY <2>1
  <2> QED
    BY <2>1, <2>2, <2>3
<1>3. /\ ret.flags = {} /\ ret.sort_type = "lexicographical" /\ ret.unique_type = "lexicographical"
      /\ ret.out_start = NoLimit /\ ret.out_end = NoLimit
      /\ ret.sizes = [buf_size |-> BUF_SIZE_DEFAULT, buf_size_frag |-> SIZE_MAX,
                      max_lookbehind |-> UINT32_MAX, bytes_to_read |-> SIZE_MAX]
      /\ ret.in_byte_delimiter = FALSE /\ ret.ordered_ops = <<>>
  BY DEF Init
<1>4. ret.sizes \in SizesType
  BY <1>3, LimitsAssumption DEF SizesType
<1>5. RetTyped
  <2>1. DOMAIN ret.ordered_ops = {}
    BY <1>3
  <2> QED
    BY <1>3, <1>4, <2>1 DEF RetTyped, Comparisons, LimitValues
<1>6. CodesTyped
  BY DEF Init, CodesTyped, LimitValues, ReOptions
<1> QED
  BY <1>2, <1>5, <1>6 DEF Typed

(* One more word is read, and with it what it takes.                       *)
LEMMA PlaceTyped ==
  ASSUME Inv, Typed, NEW names, Reads(names), NEW n \in Nat, NEW args, NEW wrong,
         Consume(n, args, wrong), n = 0 \/ optind + n <= Len(argv)
  PROVE  optind' \in 1..Len(argv)' + 1 /\ Len(argv)' \in Nat /\ arg_has_errors' \in BOOLEAN
<1>1. argv' = argv /\ optind' = optind + 1 + n /\ optind <= Len(argv)
  BY DEF Consume, Reads
<1>2. arg_has_errors' \in BOOLEAN
  BY Zenon DEF Consume
<1> QED
  BY <1>1, <1>2 DEF Typed

LEMMA TakenIs ==
  ASSUME Typed
  PROVE  Taken \in Nat /\ (Taken = 0 \/ optind + Taken <= Len(argv))
<1>1. optind \in Nat /\ Len(argv) \in Nat
  BY DEF Typed
<1>2. TakesNext => optind < Len(argv)
  BY DEF TakesNext
<1>3. TakesNext => optind + 1 <= Len(argv)
  BY <1>1, <1>2
<1> QED
  BY <1>3 DEF Taken

LEMMA RetStays == RetTyped /\ ret' = ret => RetTyped'
BY DEF RetTyped

LEMMA CodesStay == CodesTyped /\ uncompiled' = uncompiled => CodesTyped'
BY DEF CodesTyped

LEMMA CodesAdded ==
  ASSUME Inv, CodesTyped, NEW op, uncompiled' = Added(op)
  PROVE  CodesTyped'
<1>1. /\ uncompiled.tail_start' = uncompiled.tail_start /\ uncompiled.tail_end' = uncompiled.tail_end
      /\ uncompiled.re_options' = uncompiled.re_options
      /\ uncompiled.primary' = uncompiled.primary /\ uncompiled.field' = uncompiled.field
  BY DEF Inv, Shape, Added, CodeFields
<1> QED
  BY <1>1 DEF CodesTyped

LEMMA SetFlagsTyped == Inv /\ Typed /\ SetFlags => Typed'
<1> SUFFICES ASSUME Inv, Typed, SetFlags PROVE Typed'
  OBVIOUS
<1>1. Reads(DOMAIN Turns) /\ Consume(0, <<>>, FALSE) /\ uncompiled' = uncompiled
      /\ word.name \in DOMAIN Turns
  BY DEF SetFlags, Reads
<1>2. /\ ret.flags' = ret.flags \cup Turns[word.name]
      /\ ret.sort_type' = IF word.name \in DOMAIN SortTypes THEN SortTypes[word.name]
                          ELSE ret.sort_type
      /\ ret.unique_type' = IF word.name \in DOMAIN UniqueTypes THEN UniqueTypes[word.name]
                            ELSE ret.unique_type
      /\ ret.out_start' = ret.out_start /\ ret.out_end' = ret.out_end
      /\ ret.sizes' = ret.sizes /\ ret.in_byte_delimiter' = ret.in_byte_delimiter
      /\ ret.ordered_ops' = ret.ordered_ops
  BY DEF SetFlags, Inv, Shape, RetFields
<1>3. Turns[word.name] \subseteq FlagSet
  BY <1>1 DEF FlagSet
<1>4. RetTyped'
  BY <1>2, <1>3, TypesChosen DEF Typed, RetTyped
<1> QED
  BY <1>1, <1>4, PlaceTyped, CodesStay DEF Typed

LEMMA SetReOptionsTyped == Inv /\ Typed /\ SetReOptions => Typed'
<1> SUFFICES ASSUME Inv, Typed, SetReOptions PROVE Typed'
  OBVIOUS
<1>1. Reads(DOMAIN AddsRe) /\ Consume(0, <<>>, FALSE) /\ ret' = ret /\ word.name \in DOMAIN AddsRe
  BY DEF SetReOptions, Reads
<1>2. /\ uncompiled.re_options' = (uncompiled.re_options \ RemovesRe(word.name)) \cup AddsRe[word.name]
      /\ uncompiled.tail_start' = uncompiled.tail_start /\ uncompiled.tail_end' = uncompiled.tail_end
      /\ uncompiled.primary' = uncompiled.primary /\ uncompiled.field' = uncompiled.field
  BY DEF SetReOptions, Inv, Shape, CodeFields
<1>3. CodesTyped'
  BY <1>1, <1>2, ReOptionsAdded DEF Typed, CodesTyped
<1> QED
  BY <1>1, <1>3, PlaceTyped, RetStays DEF Typed

(* A size with one number exchanged for another.                           *)
LEMMA SizeTyped ==
  ASSUME NEW sizes \in SizesType, NEW name \in DOMAIN SizeOf,
         NEW n \in (LeastSize(name)..GreatestSize(name)) \cup {NoNumber}
  PROVE  [sizes EXCEPT ![SizeOf[name]] = Number(n)] \in SizesType
<1>1. name \in {"buf-size", "buf-size-frag", "max-lookbehind", "read"}
  BY DEF SizeOf
<1>2. SIZE_MAX \in Nat /\ UINT32_MAX \in Nat /\ UINT32_MAX <= SIZE_MAX /\ UINT32_MAX > 0
  BY LimitsAssumption
<1>3. Number(n) \in 0..SIZE_MAX /\ (name = "max-lookbehind" => Number(n) \in 0..UINT32_MAX)
  BY <1>1, <1>2 DEF Number, LeastSize, GreatestSize
<1>4. PICK v : v = Number(n)
  OBVIOUS
<1>5. CASE name = "buf-size"
  <2>1. SizeOf[name] = "buf_size"
    BY <1>5 DEF SizeOf
  <2> QED
    BY <1>3, <1>4, <2>1 DEF SizesType
<1>6. CASE name = "buf-size-frag"
  <2>1. SizeOf[name] = "buf_size_frag"
    BY <1>6 DEF SizeOf
  <2> QED
    BY <1>3, <1>4, <2>1 DEF SizesType
<1>7. CASE name = "max-lookbehind"
  <2>1. SizeOf[name] = "max_lookbehind"
    BY <1>7 DEF SizeOf
  <2> QED
    BY <1>3, <1>4, <1>7, <2>1 DEF SizesType
<1>8. CASE name = "read"
  <2>1. SizeOf[name] = "bytes_to_read"
    BY <1>8 DEF SizeOf
  <2> QED
    BY <1>3, <1>4, <2>1 DEF SizesType
<1> QED
  BY <1>1, <1>5, <1>6, <1>7, <1>8

LEMMA SetSizeTyped == Inv /\ Typed /\ SetSize => Typed'
<1> SUFFICES ASSUME Inv, Typed, SetSize PROVE Typed'
  OBVIOUS
<1> DEFINE n == ParseSize(word.name, Head(word.arg))
           k == SizeOf[word.name]
           wrong == n = NoNumber \/ (word.name = "buf-size" /\ n > MAX_BUF_SIZE)
<1>1. /\ Reads(DOMAIN SizeOf) /\ Consume(0, word.arg, wrong)
      /\ ret' = [ret EXCEPT !.sizes[k] = Number(n)] /\ uncompiled' = uncompiled
  BY DEF SetSize
<1>2. /\ word.name \in DOMAIN SizeOf
      /\ n \in (LeastSize(word.name)..GreatestSize(word.name)) \cup {NoNumber}
  <2>1. argv \in CommandLines /\ optind \in Nat \ {0}
    BY DEF Inv, Shape
  <2>2. word.name \in DOMAIN SizeOf
    BY <1>1 DEF Reads
  <2>3. word.name \in TakesArgument
    BY <2>2 DEF SizeOf, TakesArgument
  <2>4. Head(word.arg) \in Seq(Nat)
    BY <1>1, <2>1, <2>3, WordIs
  <2> QED
    BY <2>2, <2>4, SizeParsed
<1>3. PICK sizes : sizes = [ret.sizes EXCEPT ![k] = Number(n)]
  OBVIOUS
<1>4. sizes \in SizesType
  BY <1>2, <1>3, SizeTyped DEF Typed, RetTyped
<1> HIDE DEF n, k, wrong
<1>5. /\ ret.flags' = ret.flags /\ ret.sort_type' = ret.sort_type
      /\ ret.unique_type' = ret.unique_type
      /\ ret.out_start' = ret.out_start /\ ret.out_end' = ret.out_end
      /\ ret.sizes' = sizes /\ ret.in_byte_delimiter' = ret.in_byte_delimiter
      /\ ret.ordered_ops' = ret.ordered_ops
  BY <1>1, <1>3 DEF Inv, Shape, RetFields
<1>6. RetTyped'
  BY <1>4, <1>5 DEF Typed, RetTyped
<1> QED
  BY <1>1, <1>6, PlaceTyped, CodesStay DEF Typed

(* A limit is a number that fits, or none.                                 *)
LEMMA RangeTyped ==
  ASSUME NEW pair, NEW start \in LimitValues,
         \/ pair = [first |-> 10, second |-> NoLimit, failed |-> FALSE]
         \/ \E text \in Seq(Nat) : pair = ParseNumberPair(text, SIZE_MAX)
  PROVE  Ranged(start, pair) \in LimitValues /\ RangeEnd(pair) \in LimitValues
<1>1. SIZE_MAX \in Nat /\ SIZE_MAX >= 10
  BY LimitsAssumption
<1>2. pair.first \in LimitValues /\ pair.second \in LimitValues
  <2>1. CASE pair = [first |-> 10, second |-> NoLimit, failed |-> FALSE]
    BY <1>1, <2>1 DEF LimitValues
  <2>2. ASSUME NEW text \in Seq(Nat), pair = ParseNumberPair(text, SIZE_MAX)
        PROVE  pair.first \in LimitValues /\ pair.second \in LimitValues
    <3>1. pair = IF IsRange(text)
                 THEN [first |-> Decimal(text), failed |-> FALSE,
                       second |-> IF CommaAt(text) = 0 THEN NoLimit ELSE Decimal(AfterComma(text))]
                 ELSE [first |-> 0, second |-> 0, failed |-> TRUE]
      BY <1>1, <2>2, ParseNumberPairExact
    <3>2. IsRange(text) =>
            /\ Decimal(text) \in 0..SIZE_MAX
            /\ CommaAt(text) # 0 => Decimal(AfterComma(text)) \in 0..SIZE_MAX
      BY DEF IsRange, IsNumber
    <3>3. PICK d, e, c : d = Decimal(text) /\ e = Decimal(AfterComma(text)) /\ c = CommaAt(text)
      OBVIOUS
    <3> QED
      BY <1>1, <3>1, <3>2, <3>3 DEF LimitValues
  <2> QED
    BY <2>1, <2>2
<1> QED
  BY <1>2 DEF Ranged, RangeEnd

LEMMA SetRangeTyped == Inv /\ Typed /\ SetRange => Typed'
<1> SUFFICES ASSUME Inv, Typed, SetRange PROVE Typed'
  OBVIOUS
<1> DEFINE pair == IF OptionalArg = <<>> THEN [first |-> 10, second |-> NoLimit, failed |-> FALSE]
                   ELSE ParseNumberPair(Head(OptionalArg), SIZE_MAX)
<1>1. /\ Reads({"head", "out", "tail"}) /\ Consume(Taken, OptionalArg, pair.failed)
      /\ \/ uncompiled' = Added(Ops!InLimitOp(Ranged(NoLimit, pair), RangeEnd(pair))) /\ ret' = ret
         \/ /\ ret' = [ret EXCEPT !.out_start = Ranged(@, pair), !.out_end = RangeEnd(pair)]
            /\ uncompiled' = uncompiled
         \/ /\ uncompiled' = [uncompiled EXCEPT !.tail_start = Ranged(@, pair),
                                                !.tail_end = RangeEnd(pair)]
            /\ ret' = ret
  BY DEF SetRange
<1>2. OptionalArg # <<>> => Head(OptionalArg) \in Seq(Nat)
  BY <1>1, OptionalArgIs
<1>3. \A start \in LimitValues : Ranged(start, pair) \in LimitValues /\ RangeEnd(pair) \in LimitValues
  BY <1>2, RangeTyped
<1> HIDE DEF pair
<1>4. optind' \in 1..Len(argv)' + 1 /\ Len(argv)' \in Nat /\ arg_has_errors' \in BOOLEAN
  <2>1. PICK n : n = Taken /\ n \in Nat /\ (n = 0 \/ optind + n <= Len(argv))
    BY TakenIs
  <2>2. n \in Nat /\ Consume(n, OptionalArg, pair.failed)
    BY <1>1, <2>1
  <2> QED
    BY <1>1, <2>1, <2>2, PlaceTyped
<1>5. CASE uncompiled' = Added(Ops!InLimitOp(Ranged(NoLimit, pair), RangeEnd(pair))) /\ ret' = ret
  BY <1>4, <1>5, RetStays, CodesAdded DEF Typed
<1>6. CASE /\ ret' = [ret EXCEPT !.out_start = Ranged(@, pair), !.out_end = RangeEnd(pair)]
           /\ uncompiled' = uncompiled
  <2>1. /\ ret.flags' = ret.flags /\ ret.sort_type' = ret.sort_type
        /\ ret.unique_type' = ret.unique_type
        /\ ret.out_start' = Ranged(ret.out_start, pair) /\ ret.out_end' = RangeEnd(pair)
        /\ ret.sizes' = ret.sizes /\ ret.in_byte_delimiter' = ret.in_byte_delimiter
        /\ ret.ordered_ops' = ret.ordered_ops
    BY <1>6 DEF Inv, Shape, RetFields
  <2>2. ret.out_start' \in LimitValues /\ ret.out_end' \in LimitValues
    <3>1. ret.out_start \in LimitValues
      BY DEF Typed, RetTyped
    <3>2. Ranged(ret.out_start, pair) \in LimitValues /\ RangeEnd(pair) \in LimitValues
      BY <1>3, <3>1
    <3> QED
      BY <2>1, <3>2
  <2>3. RetTyped'
    BY <2>1, <2>2 DEF Typed, RetTyped
  <2> QED
    BY <1>4, <1>6, <2>3, CodesStay DEF Typed
<1>7. CASE /\ uncompiled' = [uncompiled EXCEPT !.tail_start = Ranged(@, pair),
                                              !.tail_end = RangeEnd(pair)]
           /\ ret' = ret
  <2>1. /\ uncompiled.tail_start' = Ranged(uncompiled.tail_start, pair)
        /\ uncompiled.tail_end' = RangeEnd(pair)
        /\ uncompiled.re_options' = uncompiled.re_options
        /\ uncompiled.primary' = uncompiled.primary /\ uncompiled.field' = uncompiled.field
    BY <1>7 DEF Inv, Shape, CodeFields
  <2>2. CodesTyped'
    BY <1>3, <2>1 DEF Typed, CodesTyped
  <2> QED
    BY <1>4, <1>7, <2>2, RetStays DEF Typed
<1> QED
  BY <1>1, <1>5, <1>6, <1>7

LEMMA AddOpTyped ==
  Inv /\ Typed /\ (AddIndex \/ AddFilter \/ AddTuiSelect \/ AddSub \/ AddReplace) => Typed'
<1> SUFFICES ASSUME Inv, Typed, AddIndex \/ AddFilter \/ AddTuiSelect \/ AddSub \/ AddReplace
    PROVE  Typed'
  OBVIOUS
<1>1. PICK names, n, args, wrong :
        /\ n \in Nat /\ (n = 0 \/ optind + n <= Len(argv))
        /\ Reads(names) /\ Consume(n, args, wrong)
  <2>1. CASE AddIndex
    <3>1. PICK n : n = Taken /\ n \in Nat /\ (n = 0 \/ optind + n <= Len(argv))
      BY TakenIs
    <3>2. PICK wrong : Reads({"index"}) /\ Consume(n, OptionalArg, wrong)
      BY <2>1, <3>1 DEF AddIndex
    <3> QED
      BY <3>1, <3>2
  <2>2. CASE AddFilter
    <3>1. Reads({"filter", "rm"}) /\ Consume(0, word.arg, FALSE)
      BY <2>2 DEF AddFilter
    <3> QED
      BY <3>1, Zenon
  <2>3. CASE AddTuiSelect
    <3>1. Reads({"tui-select"}) /\ Consume(0, word.arg, FALSE)
      BY <2>3 DEF AddTuiSelect
    <3> QED
      BY <3>1, Zenon
  <2>4. CASE AddSub
    BY <2>4, SubIs
  <2>5. CASE AddReplace
    <3>1. /\ Reads({"replace"})
          /\ Consume(0, word.arg, EditsBefore(uncompiled.ordered_ops))
      BY <2>5, Zenon DEF AddReplace
    <3> QED
      BY <3>1, Zenon
  <2> QED
    BY <2>1, <2>2, <2>3, <2>4, <2>5
<1>2. uncompiled' = uncompiled \/ \E op : uncompiled' = Added(op)
  BY SubIs DEF AddIndex, AddFilter, AddTuiSelect, AddReplace
<1>3. CodesTyped'
  BY <1>2, CodesStay, CodesAdded DEF Typed
<1>4. RetTyped'
  <2>1. CASE AddTuiSelect
    <3>1. /\ ret.flags' = ret.flags \cup {"tui"}
          /\ ret.sort_type' = ret.sort_type /\ ret.unique_type' = ret.unique_type
          /\ ret.out_start' = ret.out_start /\ ret.out_end' = ret.out_end
          /\ ret.sizes' = ret.sizes /\ ret.in_byte_delimiter' = ret.in_byte_delimiter
          /\ ret.ordered_ops' = ret.ordered_ops
      BY <2>1 DEF AddTuiSelect, Inv, Shape, RetFields
    <3>2. "tui" \in FlagSet
      <4>1. "tui" \in DOMAIN Turns /\ "tui" \in Turns["tui"]
        BY DEF Turns
      <4> QED
        BY <4>1 DEF FlagSet
    <3> QED
      BY <3>1, <3>2 DEF Typed, RetTyped
  <2>2. CASE ~AddTuiSelect
    BY <2>2, RetStays DEF AddIndex, AddFilter, AddSub, AddReplace, Typed
  <2> QED
    BY <2>1, <2>2
<1>5. n \in Nat
  BY <1>1
<1> QED
  BY <1>1, <1>3, <1>4, <1>5, PlaceTyped DEF Typed

(* The texts that are kept are on the command line.                        *)
LEMMA TextOfWord ==
  ASSUME Inv, NEW names, Reads(names), word.name \in TakesArgument
  PROVE  Head(word.arg) \in Texts
<1>1. argv \in CommandLines /\ optind \in Nat \ {0}
  BY DEF Inv, Shape
<1>2. /\ optind \in 1..Len(argv) /\ word.arg \in Seq(Seq(Nat)) /\ Len(word.arg) = 1
      /\ argv \in Seq([name : STRING, arg : Seq(Seq(Nat))])
  BY <1>1, WordIs
<1>3. PICK i : i = optind /\ i \in DOMAIN argv /\ word = argv[i]
  BY <1>2, LenProperties DEF word
<1>4. PICK arg \in Seq(Seq(Nat)) : arg = argv[i].arg /\ Len(arg) = 1
  BY <1>2, <1>3
<1>5. Head(arg) = arg[1] /\ 1 \in DOMAIN arg
  BY ONLY <1>4, LenProperties
<1>6. Head(arg) \in ToSet(arg)
  BY <1>5 DEF ToSet
<1>7. ToSet(arg) \subseteq Texts
  BY <1>1, <1>3, <1>4 DEF Texts
<1> QED
  BY <1>3, <1>4, <1>6, <1>7

LEMMA PositionalTyped == Inv /\ Typed /\ Positional => Typed'
<1> SUFFICES ASSUME Inv, Typed, Positional PROVE Typed'
  OBVIOUS
<1>1. PICK wrong, text :
        /\ Reads({"positional", "null"}) /\ Consume(0, word.arg, wrong)
        /\ text = (IF word.name = "null" THEN <<0>> ELSE Head(word.arg))
        /\ uncompiled' = [uncompiled EXCEPT !.primary = {text}] /\ ret' = ret
  BY DEF Positional
<1>2. text \in Texts
  <2>1. CASE word.name = "null"
    BY <1>1, <2>1 DEF Texts
  <2>2. CASE word.name # "null"
    <3>1. word.name \in TakesArgument
      BY <1>1, <2>2 DEF Reads, TakesArgument
    <3> QED
      BY <1>1, <2>2, <3>1, TextOfWord
  <2> QED
    BY <2>1, <2>2
<1>3. /\ uncompiled.tail_start' = uncompiled.tail_start /\ uncompiled.tail_end' = uncompiled.tail_end
      /\ uncompiled.re_options' = uncompiled.re_options
      /\ uncompiled.primary' = {text} /\ uncompiled.field' = uncompiled.field
  BY <1>1 DEF Inv, Shape, CodeFields
<1>4. CodesTyped'
  BY <1>2, <1>3 DEF Typed, CodesTyped
<1> QED
  BY <1>1, <1>4, PlaceTyped, RetStays DEF Typed

LEMMA OthersTyped == Inv /\ Typed /\ (SetDelimiter \/ SetField \/ WrongOption \/ SetPrompt \/ OtherOption) => Typed'
<1> SUFFICES ASSUME Inv, Typed, SetDelimiter \/ SetField \/ WrongOption \/ SetPrompt \/ OtherOption PROVE Typed'
  OBVIOUS
<1>1. PICK names, wrong : Reads(names) /\ Consume(0, word.arg, wrong)
  BY DEF SetDelimiter, SetField, WrongOption, SetPrompt, OtherOption
<1>2. /\ ret.flags' = ret.flags /\ ret.sort_type' = ret.sort_type
      /\ ret.unique_type' = ret.unique_type
      /\ ret.out_start' = ret.out_start /\ ret.out_end' = ret.out_end
      /\ ret.sizes' = ret.sizes /\ ret.in_byte_delimiter' = ret.in_byte_delimiter
      /\ ret.ordered_ops' = ret.ordered_ops
  BY DEF SetDelimiter, SetField, WrongOption, SetPrompt, OtherOption, Inv, Shape, RetFields
<1>3. /\ uncompiled.tail_start' = uncompiled.tail_start /\ uncompiled.tail_end' = uncompiled.tail_end
      /\ uncompiled.re_options' = uncompiled.re_options
      /\ uncompiled.primary' = uncompiled.primary
      /\ uncompiled.field' = uncompiled.field \/ \E text : uncompiled.field' = {text}
  BY DEF SetDelimiter, SetField, WrongOption, SetPrompt, OtherOption, Inv, Shape, CodeFields
<1>4. RetTyped'
  BY <1>2 DEF Typed, RetTyped
<1>5. CodesTyped'
  BY <1>3 DEF Typed, CodesTyped
<1> QED
  BY <1>1, <1>4, <1>5, PlaceTyped DEF Typed

LEMMA EndTyped == Inv /\ Typed /\ EndOfOptions => Typed'
<1> SUFFICES ASSUME Inv, Typed, EndOfOptions PROVE Typed'
  OBVIOUS
<1>1. /\ ret.flags' = ret.flags /\ ret.sort_type' = ret.sort_type
      /\ ret.unique_type' = ret.unique_type
      /\ ret.out_start' = ret.out_start /\ ret.out_end' = ret.out_end
      /\ ret.sizes' = ret.sizes /\ ret.in_byte_delimiter' = ret.in_byte_delimiter
      /\ ret.ordered_ops' = ret.ordered_ops
  BY DEF EndOfOptions, Inv, Shape, RetFields
<1>2. /\ uncompiled.tail_start' = uncompiled.tail_start /\ uncompiled.tail_end' = uncompiled.tail_end
      /\ uncompiled.re_options' = uncompiled.re_options
      /\ uncompiled.primary' = uncompiled.primary \/ uncompiled.primary' = {<<NewLine>>}
      /\ uncompiled.field' = uncompiled.field
  BY DEF EndOfOptions, Inv, Shape, CodeFields
<1>3. <<NewLine>> \in Texts
  BY DEF Texts
<1>4. arg_has_errors' \in BOOLEAN
  BY Zenon DEF EndOfOptions
<1>5. argv' = argv /\ optind' = optind
  BY DEF EndOfOptions
<1>6. RetTyped'
  BY <1>1 DEF Typed, RetTyped
<1>7. CodesTyped'
  BY <1>2, <1>3 DEF Typed, CodesTyped
<1> QED
  BY <1>4, <1>5, <1>6, <1>7 DEF Typed

LEMMA CompileAllTyped == Inv /\ Typed /\ CompileAll => Typed'
<1> SUFFICES ASSUME Inv, Typed, CompileAll PROVE Typed'
  OBVIOUS
<1>1. UNCHANGED <<argv, optind, uncompiled, arg_has_errors>>
  BY DEF CompileAll
<1>2. RetTyped'
  <2>1. CASE AllCompile
    <3>1. /\ ret.flags' = ret.flags /\ ret.sort_type' = ret.sort_type
          /\ ret.unique_type' = ret.unique_type
          /\ ret.out_start' = ret.out_start /\ ret.out_end' = ret.out_end
          /\ ret.sizes' = ret.sizes
          /\ ret.in_byte_delimiter' = (\E p \in uncompiled.primary : InByteDelimiter(p))
          /\ ret.ordered_ops' = uncompiled.ordered_ops
      BY <2>1 DEF CompileAll, Inv, Shape, RetFields
    <3>2. ret.in_byte_delimiter' \in BOOLEAN
      BY <3>1, Zenon
    <3>3. \A i \in DOMAIN uncompiled.ordered_ops : uncompiled.ordered_ops[i].kind \in Ops!OpKinds
      BY DEF Inv, OpsLegal
    <3> QED
      BY <3>1, <3>2, <3>3 DEF Typed, RetTyped
  <2>2. CASE ~AllCompile
    BY <2>2, RetStays DEF CompileAll, Typed
  <2> QED
    BY <2>1, <2>2
<1> QED
  BY <1>1, <1>2, CodesStay DEF Typed

(* The lookbehind in bytes is a product that fits, or an error.            *)
LEMMA InBytesIs ==
  ASSUME NEW n \in 0..UINT32_MAX
  PROVE  /\ InBytes(n) = IF HasPattern /\ IsUtf
                         THEN IF n * MAX_BYTES_PER_CHARACTER <= UINT32_MAX
                              THEN n * MAX_BYTES_PER_CHARACTER ELSE NoNumber
                         ELSE n
         /\ InBytes(n) \in 0..UINT32_MAX \cup {NoNumber}
<1>1. UINT32_MAX \in Nat /\ MAX_BYTES_PER_CHARACTER \in 0..UINT32_MAX
  BY LimitsAssumption
<1>2. MulOverflow(n, MAX_BYTES_PER_CHARACTER, UINT32_MAX) =
        IF n * MAX_BYTES_PER_CHARACTER <= UINT32_MAX THEN n * MAX_BYTES_PER_CHARACTER ELSE NoNumber
  BY <1>1, MulOverflowExact
<1>3. n * MAX_BYTES_PER_CHARACTER \in Nat
  BY <1>1
<1> QED
  BY <1>1, <1>2, <1>3 DEF InBytes

LEMMA LookbehindTyped ==
  ASSUME Inv, Typed, phase \in OptionsRead
  PROVE  Lookbehind \in 0..UINT32_MAX
<1>1. Pattern \in Texts /\ uncompiled.re_options \in SUBSET ReOptions
  BY DEF Inv, PatternKept, Typed, CodesTyped, Pattern
<1>2. MaxLookbehind(Pattern, uncompiled.re_options) \in 0..UINT32_MAX
  BY <1>1, LookbehindAssumption
<1>3. 0 \in 0..UINT32_MAX
  BY LimitsAssumption
<1> QED
  BY <1>2, <1>3 DEF Lookbehind

(* What is filled in.                                                      *)
FilledLookbehind ==
  InBytes(IF ret.sizes.max_lookbehind = UINT32_MAX THEN Lookbehind ELSE ret.sizes.max_lookbehind)

FilledFrag ==
  IF ret.sizes.buf_size_frag = SIZE_MAX THEN MulOverflow(ret.sizes.buf_size, 8, SIZE_MAX)
  ELSE ret.sizes.buf_size_frag

Filled ==
  [buf_size |-> ret.sizes.buf_size, buf_size_frag |-> FilledFrag,
   max_lookbehind |-> FilledLookbehind,
   bytes_to_read |-> IF ret.sizes.bytes_to_read = SIZE_MAX THEN ret.sizes.buf_size
                     ELSE ret.sizes.bytes_to_read]

LEMMA FillIs ==
  ASSUME FillDefaults
  PROVE  /\ phase = "defaults"
         /\ UNCHANGED <<argv, optind, uncompiled, arg_has_errors, seen>>
         /\ \/ phase' = "failed" /\ ret' = ret
            \/ /\ FilledLookbehind # NoNumber /\ FilledFrag # NoNumber
               /\ phase' = "checking" /\ ret' = [ret EXCEPT !.sizes = Filled]
<1>1. CASE FilledLookbehind = NoNumber \/ FilledFrag = NoNumber
  BY <1>1, Zenon DEF FillDefaults, FilledLookbehind, FilledFrag
<1>2. CASE ~(FilledLookbehind = NoNumber \/ FilledFrag = NoNumber)
  BY <1>2, Zenon DEF FillDefaults, FilledLookbehind, FilledFrag, Filled
<1> QED
  BY <1>1, <1>2

LEMMA FillDefaultsTyped == Inv /\ Typed /\ FillDefaults => Typed'
<1> SUFFICES ASSUME Inv, Typed, FillDefaults PROVE Typed'
  OBVIOUS
<1>1. /\ phase = "defaults" /\ UNCHANGED <<argv, optind, uncompiled, arg_has_errors, seen>>
      /\ \/ ret' = ret
         \/ /\ FilledLookbehind # NoNumber /\ FilledFrag # NoNumber
            /\ ret' = [ret EXCEPT !.sizes = Filled]
  BY FillIs
<1>2. CASE ret' = ret
  BY <1>1, <1>2, RetStays, CodesStay DEF Typed
<1>3. CASE /\ FilledLookbehind # NoNumber /\ FilledFrag # NoNumber
           /\ ret' = [ret EXCEPT !.sizes = Filled]
  <2>1. /\ ret.sizes.buf_size \in 0..SIZE_MAX /\ ret.sizes.buf_size_frag \in 0..SIZE_MAX
        /\ ret.sizes.max_lookbehind \in 0..UINT32_MAX /\ ret.sizes.bytes_to_read \in 0..SIZE_MAX
    BY DEF Typed, RetTyped, SizesType
  <2>2. FilledLookbehind \in 0..UINT32_MAX
    <3>1. Lookbehind \in 0..UINT32_MAX
      BY <1>1, LookbehindTyped DEF OptionsRead, Compiled
    <3>2. PICK n : n = IF ret.sizes.max_lookbehind = UINT32_MAX THEN Lookbehind
                       ELSE ret.sizes.max_lookbehind
      OBVIOUS
    <3>3. n \in 0..UINT32_MAX /\ FilledLookbehind = InBytes(n)
      BY <2>1, <3>1, <3>2 DEF FilledLookbehind
    <3> QED
      BY <1>3, <3>3, InBytesIs
  <2>3. FilledFrag \in 0..SIZE_MAX
    <3>1. SIZE_MAX \in Nat /\ 8 \in 0..SIZE_MAX
      BY LimitsAssumption
    <3>2. MulOverflow(ret.sizes.buf_size, 8, SIZE_MAX) =
            IF ret.sizes.buf_size * 8 <= SIZE_MAX THEN ret.sizes.buf_size * 8 ELSE NoNumber
      BY <2>1, <3>1, MulOverflowExact
    <3> QED
      BY <1>3, <2>1, <3>1, <3>2 DEF FilledFrag
  <2>4. Filled \in SizesType
    BY <2>1, <2>2, <2>3 DEF Filled, SizesType
  <2>5. /\ ret.flags' = ret.flags /\ ret.sort_type' = ret.sort_type
        /\ ret.unique_type' = ret.unique_type
        /\ ret.out_start' = ret.out_start /\ ret.out_end' = ret.out_end
        /\ ret.sizes' = Filled /\ ret.in_byte_delimiter' = ret.in_byte_delimiter
        /\ ret.ordered_ops' = ret.ordered_ops
    BY <1>3 DEF Inv, Shape, RetFields
  <2>6. RetTyped'
    BY <2>4, <2>5 DEF Typed, RetTyped
  <2> QED
    BY <1>1, <2>6, CodesStay DEF Typed
<1> QED
  BY <1>1, <1>2, <1>3

LEMMA NextTyped == Inv /\ Typed /\ [Next]_vars => Typed'
<1>1. Inv /\ Typed /\ (Show \/ Check \/ UNCHANGED vars) => Typed'
  <2> SUFFICES ASSUME Typed, Show \/ Check \/ UNCHANGED vars PROVE Typed'
    OBVIOUS
  <2>1. UNCHANGED <<argv, optind, ret, uncompiled, arg_has_errors>>
    BY DEF Show, Check, vars
  <2> QED
    BY <2>1, RetStays, CodesStay DEF Typed
<1> QED
  BY <1>1, SetFlagsTyped, SetReOptionsTyped, SetSizeTyped, SetRangeTyped, AddOpTyped,
     PositionalTyped, OthersTyped, EndTyped, CompileAllTyped, FillDefaultsTyped
     DEF Next, Terminated

(* The options have their types, and every number its width, whatever is   *)
(* on the command line and whatever PCRE2 says of the patterns.            *)
THEOREM TypeCorrect == Spec => []TypeOK
<1>1. Spec => [](Inv /\ Typed)
  BY InitInv, NextInv, InitTyped, NextTyped, PTL DEF Spec
<1> QED
  BY <1>1, TypedIs, PTL
-------------------------------------------------------------------------------
(* What was written, and what is kept of it.                               *)
LEMMA LastOfMore ==
  ASSUME IsSequence(seen), NEW w, seen' = Append(seen, w), NEW names, NEW default
  PROVE  LastOf(names, default)' =
           IF w.name \in names THEN Decimal(Head(w.arg)) ELSE LastOf(names, default)
<1>1. PICK n \in Nat : n = Len(seen)
  BY PlacesMore
<1>2. /\ DOMAIN seen = 1..n /\ seen'[n + 1] = w /\ \A i \in 1..n : seen'[i] = seen[i]
      /\ Places(names)' = Places(names) \cup (IF w.name \in names THEN {n + 1} ELSE {})
  BY <1>1, PlacesMore
<1>3. Places(names) \subseteq 1..n
  BY <1>2 DEF Places
<1>4. /\ Places(names) # {} => Max(Places(names)) \in Places(names)
      /\ Max(Places(names) \cup {n + 1}) = n + 1
  BY <1>3, LastPlace
<1>5. CASE w.name \in names
  <2>1. Places(names)' # {} /\ Max(Places(names)') = n + 1
    BY <1>2, <1>4, <1>5
  <2>2. LastOf(names, default)' = Decimal(Head(seen'[n + 1].arg))
    BY <2>1 DEF LastOf, Written
  <2> QED
    BY <1>2, <1>5, <2>2
<1>6. CASE w.name \notin names
  <2>1. Places(names)' = Places(names)
    BY <1>2, <1>6
  <2>2. CASE Places(names) = {}
    BY <1>6, <2>1, <2>2 DEF LastOf
  <2>3. CASE Places(names) # {}
    <3>1. PICK i \in 1..n : i = Max(Places(names))
      BY <1>3, <1>4, <2>3
    <3>2. LastOf(names, default)' = Decimal(Head(seen'[i].arg))
      BY <2>1, <2>3, <3>1 DEF LastOf, Written
    <3>3. LastOf(names, default) = Decimal(Head(seen[i].arg))
      BY <2>3, <3>1 DEF LastOf, Written
    <3> QED
      BY <1>2, <1>6, <3>1, <3>2, <3>3
  <2> QED
    BY <2>2, <2>3
<1> QED
  BY <1>5, <1>6

(* The start of the last range that had one, and the end of the last.      *)
IsRanged(arg) == arg # <<>> /\ CommaAt(Head(arg)) # 0

LEMMA RangeMore ==
  ASSUME IsSequence(seen), NEW w, seen' = Append(seen, w), NEW name
  PROVE  /\ StartWritten(name)' = IF w.name = name /\ IsRanged(w.arg) THEN Decimal(Head(w.arg))
                                  ELSE StartWritten(name)
         /\ EndWritten(name)' = IF w.name = name THEN EndIn(w.arg) ELSE EndWritten(name)
<1> DEFINE Named == Places({name})
           Starts == WithRange(name)
<1>1. PICK n \in Nat : n = Len(seen)
  BY PlacesMore
<1>2. /\ DOMAIN seen = 1..n /\ seen'[n + 1] = w /\ \A i \in 1..n : seen'[i] = seen[i]
      /\ Named' = Named \cup (IF w.name \in {name} THEN {n + 1} ELSE {})
  BY <1>1, PlacesMore
<1>3. Named \subseteq 1..n /\ Starts \subseteq 1..n
  BY <1>2 DEF Places, WithRange
<1>4. /\ Named # {} => Max(Named) \in 1..n
      /\ Starts # {} => Max(Starts) \in 1..n
      /\ Max(Named \cup {n + 1}) = n + 1 /\ Max(Starts \cup {n + 1}) = n + 1
  <2>1. Named # {} => Max(Named) \in Named
    BY <1>3, LastPlace
  <2>2. Starts # {} => Max(Starts) \in Starts
    BY <1>3, LastPlace
  <2>3. Max(Named \cup {n + 1}) = n + 1 /\ Max(Starts \cup {n + 1}) = n + 1
    BY <1>3, LastPlace
  <2> QED
    BY <1>3, <2>1, <2>2, <2>3
<1>5. Starts = {i \in Named : IsRanged(seen[i].arg)}
  BY DEF WithRange, Written, IsRanged
<1>6. Starts' = {i \in Named' : IsRanged(seen'[i].arg)}
  BY DEF WithRange, Written, IsRanged
<1>7. \A i \in Named : IsRanged(seen'[i].arg) <=> IsRanged(seen[i].arg)
  BY <1>2, <1>3
<1>8. Starts' = Starts \cup (IF w.name = name /\ IsRanged(w.arg) THEN {n + 1} ELSE {})
  <2>1. CASE w.name = name
    BY <1>2, <1>5, <1>6, <1>7, <2>1
  <2>2. CASE w.name # name
    BY <1>2, <1>5, <1>6, <1>7, <2>2
  <2> QED
    BY <2>1, <2>2
<1> HIDE DEF Named, Starts
<1>9. StartWritten(name)' = IF w.name = name /\ IsRanged(w.arg) THEN Decimal(Head(w.arg))
                            ELSE StartWritten(name)
  <2>0. /\ StartWritten(name) = IF Starts = {} THEN NoLimit ELSE Decimal(Head(seen[Max(Starts)].arg))
        /\ StartWritten(name)' =
             IF Starts' = {} THEN NoLimit ELSE Decimal(Head(seen'[Max(Starts')].arg))
    BY DEF StartWritten, Written, Starts
  <2>1. CASE w.name = name /\ IsRanged(w.arg)
    <3>1. Starts' # {} /\ Max(Starts') = n + 1
      BY <1>4, <1>8, <2>1
    <3> QED
      BY <1>2, <2>0, <2>1, <3>1
  <2>2. CASE ~(w.name = name /\ IsRanged(w.arg))
    <3>1. Starts' = Starts
      BY <1>8, <2>2
    <3>2. CASE Starts = {}
      BY <2>0, <2>2, <3>1, <3>2
    <3>3. CASE Starts # {}
      <4>1. PICK i \in 1..n : i = Max(Starts)
        BY <1>4, <3>3
      <4> QED
        BY <1>2, <2>0, <2>2, <3>1, <3>3, <4>1
    <3> QED
      BY <3>2, <3>3
  <2> QED
    BY <2>1, <2>2
<1>10. EndWritten(name)' = IF w.name = name THEN EndIn(w.arg) ELSE EndWritten(name)
  <2>0. /\ EndWritten(name) = IF Named = {} THEN NoLimit ELSE EndIn(seen[Max(Named)].arg)
        /\ EndWritten(name)' = IF Named' = {} THEN NoLimit ELSE EndIn(seen'[Max(Named')].arg)
    BY DEF EndWritten, Named
  <2>1. CASE w.name = name
    <3>1. Named' # {} /\ Max(Named') = n + 1
      BY <1>2, <1>4, <2>1
    <3> QED
      BY <1>2, <2>0, <2>1, <3>1
  <2>2. CASE w.name # name
    <3>1. Named' = Named
      BY <1>2, <2>2
    <3>2. CASE Named = {}
      BY <2>0, <2>2, <3>1, <3>2
    <3>3. CASE Named # {}
      <4>1. PICK i \in 1..n : i = Max(Named)
        BY <1>4, <3>3
      <4> QED
        BY <1>2, <2>0, <2>2, <3>1, <3>3, <4>1
    <3> QED
      BY <3>2, <3>3
  <2> QED
    BY <2>1, <2>2
<1> QED
  BY <1>9, <1>10

(* The invariant: as long as nothing is wrong a size is what was given     *)
(* last, or stands for none; the default is filled in after the loop.      *)
SizeNotGiven(name) ==
  CASE name = "buf-size" -> BUF_SIZE_DEFAULT [] name = "max-lookbehind" -> UINT32_MAX
    [] OTHER -> SIZE_MAX

SizesSeen ==
  phase \in {"parsing", "compiling", "defaults"} /\ ~arg_has_errors =>
    \A name \in DOMAIN SizeOf :
      /\ ret.sizes[SizeOf[name]] = LastOf({name}, SizeNotGiven(name))
      /\ Places({name}) # {} => ret.sizes[SizeOf[name]] \in LeastSize(name)..GreatestSize(name)

RangesSeen ==
  ~arg_has_errors =>
    /\ ret.out_start = StartWritten("out") /\ ret.out_end = EndWritten("out")
    /\ uncompiled.tail_start = StartWritten("tail") /\ uncompiled.tail_end = EndWritten("tail")

RangesStay ==
  /\ ret.out_start' = ret.out_start /\ ret.out_end' = ret.out_end
  /\ uncompiled.tail_start' = uncompiled.tail_start /\ uncompiled.tail_end' = uncompiled.tail_end

UtfSeen == uncompiled.re_options \cap UtfOptions # {} <=> Places(UtfNames) # {}

SizesWritten ==
  LET buf_size == LastOf({"buf-size"}, BUF_SIZE_DEFAULT)
  IN ret.sizes =
       [buf_size |-> buf_size,
        buf_size_frag |-> LastOf({"buf-size-frag"}, 8 * buf_size),
        bytes_to_read |-> LastOf({"read"}, buf_size),
        max_lookbehind |-> BytesPerCharacter * LastOf({"max-lookbehind"}, Lookbehind)]

SizesFilled == phase \in {"checking"} \cup Accepted => SizesWritten

Recorded == SizesSeen /\ RangesSeen /\ UtfSeen /\ SizesFilled

LEMMA RecordedIs == Inv /\ Recorded => NumbersAsWritten
<1> SUFFICES ASSUME Inv, Recorded, phase \in Accepted PROVE NumbersAsWritten
  BY DEF NumbersAsWritten
<1>1. ~arg_has_errors
  BY DEF Inv, Shape, OptionsRead, Compiled
<1>2. SizesWritten
  BY DEF Recorded, SizesFilled
<1>3. /\ ret.out_start = StartWritten("out") /\ ret.out_end = EndWritten("out")
      /\ uncompiled.tail_start = StartWritten("tail") /\ uncompiled.tail_end = EndWritten("tail")
  BY <1>1 DEF Recorded, RangesSeen
<1> QED
  BY <1>2, <1>3 DEF NumbersAsWritten, SizesWritten

LEMMA NothingSeen ==
  ASSUME Init
  PROVE  /\ \A names : Places(names) = {}
         /\ \A name : WithRange(name) = {}
<1>1. DOMAIN seen = {}
  BY DEF Init
<1>2. \A names : Places(names) = {}
  BY <1>1 DEF Places
<1> QED
  BY <1>2 DEF WithRange

LEMMA InitRecorded == Init => Recorded
<1> SUFFICES ASSUME Init PROVE Recorded
  OBVIOUS
<1>1. SizesSeen
  <2> SUFFICES ASSUME NEW name \in DOMAIN SizeOf
               PROVE  /\ ret.sizes[SizeOf[name]] = LastOf({name}, SizeNotGiven(name))
                      /\ Places({name}) = {}
    BY DEF SizesSeen
  <2>1. name \in {"buf-size", "buf-size-frag", "max-lookbehind", "read"}
    BY DEF SizeOf
  <2>2. ret.sizes[SizeOf[name]] = SizeNotGiven(name)
    BY <2>1 DEF Init, SizeOf, SizeNotGiven
  <2> QED
    BY <2>2, NothingSeen DEF LastOf
<1>2. RangesSeen
  BY NothingSeen DEF Init, RangesSeen, StartWritten, EndWritten
<1>3. UtfSeen
  BY NothingSeen DEF Init, UtfSeen, UtfOptions
<1>4. SizesFilled
  BY DEF Init, SizesFilled, Accepted
<1> QED
  BY <1>1, <1>2, <1>3, <1>4 DEF Recorded

(* One more option is read, about which nothing of this is kept.           *)
LEMMA SizesSame ==
  ASSUME Recorded, IsSequence(seen), NEW w, seen' = Append(seen, w),
         phase = "parsing", ~arg_has_errors' => ~arg_has_errors,
         w.name \notin DOMAIN SizeOf, ret.sizes' = ret.sizes
  PROVE  SizesSeen'
<1> SUFFICES ASSUME ~arg_has_errors', NEW name \in DOMAIN SizeOf
             PROVE  /\ ret.sizes'[SizeOf[name]] = LastOf({name}, SizeNotGiven(name))'
                    /\ Places({name})' # {} =>
                         ret.sizes'[SizeOf[name]] \in LeastSize(name)..GreatestSize(name)
  BY DEF SizesSeen
<1>1. w.name \notin {name}
  OBVIOUS
<1>2. LastOf({name}, SizeNotGiven(name))' = LastOf({name}, SizeNotGiven(name))
  BY <1>1, LastOfMore
<1>3. Places({name})' = Places({name})
  <2>1. \A ns : Places(ns)' = Places(ns) \cup (IF w.name \in ns THEN {Len(seen) + 1} ELSE {})
    BY PlacesMore
  <2>2. PICK ns : ns = {name}
    OBVIOUS
  <2>3. Places(ns)' = Places(ns)
    BY <1>1, <2>1, <2>2
  <2> QED
    BY <2>2, <2>3
<1> QED
  BY <1>2, <1>3 DEF Recorded, SizesSeen

LEMMA RangesSame ==
  ASSUME Recorded, IsSequence(seen), NEW w, seen' = Append(seen, w),
         ~arg_has_errors' => ~arg_has_errors, w.name \notin {"out", "tail"}, RangesStay
  PROVE  RangesSeen'
<1>1. /\ StartWritten("out")' = StartWritten("out") /\ EndWritten("out")' = EndWritten("out")
      /\ StartWritten("tail")' = StartWritten("tail") /\ EndWritten("tail")' = EndWritten("tail")
  BY RangeMore
<1> QED
  BY <1>1 DEF Recorded, RangesSeen, RangesStay

LEMMA UtfMore ==
  ASSUME Recorded, IsSequence(seen), NEW w, seen' = Append(seen, w),
         (uncompiled.re_options \cap UtfOptions # {})' <=>
           uncompiled.re_options \cap UtfOptions # {} \/ w.name \in UtfNames
  PROVE  UtfSeen'
<1>1. Places(UtfNames)' # {} <=> Places(UtfNames) # {} \/ w.name \in UtfNames
  BY PlacesMore
<1> QED
  BY <1>1 DEF Recorded, UtfSeen

LEMMA SeenIs ==
  ASSUME Inv, Counted, NEW names, Reads(names), NEW n \in Nat, NEW args, NEW wrong,
         Consume(n, args, wrong)
  PROVE  /\ IsSequence(seen) /\ phase = "parsing" /\ phase' = "parsing"
         /\ ~arg_has_errors' => ~arg_has_errors /\ ~wrong
         /\ \E w : seen' = Append(seen, w) /\ w.name = word.name /\ w.arg = args
<1>1. PICK w : w = [name |-> word.name, arg |-> args]
  OBVIOUS
<1>2. seen' = Append(seen, w) /\ w.name = word.name /\ w.arg = args
  BY <1>1 DEF Consume
<1> QED
  BY <1>2, Consumed DEF Counted

LEMMA RecordMore ==
  ASSUME Inv, Counted, Recorded, NEW names, Reads(names), NEW n \in Nat, NEW args, NEW wrong,
         Consume(n, args, wrong),
         names \cap (DOMAIN SizeOf \cup {"out", "tail"} \cup UtfNames) = {},
         ret.sizes' = ret.sizes, RangesStay,
         uncompiled.re_options' = uncompiled.re_options
  PROVE  Recorded'
<1>1. PICK w : seen' = Append(seen, w) /\ w.name = word.name
  BY SeenIs
<1>2. /\ IsSequence(seen) /\ phase = "parsing" /\ phase' = "parsing"
      /\ ~arg_has_errors' => ~arg_has_errors
  BY SeenIs
<1>3. w.name \notin DOMAIN SizeOf /\ w.name \notin {"out", "tail"} /\ w.name \notin UtfNames
  BY <1>1 DEF Reads
<1>4. SizesSeen'
  BY <1>1, <1>2, <1>3, SizesSame
<1>5. RangesSeen'
  BY <1>1, <1>2, <1>3, RangesSame
<1>6. UtfSeen'
  BY <1>1, <1>2, <1>3, UtfMore
<1>7. SizesFilled'
  BY <1>2 DEF SizesFilled, Accepted
<1> QED
  BY <1>4, <1>5, <1>6, <1>7 DEF Recorded

LEMMA RecordSetFlags == Inv /\ Counted /\ Recorded /\ SetFlags => Recorded'
<1> SUFFICES ASSUME Inv, Counted, Recorded, SetFlags PROVE Recorded'
  OBVIOUS
<1>1. Reads(DOMAIN Turns) /\ Consume(0, <<>>, FALSE) /\ uncompiled' = uncompiled
  BY DEF SetFlags
<1>2. DOMAIN Turns \cap (DOMAIN SizeOf \cup {"out", "tail"} \cup UtfNames) = {}
  <2>1. DOMAIN Turns \cap (Particular \cup UtfNames) = {}
    BY TurnsMatch
  <2>2. DOMAIN SizeOf \cup {"out", "tail"} \subseteq Particular
    BY DEF SizeOf, Particular
  <2> QED
    BY <2>1, <2>2
<1>3. ret.sizes' = ret.sizes /\ RangesStay
  BY <1>1 DEF SetFlags, Inv, Shape, RetFields, RangesStay
<1> QED
  BY <1>1, <1>2, <1>3, RecordMore

LEMMA RecordOthers ==
  /\ Inv /\ Typed /\ Counted /\ Recorded
  /\ \/ AddIndex \/ AddFilter \/ AddTuiSelect \/ AddSub \/ AddReplace
     \/ Positional \/ SetDelimiter \/ SetField \/ WrongOption \/ SetPrompt \/ OtherOption
  => Recorded'
<1> SUFFICES ASSUME Inv, Typed, Counted, Recorded,
                    \/ AddIndex \/ AddFilter \/ AddTuiSelect \/ AddSub \/ AddReplace
                    \/ Positional \/ SetDelimiter \/ SetField \/ WrongOption \/ SetPrompt \/ OtherOption
             PROVE  Recorded'
  OBVIOUS
<1> DEFINE Names ==
  {"index", "filter", "rm", "tui-select", "sub", "replace", "positional", "null",
   "output-delimiter", "print0", "batch-delimiter", "batch-print0", "field", "prompt", "locale",
   "load-factor", "?", ":"}
<1>1. Names \cap (DOMAIN SizeOf \cup {"out", "tail"} \cup UtfNames) = {}
  BY DEF SizeOf, UtfNames
<1>2. ret.sizes' = ret.sizes /\ ret.out_start' = ret.out_start /\ ret.out_end' = ret.out_end
  BY DEF AddIndex, AddFilter, AddTuiSelect, AddSub, AddReplace, Positional, SetDelimiter, SetField,
         WrongOption, SetPrompt, OtherOption, Inv, Shape, RetFields
<1>3. /\ uncompiled.re_options' = uncompiled.re_options
      /\ uncompiled.tail_start' = uncompiled.tail_start /\ uncompiled.tail_end' = uncompiled.tail_end
  <2>1. CASE AddIndex \/ AddFilter \/ AddTuiSelect \/ AddSub \/ AddReplace
    <3>1. uncompiled' = uncompiled \/ \E op : uncompiled' = Added(op)
      BY <2>1, SubIs DEF AddIndex, AddFilter, AddTuiSelect, AddReplace
    <3> QED
      BY <3>1 DEF Added, Inv, Shape, CodeFields
  <2>2. CASE Positional \/ SetDelimiter \/ SetField \/ WrongOption \/ SetPrompt \/ OtherOption
    BY <2>2 DEF Positional, SetDelimiter, SetField, WrongOption, SetPrompt, OtherOption, Inv, Shape, CodeFields
  <2> QED
    BY <2>1, <2>2
<1>4. PICK n, args, wrong : n \in Nat /\ Reads(Names) /\ Consume(n, args, wrong)
  <2>1. CASE AddIndex
    <3>1. PICK wrong : Reads({"index"}) /\ Consume(Taken, OptionalArg, wrong)
      BY <2>1 DEF AddIndex
    <3>2. Taken \in Nat
      BY DEF Taken
    <3> QED
      BY <3>1, <3>2 DEF Reads
  <2>2. CASE AddFilter
    <3>1. Reads({"filter", "rm"}) /\ Consume(0, word.arg, FALSE)
      BY <2>2 DEF AddFilter
    <3> QED
      BY <3>1 DEF Reads
  <2>3. CASE AddTuiSelect
    <3>1. Reads({"tui-select"}) /\ Consume(0, word.arg, FALSE)
      BY <2>3 DEF AddTuiSelect
    <3> QED
      BY <3>1 DEF Reads
  <2>4. CASE AddSub
    <3>1. PICK n, args, wrong : n \in Nat /\ Reads({"sub"}) /\ Consume(n, args, wrong)
      BY <2>4, SubIs
    <3> QED
      BY <3>1 DEF Reads
  <2>5. CASE AddReplace
    <3>1. PICK wrong : Reads({"replace"}) /\ Consume(0, word.arg, wrong)
      BY <2>5, Zenon DEF AddReplace
    <3> QED
      BY <3>1 DEF Reads
  <2>6. CASE Positional
    <3>1. PICK wrong : Reads({"positional", "null"}) /\ Consume(0, word.arg, wrong)
      BY <2>6, Zenon DEF Positional
    <3> QED
      BY <3>1 DEF Reads
  <2>7. CASE SetDelimiter
    <3>1. /\ Reads({"output-delimiter", "print0", "batch-delimiter", "batch-print0"})
          /\ Consume(0, word.arg, FALSE)
      BY <2>7, Zenon DEF SetDelimiter
    <3> QED
      BY <3>1 DEF Reads
  <2>8. CASE SetField
    <3>1. Reads({"field"}) /\ Consume(0, word.arg, FALSE)
      BY <2>8 DEF SetField
    <3> QED
      BY <3>1 DEF Reads
  <2>9. CASE OtherOption
    <3>1. PICK wrong : Reads({"locale", "load-factor"}) /\ Consume(0, word.arg, wrong)
      BY <2>9, Zenon DEF OtherOption
    <3> QED
      BY <3>1 DEF Reads
  <2>10. CASE WrongOption
    <3>1. Reads({"?", ":"}) /\ Consume(0, word.arg, TRUE)
      BY <2>10 DEF WrongOption
    <3> QED
      BY <3>1 DEF Reads
  <2>11. CASE SetPrompt
    <3>1. Reads({"prompt"}) /\ Consume(0, word.arg, FALSE)
      BY <2>11 DEF SetPrompt
    <3> QED
      BY <3>1 DEF Reads
  <2> QED
    BY <2>1, <2>2, <2>3, <2>4, <2>5, <2>6, <2>7, <2>8, <2>9, <2>10, <2>11
<1> HIDE DEF Names
<1>5. RangesStay
  BY <1>2, <1>3 DEF RangesStay
<1> QED
  BY <1>1, <1>2, <1>3, <1>4, <1>5, RecordMore

LEMMA RecordSetReOptions == Inv /\ Counted /\ Recorded /\ SetReOptions => Recorded'
<1> SUFFICES ASSUME Inv, Counted, Recorded, SetReOptions PROVE Recorded'
  OBVIOUS
<1>1. /\ Reads(DOMAIN AddsRe) /\ Consume(0, <<>>, FALSE) /\ ret' = ret
      /\ word.name \in DOMAIN AddsRe
  BY DEF SetReOptions, Reads
<1>0. PICK n, args, wrong : n \in Nat /\ Consume(n, args, wrong)
  BY <1>1
<1>2. PICK w : seen' = Append(seen, w) /\ w.name = word.name
  BY <1>0, <1>1, SeenIs
<1>3. /\ IsSequence(seen) /\ phase = "parsing" /\ phase' = "parsing"
      /\ ~arg_has_errors' => ~arg_has_errors
  BY <1>0, <1>1, SeenIs
<1>4. w.name \notin DOMAIN SizeOf /\ w.name \notin {"out", "tail"}
  <2>1. word.name \notin Particular
    BY <1>1, ReOptionsAdded
  <2> QED
    BY <1>2, <2>1 DEF SizeOf, Particular
<1>5. (uncompiled.re_options \cap UtfOptions # {})' <=>
        uncompiled.re_options \cap UtfOptions # {} \/ w.name \in UtfNames
  <2>1. uncompiled.re_options' =
          (uncompiled.re_options \ RemovesRe(word.name)) \cup AddsRe[word.name]
    BY DEF SetReOptions, Inv, Shape, CodeFields
  <2>2. /\ AddsRe[word.name] \cap UtfOptions # {} <=> word.name \in UtfNames
        /\ RemovesRe(word.name) \cap UtfOptions = {}
    BY <1>1, ReOptionsAdded
  <2>3. PICK adds, removes : adds = AddsRe[word.name] /\ removes = RemovesRe(word.name)
    OBVIOUS
  <2> QED
    BY <1>2, <2>1, <2>2, <2>3
<1>6. SizesSeen'
  BY <1>1, <1>2, <1>3, <1>4, SizesSame
<1>7. RangesSeen'
  <2>1. RangesStay
    BY <1>1 DEF SetReOptions, Inv, Shape, CodeFields, RangesStay
  <2> QED
    BY <1>2, <1>3, <1>4, <2>1, RangesSame
<1>8. UtfSeen'
  BY <1>2, <1>3, <1>5, UtfMore
<1>9. SizesFilled'
  BY <1>3 DEF SizesFilled, Accepted
<1> QED
  BY <1>6, <1>7, <1>8, <1>9 DEF Recorded

(* A range keeps the start of an earlier one when it has none.             *)
LEMMA RecordSetRange == Inv /\ Counted /\ Recorded /\ SetRange => Recorded'
<1> SUFFICES ASSUME Inv, Counted, Recorded, SetRange PROVE Recorded'
  OBVIOUS
<1> DEFINE pair == IF OptionalArg = <<>> THEN [first |-> 10, second |-> NoLimit, failed |-> FALSE]
                   ELSE ParseNumberPair(Head(OptionalArg), SIZE_MAX)
<1>1. /\ Reads({"head", "out", "tail"}) /\ Consume(Taken, OptionalArg, pair.failed)
      /\ \/ /\ word.name = "head" /\ ret' = ret
            /\ uncompiled' = Added(Ops!InLimitOp(Ranged(NoLimit, pair), RangeEnd(pair)))
         \/ /\ word.name = "out" /\ uncompiled' = uncompiled
            /\ ret' = [ret EXCEPT !.out_start = Ranged(@, pair), !.out_end = RangeEnd(pair)]
         \/ /\ word.name = "tail" /\ ret' = ret
            /\ uncompiled' = [uncompiled EXCEPT !.tail_start = Ranged(@, pair),
                                                !.tail_end = RangeEnd(pair)]
  BY DEF SetRange
<1>2. (OptionalArg # <<>> => Head(OptionalArg) \in Seq(Nat)) /\ Taken \in Nat
  BY <1>1, OptionalArgIs
<1>3. ~pair.failed => /\ RangeEnd(pair) = EndIn(OptionalArg)
                      /\ IsRanged(OptionalArg) =>
                           pair.first = Decimal(Head(OptionalArg)) /\ pair.second # NoLimit
                      /\ ~IsRanged(OptionalArg) => pair.second = NoLimit
  <2>1. CASE OptionalArg = <<>>
    BY <2>1 DEF IsRanged, RangeEnd, EndIn
  <2>2. CASE OptionalArg # <<>>
    <3>1. SIZE_MAX \in Nat /\ SIZE_MAX >= 10
      BY LimitsAssumption
    <3>2. PICK text \in Seq(Nat) : text = Head(OptionalArg)
      BY <1>2, <2>2
    <3>3. pair = IF IsRange(text)
                 THEN [first |-> Decimal(text), failed |-> FALSE,
                       second |-> IF CommaAt(text) = 0 THEN NoLimit ELSE Decimal(AfterComma(text))]
                 ELSE [first |-> 0, second |-> 0, failed |-> TRUE]
      BY <2>2, <3>1, <3>2, ParseNumberPairExact
    <3>4. IsRange(text) /\ CommaAt(text) # 0 => Decimal(AfterComma(text)) # NoLimit
      BY <3>1 DEF IsRange, IsNumber, NoLimit
    <3> HIDE DEF pair
    <3>5. IsRanged(OptionalArg) <=> CommaAt(text) # 0
      BY <2>2, <3>2 DEF IsRanged
    <3>6. ~pair.failed => IsRange(text)
      BY <3>3
    <3>7. EndIn(OptionalArg) = IF CommaAt(text) = 0 THEN Decimal(text) ELSE Decimal(AfterComma(text))
      BY <2>2, <3>2 DEF EndIn
    <3> QED
      BY <3>2, <3>3, <3>4, <3>5, <3>6, <3>7 DEF RangeEnd
  <2> QED
    BY <2>1, <2>2
<1> HIDE DEF pair
<1>4. PICK w : seen' = Append(seen, w) /\ w.name = word.name /\ w.arg = OptionalArg
  BY <1>1, <1>2, SeenIs
<1>5. /\ IsSequence(seen) /\ phase = "parsing" /\ phase' = "parsing"
      /\ ~arg_has_errors' => ~arg_has_errors /\ ~pair.failed
  BY <1>1, <1>2, SeenIs
<1>6. w.name \in {"head", "out", "tail"} /\ w.name \notin DOMAIN SizeOf /\ w.name \notin UtfNames
  BY <1>1, <1>4 DEF Reads, SizeOf, UtfNames
<1>7. ret.sizes' = ret.sizes /\ uncompiled.re_options' = uncompiled.re_options
  BY <1>1 DEF Inv, Shape, RetFields, CodeFields, Added
<1>8. SizesSeen' /\ UtfSeen'
  BY <1>4, <1>5, <1>6, <1>7, SizesSame, UtfMore
<1>9. RangesSeen'
  <2>1. CASE word.name = "head"
    <3>1. RangesStay
      BY <1>1, <2>1 DEF Inv, Shape, CodeFields, Added, RangesStay
    <3> QED
      BY <1>4, <1>5, <2>1, <3>1, RangesSame
  <2>2. CASE word.name # "head"
    <3> SUFFICES ASSUME ~arg_has_errors' PROVE RangesSeen'
      BY DEF RangesSeen
    <3>1. /\ ~arg_has_errors /\ ~pair.failed
          /\ ret.out_start = StartWritten("out") /\ ret.out_end = EndWritten("out")
          /\ uncompiled.tail_start = StartWritten("tail")
          /\ uncompiled.tail_end = EndWritten("tail")
      BY <1>5 DEF Recorded, RangesSeen
    <3>2. /\ RangeEnd(pair) = EndIn(w.arg)
          /\ \A start : Ranged(start, pair) =
               IF IsRanged(w.arg) THEN Decimal(Head(w.arg)) ELSE start
      BY <1>3, <1>4, <3>1 DEF Ranged
    <3>3. \A name : /\ StartWritten(name)' =
                         IF w.name = name /\ IsRanged(w.arg) THEN Decimal(Head(w.arg))
                         ELSE StartWritten(name)
                    /\ EndWritten(name)' =
                         IF w.name = name THEN EndIn(w.arg) ELSE EndWritten(name)
      BY <1>4, <1>5, RangeMore
    <3>4. CASE word.name = "out"
      <4>1. /\ ret.out_start' = Ranged(ret.out_start, pair) /\ ret.out_end' = RangeEnd(pair)
            /\ uncompiled' = uncompiled
        BY <1>1, <3>4 DEF Inv, Shape, RetFields
      <4> QED
        BY <1>4, <3>1, <3>2, <3>3, <3>4, <4>1 DEF RangesSeen
    <3>5. CASE word.name = "tail"
      <4>1. /\ uncompiled.tail_start' = Ranged(uncompiled.tail_start, pair)
            /\ uncompiled.tail_end' = RangeEnd(pair) /\ ret' = ret
        BY <1>1, <3>5 DEF Inv, Shape, CodeFields
      <4> QED
        BY <1>4, <3>1, <3>2, <3>3, <3>5, <4>1 DEF RangesSeen
    <3> QED
      BY <1>1, <2>2, <3>4, <3>5
  <2> QED
    BY <2>1, <2>2
<1>10. SizesFilled'
  BY <1>5 DEF SizesFilled, Accepted
<1> QED
  BY <1>8, <1>9, <1>10 DEF Recorded

LEMMA RecordSetSize == Inv /\ Counted /\ Recorded /\ SetSize => Recorded'
<1> SUFFICES ASSUME Inv, Counted, Recorded, SetSize PROVE Recorded'
  OBVIOUS
<1> DEFINE n == ParseSize(word.name, Head(word.arg))
           k == SizeOf[word.name]
           wrong == n = NoNumber \/ (word.name = "buf-size" /\ n > MAX_BUF_SIZE)
<1>1. /\ Reads(DOMAIN SizeOf) /\ Consume(0, word.arg, wrong)
      /\ ret' = [ret EXCEPT !.sizes[k] = Number(n)] /\ uncompiled' = uncompiled
  BY DEF SetSize
<1>2. word.name \in DOMAIN SizeOf
  BY <1>1 DEF Reads
<1>3. word.name \in {"buf-size", "buf-size-frag", "max-lookbehind", "read"}
  BY <1>2 DEF SizeOf
<1>4. PICK text \in Seq(Nat) : text = Head(word.arg)
  <2>1. argv \in CommandLines /\ optind \in Nat \ {0} /\ word.name \in TakesArgument
    BY <1>3 DEF Inv, Shape, TakesArgument
  <2> QED
    BY <1>1, <2>1, WordIs
<1>5. /\ n = IF IsNumber(text, LeastSize(word.name), GreatestSize(word.name))
             THEN Decimal(text) ELSE NoNumber
      /\ n \in (LeastSize(word.name)..GreatestSize(word.name)) \cup {NoNumber}
  BY <1>2, <1>4, SizeParsed
<1>6. wrong \in BOOLEAN /\ (~wrong => n # NoNumber)
  OBVIOUS
<1>7. k \in SizeFields /\ \A name \in DOMAIN SizeOf : SizeOf[name] = k => name = word.name
  BY <1>3 DEF SizeOf, SizeFields
<1> HIDE DEF n, k, wrong
<1>8. PICK w : seen' = Append(seen, w) /\ w.name = word.name /\ w.arg = word.arg
  BY <1>1, SeenIs
<1>9. /\ IsSequence(seen) /\ phase = "parsing" /\ phase' = "parsing"
      /\ ~arg_has_errors' => ~arg_has_errors /\ ~wrong
  BY <1>1, SeenIs
<1>10. /\ ret.out_start' = ret.out_start /\ ret.out_end' = ret.out_end
       /\ \A f \in SizeFields : ret.sizes'[f] = IF f = k THEN Number(n) ELSE ret.sizes[f]
  BY <1>1 DEF Inv, Shape, RetFields
<1>11. SizesSeen'
  <2> SUFFICES ASSUME ~arg_has_errors', NEW name \in DOMAIN SizeOf
               PROVE  /\ ret.sizes'[SizeOf[name]] = LastOf({name}, SizeNotGiven(name))'
                      /\ Places({name})' # {} =>
                           ret.sizes'[SizeOf[name]] \in LeastSize(name)..GreatestSize(name)
    BY DEF SizesSeen
  <2>1. n # NoNumber /\ ~arg_has_errors
    BY <1>6, <1>9
  <2>2. SizeOf[name] \in SizeFields
    BY DEF SizeOf, SizeFields
  <2>3. LastOf({name}, SizeNotGiven(name))' =
          IF w.name \in {name} THEN Decimal(Head(w.arg)) ELSE LastOf({name}, SizeNotGiven(name))
    BY <1>8, <1>9, LastOfMore
  <2>4. CASE name = word.name
    <3>1. ret.sizes'[SizeOf[name]] = Number(n)
      BY <1>10, <2>2, <2>4 DEF k
    <3>2. Number(n) = n
      BY <2>1 DEF Number
    <3>3. n = Decimal(text) /\ n \in LeastSize(name)..GreatestSize(name)
      BY <1>5, <2>1, <2>4
    <3> QED
      BY <1>4, <1>8, <2>3, <2>4, <3>1, <3>2, <3>3
  <2>5. CASE name # word.name
    <3>1. ret.sizes'[SizeOf[name]] = ret.sizes[SizeOf[name]]
      BY <1>7, <1>10, <2>2, <2>5
    <3>2. /\ ret.sizes[SizeOf[name]] = LastOf({name}, SizeNotGiven(name))
          /\ Places({name}) # {} => ret.sizes[SizeOf[name]] \in LeastSize(name)..GreatestSize(name)
      BY <1>9, <2>1 DEF Recorded, SizesSeen
    <3>3. Places({name})' = Places({name})
      <4>1. \A ns : Places(ns)' = Places(ns) \cup (IF w.name \in ns THEN {Len(seen) + 1} ELSE {})
        BY <1>8, <1>9, PlacesMore
      <4>2. PICK ns : ns = {name}
        OBVIOUS
      <4>3. Places(ns)' = Places(ns)
        BY <1>8, <2>5, <4>1, <4>2
      <4> QED
        BY <4>2, <4>3
    <3> QED
      BY <1>8, <2>3, <2>5, <3>1, <3>2, <3>3
  <2> QED
    BY <2>4, <2>5
<1>12. RangesSeen'
  <2>1. w.name \notin {"out", "tail"}
    BY <1>3, <1>8
  <2>2. RangesStay
    BY <1>1, <1>10 DEF RangesStay
  <2> QED
    BY <1>8, <1>9, <2>1, <2>2, RangesSame
<1>13. UtfSeen'
  <2>1. w.name \notin UtfNames
    BY <1>3, <1>8 DEF UtfNames
  <2> QED
    BY <1>1, <1>8, <1>9, <2>1, UtfMore
<1>14. SizesFilled'
  BY <1>9 DEF SizesFilled, Accepted
<1> QED
  BY <1>11, <1>12, <1>13, <1>14 DEF Recorded

(* After the loop nothing more is seen, and the defaults are filled in.    *)
LEMMA SameSeen ==
  ASSUME seen' = seen
  PROVE  /\ \A names, default : LastOf(names, default)' = LastOf(names, default)
         /\ \A names : Places(names)' = Places(names)
         /\ \A name : /\ StartWritten(name)' = StartWritten(name)
                      /\ EndWritten(name)' = EndWritten(name)
BY DEF LastOf, Places, Written, StartWritten, EndWritten, WithRange

LEMMA RecordStays ==
  ASSUME Recorded, seen' = seen, ~arg_has_errors' => ~arg_has_errors, RangesStay,
         uncompiled.re_options' = uncompiled.re_options
  PROVE  /\ RangesSeen' /\ UtfSeen'
         /\ /\ ret.sizes' = ret.sizes
            /\ phase' \in {"compiling", "defaults"} => phase \in {"parsing", "compiling", "defaults"}
            /\ phase' # "parsing"
            => SizesSeen'
<1>1. RangesSeen'
  BY SameSeen DEF Recorded, RangesSeen, RangesStay
<1>2. UtfSeen'
  <2>1. Places(UtfNames)' = Places(UtfNames)
    BY SameSeen
  <2> QED
    BY <2>1 DEF Recorded, UtfSeen
<1>3. ASSUME ret.sizes' = ret.sizes, ~arg_has_errors', phase \in {"parsing", "compiling", "defaults"},
             NEW name \in DOMAIN SizeOf
      PROVE  /\ ret.sizes'[SizeOf[name]] = LastOf({name}, SizeNotGiven(name))'
             /\ Places({name})' # {} =>
                  ret.sizes'[SizeOf[name]] \in LeastSize(name)..GreatestSize(name)
  <2>1. /\ ret.sizes[SizeOf[name]] = LastOf({name}, SizeNotGiven(name))
        /\ Places({name}) # {} => ret.sizes[SizeOf[name]] \in LeastSize(name)..GreatestSize(name)
    BY <1>3 DEF Recorded, SizesSeen
  <2>2. LastOf({name}, SizeNotGiven(name))' = LastOf({name}, SizeNotGiven(name))
    BY DEF LastOf, Places, Written
  <2>3. Places({name})' = Places({name})
    BY DEF Places
  <2> QED
    BY <1>3, <2>1, <2>2, <2>3
<1> QED
  BY <1>1, <1>2, <1>3 DEF SizesSeen

(* What is filled in for each size: a number that was given is never the   *)
(* one that stands for none.                                               *)
LEMMA GivenOr ==
  ASSUME Inv, Recorded, phase = "defaults", NEW name \in DOMAIN SizeOf, name # "buf-size",
         NEW other
  PROVE  /\ ret.sizes[SizeOf[name]] = SizeNotGiven(name) <=> Places({name}) = {}
         /\ LastOf({name}, other) = IF ret.sizes[SizeOf[name]] = SizeNotGiven(name) THEN other
                                    ELSE ret.sizes[SizeOf[name]]
<1>1. name \in {"buf-size-frag", "max-lookbehind", "read"}
  BY DEF SizeOf
<1>2. PICK size : size = ret.sizes[SizeOf[name]]
  OBVIOUS
<1>3. /\ size = LastOf({name}, SizeNotGiven(name))
      /\ Places({name}) # {} => size \in LeastSize(name)..GreatestSize(name)
  BY <1>2 DEF Recorded, SizesSeen, Inv, Shape, OptionsRead, Compiled
<1>4. /\ SizeNotGiven(name) = GreatestSize(name) + 1
      /\ GreatestSize(name) \in Int /\ LeastSize(name) \in Int
  BY <1>1, LimitsAssumption DEF SizeNotGiven, GreatestSize, LeastSize
<1>5. Places({name}) # {} => size # SizeNotGiven(name)
  <2>1. PICK most \in Int, least \in Int : most = GreatestSize(name) /\ least = LeastSize(name)
    BY <1>4
  <2> QED
    BY <1>3, <1>4, <2>1
<1>6. Places({name}) = {} => size = SizeNotGiven(name) /\ LastOf({name}, other) = other
  BY <1>3 DEF LastOf
<1>7. Places({name}) # {} => LastOf({name}, other) = size
  BY <1>3 DEF LastOf
<1> QED
  BY <1>2, <1>5, <1>6, <1>7

LEMMA FillRecords == Inv /\ Typed /\ Recorded /\ FillDefaults => Recorded'
<1> SUFFICES ASSUME Inv, Typed, Recorded, FillDefaults PROVE Recorded'
  OBVIOUS
<1>1. /\ phase = "defaults" /\ UNCHANGED <<argv, optind, uncompiled, arg_has_errors, seen>>
      /\ \/ phase' = "failed" /\ ret' = ret
         \/ /\ FilledLookbehind # NoNumber /\ FilledFrag # NoNumber
            /\ phase' = "checking" /\ ret' = [ret EXCEPT !.sizes = Filled]
  BY FillIs
<1>2. RangesStay
  BY <1>1 DEF Inv, Shape, RetFields, RangesStay
<1>3. RangesSeen' /\ UtfSeen'
  BY <1>1, <1>2, RecordStays
<1>4. SizesSeen'
  BY <1>1 DEF SizesSeen
<1>5. SizesFilled'
  <2>1. CASE phase' = "failed"
    BY <2>1 DEF SizesFilled, Accepted
  <2>2. CASE /\ FilledLookbehind # NoNumber /\ FilledFrag # NoNumber
             /\ ret' = [ret EXCEPT !.sizes = Filled]
    <3>1. /\ ret.sizes.buf_size = LastOf({"buf-size"}, BUF_SIZE_DEFAULT)
          /\ ret.sizes.buf_size \in 0..SIZE_MAX /\ ret.sizes.max_lookbehind \in 0..UINT32_MAX
      <4>1. ret.sizes \in SizesType /\ "buf-size" \in DOMAIN SizeOf /\ SizeOf["buf-size"] = "buf_size"
        BY DEF Typed, RetTyped, SizeOf
      <4>2. ret.sizes["buf_size"] = LastOf({"buf-size"}, SizeNotGiven("buf-size"))
        BY <1>1, <4>1 DEF Recorded, SizesSeen, Inv, Shape, OptionsRead, Compiled
      <4> QED
        BY <4>1, <4>2 DEF SizesType, SizeNotGiven
    <3>2. PICK buf_size : buf_size = ret.sizes.buf_size
      OBVIOUS
    <3>3. FilledFrag = LastOf({"buf-size-frag"}, 8 * buf_size)
      <4>1. /\ LastOf({"buf-size-frag"}, 8 * buf_size) =
                 IF ret.sizes.buf_size_frag = SIZE_MAX THEN 8 * buf_size ELSE ret.sizes.buf_size_frag
        <5>1. /\ "buf-size-frag" \in DOMAIN SizeOf /\ SizeOf["buf-size-frag"] = "buf_size_frag"
              /\ SizeNotGiven("buf-size-frag") = SIZE_MAX
          BY DEF SizeOf, SizeNotGiven
        <5> QED
          BY <1>1, <5>1, GivenOr
      <4>2. SIZE_MAX \in Nat /\ 8 \in 0..SIZE_MAX
        BY LimitsAssumption
      <4>3. MulOverflow(buf_size, 8, SIZE_MAX) =
              IF buf_size * 8 <= SIZE_MAX THEN buf_size * 8 ELSE NoNumber
        BY <3>1, <3>2, <4>2, MulOverflowExact
      <4>4. buf_size * 8 = 8 * buf_size
        BY <3>1, <3>2, <4>2
      <4> QED
        BY <2>2, <3>2, <4>1, <4>3, <4>4 DEF FilledFrag
    <3>4. LastOf({"read"}, buf_size) =
            IF ret.sizes.bytes_to_read = SIZE_MAX THEN buf_size ELSE ret.sizes.bytes_to_read
      <4>1. /\ "read" \in DOMAIN SizeOf /\ SizeOf["read"] = "bytes_to_read"
            /\ SizeNotGiven("read") = SIZE_MAX
        BY DEF SizeOf, SizeNotGiven
      <4> QED
        BY <1>1, <4>1, GivenOr
    <3>5. FilledLookbehind = BytesPerCharacter * LastOf({"max-lookbehind"}, Lookbehind)
      <4>1. Lookbehind \in 0..UINT32_MAX
        BY <1>1, LookbehindTyped DEF OptionsRead, Compiled
      <4>2. PICK n : n = IF ret.sizes.max_lookbehind = UINT32_MAX THEN Lookbehind
                         ELSE ret.sizes.max_lookbehind
        OBVIOUS
      <4>3. n \in 0..UINT32_MAX /\ FilledLookbehind = InBytes(n)
        BY <3>1, <4>1, <4>2 DEF FilledLookbehind
      <4>4. n = LastOf({"max-lookbehind"}, Lookbehind)
        <5>1. /\ "max-lookbehind" \in DOMAIN SizeOf /\ SizeOf["max-lookbehind"] = "max_lookbehind"
              /\ SizeNotGiven("max-lookbehind") = UINT32_MAX
          BY DEF SizeOf, SizeNotGiven
        <5> QED
          BY <1>1, <4>2, <5>1, GivenOr
      <4>5. InBytes(n) = IF HasPattern /\ IsUtf THEN n * MAX_BYTES_PER_CHARACTER ELSE n
        BY <2>2, <4>3, InBytesIs
      <4>6. IsUtf <=> Places({"utf", "utf-allow-invalid"}) # {}
        BY DEF Recorded, UtfSeen, IsUtf, UtfNames, UtfOptions
      <4>7. BytesPerCharacter = IF HasPattern /\ IsUtf THEN MAX_BYTES_PER_CHARACTER ELSE 1
        BY <4>6 DEF BytesPerCharacter
      <4>8. MAX_BYTES_PER_CHARACTER \in Nat /\ UINT32_MAX \in Nat
        BY LimitsAssumption
      <4>9. BytesPerCharacter * n = InBytes(n)
        <5>1. n \in Nat
          BY <4>3, <4>8
        <5>2. CASE HasPattern /\ IsUtf
          BY <4>5, <4>7, <4>8, <5>1, <5>2
        <5>3. CASE ~(HasPattern /\ IsUtf)
          BY <4>5, <4>7, <5>1, <5>3
        <5> QED
          BY <5>2, <5>3
      <4> QED
        BY <4>3, <4>4, <4>9
    <3>6. Filled = [buf_size |-> buf_size,
                    buf_size_frag |-> LastOf({"buf-size-frag"}, 8 * buf_size),
                    bytes_to_read |-> LastOf({"read"}, buf_size),
                    max_lookbehind |-> BytesPerCharacter * LastOf({"max-lookbehind"}, Lookbehind)]
      BY <3>2, <3>3, <3>4, <3>5 DEF Filled
    <3>7. ret.sizes' = Filled /\ ret.in_byte_delimiter' = ret.in_byte_delimiter
      BY <2>2 DEF Inv, Shape, RetFields
    <3>8. Lookbehind' = Lookbehind /\ BytesPerCharacter' = BytesPerCharacter
      BY <1>1, <3>7 DEF Lookbehind, BytesPerCharacter, HasPattern, Pattern, Places
    <3>9. /\ LastOf({"buf-size"}, BUF_SIZE_DEFAULT)' = buf_size
          /\ LastOf({"buf-size-frag"}, 8 * buf_size)' = LastOf({"buf-size-frag"}, 8 * buf_size)
          /\ LastOf({"read"}, buf_size)' = LastOf({"read"}, buf_size)
          /\ LastOf({"max-lookbehind"}, Lookbehind)' = LastOf({"max-lookbehind"}, Lookbehind)
      BY <1>1, <3>1, <3>2, <3>8 DEF LastOf, Places, Written
    <3>10. SizesWritten'
      BY <3>6, <3>7, <3>8, <3>9 DEF SizesWritten
    <3> QED
      BY <3>10 DEF SizesFilled
  <2> QED
    BY <1>1, <2>1, <2>2
<1> QED
  BY <1>3, <1>4, <1>5 DEF Recorded

LEMMA RecordEnd == Inv /\ Recorded /\ (EndOfOptions \/ CompileAll) => Recorded'
<1> SUFFICES ASSUME Inv, Recorded, EndOfOptions \/ CompileAll PROVE Recorded'
  OBVIOUS
<1>1. /\ phase \in {"parsing", "compiling"} /\ phase' \in {"compiling", "defaults", "failed"}
      /\ seen' = seen
  BY Zenon DEF EndOfOptions, CompileAll
<1>2. ~arg_has_errors' => ~arg_has_errors
  BY Zenon DEF EndOfOptions, CompileAll
<1>3. ret.sizes' = ret.sizes /\ RangesStay /\ uncompiled.re_options' = uncompiled.re_options
  BY DEF EndOfOptions, CompileAll, Inv, Shape, RetFields, CodeFields, RangesStay
<1>4. RangesSeen' /\ UtfSeen' /\ SizesSeen'
  BY <1>1, <1>2, <1>3, RecordStays
<1>5. SizesFilled'
  BY <1>1 DEF SizesFilled, Accepted
<1> QED
  BY <1>4, <1>5 DEF Recorded

LEMMA RecordRest == Recorded /\ (Show \/ Check \/ UNCHANGED vars) => Recorded'
<1> SUFFICES ASSUME Recorded, Show \/ Check \/ UNCHANGED vars PROVE Recorded'
  OBVIOUS
<1>1. UNCHANGED <<argv, optind, ret, uncompiled, arg_has_errors, seen>>
  BY DEF Show, Check, vars
<1>2. \/ phase' = phase
      \/ phase' = "shown"
      \/ phase = "checking" /\ phase' \in {"failed"} \cup Accepted
  BY DEF Show, Check, vars, Accepted
<1>3. SizesWritten' <=> SizesWritten
  BY <1>1 DEF SizesWritten, LastOf, Places, Written, Lookbehind, BytesPerCharacter, HasPattern, Pattern
<1>4. SizesFilled'
  BY <1>2, <1>3 DEF Recorded, SizesFilled, Accepted
<1>5. RangesSeen' /\ UtfSeen'
  BY <1>1, RecordStays DEF RangesStay
<1>6. SizesSeen'
  BY <1>1, <1>2 DEF Recorded, SizesSeen, LastOf, Places, Written, Accepted
<1> QED
  BY <1>4, <1>5, <1>6 DEF Recorded

LEMMA NextRecords == Inv /\ Typed /\ Counted /\ Recorded /\ [Next]_vars => Recorded'
BY RecordSetFlags, RecordSetReOptions, RecordSetSize, RecordSetRange, RecordOthers, RecordEnd,
   FillRecords, RecordRest DEF Next, Terminated

(* Every number that is accepted is what was written last of its kind, or  *)
(* the default that the others give, whatever the order of the options; a  *)
(* lookbehind in bytes never wraps.                                        *)
THEOREM NumbersHold == Spec => []NumbersAsWritten
<1>1. Spec => [](Inv /\ Typed /\ Counted /\ Recorded)
  BY InitInv, NextInv, InitTyped, NextTyped, CountInit, CountedKept, InitRecorded, NextRecords,
     PTL DEF Spec
<1> QED
  BY <1>1, RecordedIs, PTL
===============================================================================
