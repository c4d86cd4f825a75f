-------------------------------- MODULE Numbers -------------------------------
(***************************************************************************)
(* Numbers on the command line (numeric_utils.hpp): unsigned integers that *)
(* wrap at max + 1, in which parse_number must notice that a text has no   *)
(* place.  A text is a sequence of character codes.                        *)
(***************************************************************************)
EXTENDS Options, SequencesExt

Comma == 44
Zero == 48
DigitChars == 48..57

NoNumber == -1   \* a std::nullopt, or an error that was reported

(* What a function returns that has reported an error.                     *)
Number_Raw(n) == n

Number(n) == IF n = NoNumber THEN 0 ELSE n

MulOverflow_Unchecked(a, b, max) == (a * b) % (max + 1)

MulOverflow(a, b, max) ==
  LET out == (a * b) % (max + 1)
  IN IF a # 0 /\ out \div a # b THEN NoNumber ELSE out

AddOverflow(a, b, max) ==
  LET out == (a + b) % (max + 1)
  IN IF out < a THEN NoNumber ELSE out

(* One more digit.                                                         *)
WithDigit(n, ch, max) ==
  LET tenfold == MulOverflow(n, 10, max)
  IN IF n = NoNumber \/ ch \notin DigitChars \/ tenfold = NoNumber THEN NoNumber
     ELSE AddOverflow(tenfold, ch - Zero, max)

(* The text ends at its first comma, if there is one.                      *)
CommaAt(text) == SelectInSeq(text, LAMBDA ch : ch = Comma)
BeforeComma(text) == IF CommaAt(text) = 0 THEN text ELSE SubSeq(text, 1, CommaAt(text) - 1)
AfterComma(text) == SubSeq(text, CommaAt(text) + 1, Len(text))

ParseNumber(text, max, zero_allowed, max_allowed) ==
  LET out == FoldLeft(LAMBDA n, ch : WithDigit(n, ch, max), 0, BeforeComma(text))
  IN IF (~max_allowed /\ out = max) \/ (~zero_allowed /\ out = 0) THEN NoNumber ELSE out

(* Whatever follows a second comma is not read.                            *)
ParseNumberPair(text, max) ==
  LET first == ParseNumber(text, max, TRUE, TRUE)
      second == IF CommaAt(text) = 0 THEN NoLimit
                ELSE ParseNumber(AfterComma(text), max, TRUE, TRUE)
      failed == first = NoNumber \/ (CommaAt(text) # 0 /\ second = NoNumber)
  IN IF failed THEN [first |-> 0, second |-> 0, failed |-> TRUE]
     ELSE [first |-> Number(first), second |-> second, failed |-> FALSE]
===============================================================================
