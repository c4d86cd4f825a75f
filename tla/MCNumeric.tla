------------------------------- MODULE MCNumeric ------------------------------
(***************************************************************************)
(* Tokens for the runs of Numeric.                                         *)
(***************************************************************************)
EXTENDS Numeric

CONSTANT MaxLength  \* bound: characters of a token

One == Zero + 1
Blank == 32

SequencesOf(S, n) == UNION {[1..k -> S] : k \in 0..n}

(* All short texts of the format that the help describes.                  *)
Signs == {<<>>, <<Minus>>}
Integrals == SequencesOf({Comma, Zero, One}, MaxLength)
Fractions == {<<>>} \cup {<<Dot>> \o f : f \in SequencesOf({Zero, One}, MaxLength - 1)}
Numbers ==
  {t \in {s \o i \o f : s \in Signs, i \in Integrals, f \in Fractions} : Len(t) <= MaxLength}

(* Three ways to write a number, one of them with a unit after it.         *)
Measures == {<<One, Dot>>, <<One, Dot, Zero>>, <<One, Dot, Blank>>}
===============================================================================
