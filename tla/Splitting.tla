------------------------------- MODULE Splitting ------------------------------
(***************************************************************************)
(* What splitting an input means when all of it is there at once: the      *)
(* definition that the loop of Tokenizer, which sees it in pieces, is      *)
(* measured by.  A match begins the search for the next at its end; after  *)
(* an empty match the next may not be empty in the same place.             *)
(***************************************************************************)
EXTENDS Matcher

Matches(pattern, s) ==
  LET from[o \in 0..Len(s), notempty \in BOOLEAN] ==
        LET m == Match(pattern, s, o, notempty, FALSE)
        IN IF m.kind = "none" THEN <<>>
           ELSE <<m>> \o from[m.end, m.begin = m.end]
  IN from[0, FALSE]

(* --match: the matches, each followed by its group if there is one.       *)
Matched(ms, s, groups) ==
  LET of(m) == Span(s, m.begin, m.end)
  IN FlattenSeq([i \in DOMAIN ms |->
                   IF groups THEN <<of(ms[i]), of(ms[i])>> ELSE <<of(ms[i])>>])

MatchTokens(pattern, s, groups) == Matched(Matches(pattern, s), s, groups)

(* Otherwise: what is between the delimiters.  The text after the last is  *)
(* a token unless it is empty, or even then with --use-delimiter.          *)
Between(ms, s, use_delimiter) ==
  LET start(i) == IF i = 1 THEN 0 ELSE ms[i - 1].end
      last == Span(s, start(Len(ms) + 1), Len(s))
      between == [i \in DOMAIN ms |-> Span(s, start(i), ms[i].begin)]
  IN IF last = <<>> /\ ~use_delimiter THEN between ELSE Append(between, last)

DelimitedTokens(pattern, s, use_delimiter) ==
  Between(Matches(pattern, s), s, use_delimiter)

===============================================================================
