-------------------------------- MODULE Matcher -------------------------------
(***************************************************************************)
(* What the tokenizer relies on of pcre2_match, through regex::match: the  *)
(* search for the leftmost match at or after an offset, alternatives in    *)
(* their order, lookaround, PCRE2_PARTIAL_HARD (running out of subject     *)
(* while an alternative could still match ends the search with a partial   *)
(* match) and PCRE2_NOTEMPTY_ATSTART.  PCRE2 itself is external.           *)
(*                                                                         *)
(* A pattern is a choice of literal words between two assertions:          *)
(* (?<=behind)(word1|word2|...)(?=ahead), or with (?<!behind) if negative. *)
(***************************************************************************)
EXTENDS Utf8

Patterns == [words : Seq(Seq(Bytes)), behind : Seq(Bytes), negative : BOOLEAN,
             ahead : Seq(Bytes), utf : BOOLEAN]

MatchResults == [kind : {"none", "partial", "complete"}, begin : Nat, end : Nat]
NoMatch == [kind |-> "none", begin |-> 0, end |-> 0]

BehindHolds(pattern, s, p) ==
  LET k == Len(pattern.behind)
      seen == p >= k /\ Span(s, p - k, p) = pattern.behind
  IN seen # pattern.negative

(* In utf mode the search goes from character to character.                *)
Startable(pattern, s, p) ==
  pattern.utf /\ p < Len(s) => ~IsContinuation(s[p + 1])

(* An alternative at p: the word, then what must lie ahead of its end.     *)
Needed(pattern, i) == pattern.words[i] \o pattern.ahead

IsComplete(pattern, s, p, i) == p + Len(Needed(pattern, i)) <= Len(s)

Agrees(pattern, s, p, i) ==
  LET seen == IF IsComplete(pattern, s, p, i) THEN Len(Needed(pattern, i)) ELSE Len(s) - p
  IN Span(s, p, p + seen) = SubSeq(Needed(pattern, i), 1, seen)

(* Alternative i ends the search at p.                                     *)
Hit(pattern, s, offset, notempty, hard, p, i) ==
  /\ Startable(pattern, s, p)
  /\ BehindHolds(pattern, s, p)
  /\ Agrees(pattern, s, p, i)
  /\ IF IsComplete(pattern, s, p, i)
     THEN notempty /\ p = offset => pattern.words[i] # <<>>
     ELSE hard

Match(pattern, s, offset, notempty, hard) ==
  LET alternatives(p) ==
        {i \in DOMAIN pattern.words : Hit(pattern, s, offset, notempty, hard, p, i)}
      places == {p \in offset..Len(s) : alternatives(p) # {}}
      p == Min(places)
      i == Min(alternatives(p))
  IN IF places = {} THEN NoMatch
     ELSE IF IsComplete(pattern, s, p, i)
     THEN [kind |-> "complete", begin |-> p, end |-> p + Len(pattern.words[i])]
     ELSE [kind |-> "partial", begin |-> p, end |-> Len(s)]

===============================================================================
