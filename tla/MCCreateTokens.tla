---------------------------- MODULE MCCreateTokens ----------------------------
(***************************************************************************)
(* Small instances of create_tokens: each way to split, a few operations,  *)
(* and options that store tokens or do not.                                *)
(***************************************************************************)
EXTENDS CreateTokens

CONSTANT MaxLetters  \* bound: length of the input

A == <<"a">>
B == <<"b">>

SequencesOf(S, n) == UNION {[1..k -> S] : k \in 0..n}
AllInputs(c) == SequencesOf(Bytes, MaxLetters)
AllTexts == SequencesOf(Bytes, MaxLetters)

LetterLength == [b \in Bytes |-> 1]

(* An injection of the texts into AllKeys.                                 *)
AllKeys == 0..3 ^ (MaxLetters + 1)
RankOf(text) == FoldLeft(LAMBDA n, b : 3 * n + (IF b = "a" THEN 1 ELSE 2), 0, text)

Plain(words) == [words |-> words, behind |-> <<>>, negative |-> FALSE, ahead |-> <<>>, utf |-> FALSE]

Config(mode, pattern, groups, size, flush, use, direct) ==
  [mode |-> mode, pattern |-> pattern, groups |-> groups, max_lookbehind |-> Len(pattern.behind),
   allow_invalid |-> FALSE, buf_size |-> size, buf_size_frag |-> 100, bytes_to_read |-> 2,
   flush |-> flush, use_input_delimiter |-> use, direct_fragments |-> direct]

Behind == [Plain(<<B>>) EXCEPT !.behind = A]
Empty == Plain(<<<<>>>>)
MaybeEmpty == Plain(<<B, <<>>>>)

AllConfigs ==
  {Config("byte", Plain(<<B>>), FALSE, s, s = 1, u, d) : s \in 1..2, u, d \in BOOLEAN}
  \cup {Config("delimiter", p, FALSE, 2, p = Behind, FALSE, d) :
          p \in {Plain(<<B \o B, B>>), Behind, MaybeEmpty}, d \in BOOLEAN}
  \cup {Config("match", p, p \notin {Empty, MaybeEmpty}, 2, FALSE, FALSE, d) :
          p \in {Plain(<<B>>), Plain(<<B \o A, B>>), Empty, MaybeEmpty}, d \in BOOLEAN}
  \cup {Config("sed", p, FALSE, 2, FALSE, FALSE, d) :
          p \in {Plain(<<B>>), Plain(<<B \o A, B>>), Empty}, d \in BOOLEAN}

AllOps == {<<>>, <<RmOp({A, <<>>})>>, <<SubOp({B}, A)>>, <<InLimitOp(1, 2), FilterOp({A, B})>>}

Options(tui, sort, unique, flip, sed, start, stop, tail) ==
  [sort |-> sort, sort_reverse |-> FALSE, sort_stable |-> FALSE,
   unique |-> unique, same_type |-> TRUE, flip |-> flip, tui |-> tui,
   sed |-> sed, truncate_no_bound |-> FALSE,
   out_start |-> start, out_end |-> stop, tail_start |-> -1, tail_end |-> tail,
   delimit_not_at_end |-> FALSE, delimit_on_empty |-> FALSE]

F == FALSE
Direct == {Options(F, F, u, F, F, r[1], r[2], -1) : u \in BOOLEAN, r \in {<<-1, -1>>, <<-1, 1>>, <<1, 2>>}}
Stored == {Options(TRUE, F, F, F, F, -1, 2, -1), Options(F, TRUE, F, F, F, -1, 2, -1),
           Options(F, F, TRUE, TRUE, F, 1, 2, -1), Options(F, F, F, F, F, -1, -1, 1),
           Options(F, TRUE, TRUE, F, F, -1, -1, 2)}
Sed == {Options(F, F, F, F, TRUE, r[1], r[2], -1) : r \in {<<-1, -1>>, <<-1, 1>>, <<1, 2>>}}
AllOptions == Direct \cup Stored \cup Sed
===============================================================================
