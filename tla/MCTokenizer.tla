------------------------------ MODULE MCTokenizer -----------------------------
(***************************************************************************)
(* Patterns, inputs and arguments for the runs of Tokenizer.  The bytes    *)
(* are two letters, and the two bytes of one character in utf mode.        *)
(***************************************************************************)
EXTENDS Tokenizer

CONSTANTS MaxLetters,    \* bound: length of an input of letters
          MaxCharacters  \* bound: characters of an input in utf mode

Letters == {"a", "b"}
AllBytes == {"a", "b", "lead", "tail"}
CharacterLength == [a |-> 1, b |-> 1, lead |-> 2, tail |-> 0]

SequencesOf(S, n) == UNION {[1..k -> S] : k \in 0..n}

LetterInputs == SequencesOf(Letters, MaxLetters)

Characters == {<<"a">>, <<"b">>, <<"lead", "tail">>}
CharacterInputs == {FlattenSeq(cs) : cs \in SequencesOf(Characters, MaxCharacters)}

InputsFor(c) == IF c.pattern.utf THEN CharacterInputs ELSE LetterInputs

A == <<"a">>
B == <<"b">>
Pattern(words, behind, negative, ahead) ==
  [words |-> words, behind |-> behind, negative |-> negative, ahead |-> ahead, utf |-> FALSE]
Plain(words) == Pattern(words, <<>>, FALSE, <<>>)
Utf(pattern) == [pattern EXCEPT !.utf = TRUE]

(* Words, alternatives, an empty pattern, and assertions on both sides.    *)
WordPatterns == {Plain(<<B>>), Plain(<<A \o B>>), Plain(<<B \o B, B>>), Plain(<<B, B \o A>>)}
EmptyPatterns == {Plain(<<<<>>>>)}
MaybeEmptyPatterns == {Plain(<<B, <<>>>>), Pattern(<<<<>>>>, <<>>, FALSE, B)}
AheadPatterns == {Pattern(<<B>>, <<>>, FALSE, A), Pattern(<<B \o B, B>>, <<>>, FALSE, A)}
BehindPatterns == {Pattern(<<B>>, A, FALSE, <<>>), Pattern(<<B>>, A, FALSE, B)}
NotBehind == Pattern(<<B>>, A, TRUE, <<>>)

(* The arguments that the sets given allow.  max_lookbehind is what the    *)
(* pattern needs, and one more with some delimiter bytes, which need none. *)
Arguments(modes, patterns, sizes, frags, reads, flushes) ==
  {[mode |-> c.mode, pattern |-> c.pattern, groups |-> c.groups,
    max_lookbehind |-> Len(c.pattern.behind) *
                         (IF c.pattern.utf THEN MAX_BYTES_PER_CHARACTER ELSE 1) + c.more,
    allow_invalid |-> FALSE,
    buf_size |-> c.size, buf_size_frag |-> c.frag, bytes_to_read |-> Smaller(c.read, c.size),
    flush |-> c.flush, use_input_delimiter |-> c.use, direct_fragments |-> c.direct] :
     c \in {d \in [mode : modes, pattern : patterns, groups : BOOLEAN, size : sizes,
                  frag : frags, read : reads, flush : flushes, use : BOOLEAN,
                  direct : BOOLEAN, more : 0..1] :
              /\ d.groups => d.mode = "match"
              /\ d.more = 1 => d.mode = "byte"
              /\ d.mode = "byte" => d.pattern = Plain(<<B>>)
              /\ d.mode \in {"match", "sed"} => ~d.use /\ ~d.direct}}

Unlimited == 100

SplitConfigs ==
  Arguments({"byte", "delimiter", "match"},
            WordPatterns \cup EmptyPatterns \cup AheadPatterns \cup BehindPatterns,
            {1, 2, 3}, {Unlimited}, {3}, BOOLEAN)
  \cup Arguments({"match"}, {NotBehind}, {2, 3}, {Unlimited}, {3}, BOOLEAN)
  \cup Arguments({"delimiter", "match"}, MaybeEmptyPatterns, {1, 2, 3}, {Unlimited}, {3}, BOOLEAN)

(* --sed, also with no room for what the pattern needs.                    *)
SedConfigs ==
  Arguments({"sed"},
            WordPatterns \cup EmptyPatterns \cup AheadPatterns \cup BehindPatterns
              \cup MaybeEmptyPatterns \cup {NotBehind},
            {1, 2, 3}, {Unlimited}, {3}, BOOLEAN)

(* Tokens longer than the fragment buffer takes.  The last token of an     *)
(* input without a delimiter at its end has a run of its own.              *)
FragmentConfigs ==
  {c \in Arguments({"byte", "delimiter"}, WordPatterns \cup BehindPatterns,
                   {1, 2, 3}, {0, 1, 2, 3, 4}, {2, 3}, {FALSE}) :
     ~c.direct_fragments /\ (c.mode = "byte" => c.use_input_delimiter)}

LastTokenConfigs ==
  Arguments({"byte"}, {Plain(<<B>>)}, {1, 2}, {0, 1, 2}, {2}, {FALSE})

(* Characters of more than one byte.                                       *)
UtfConfigs ==
  Arguments({"delimiter", "match", "sed"},
            {Utf(p) : p \in {Plain(<<B>>), Plain(<<B \o <<"lead", "tail">>, B>>),
                             Plain(<<<<>>>>), Pattern(<<B>>, A, FALSE, <<>>)}},
            {2, 3, 4}, {Unlimited}, {4}, {TRUE})

AllConfigs == SplitConfigs \cup SedConfigs \cup FragmentConfigs \cup UtfConfigs

===============================================================================
