------------------------------ MODULE MCArguments -----------------------------
(***************************************************************************)
(* Command lines for the run of Arguments: all short sequences of the      *)
(* options of a group, for groups of options that have to do with each     *)
(* other.  A size_t has 6 bits, an uint32_t 5.                             *)
(***************************************************************************)
EXTENDS Arguments

CONSTANT MaxWords  \* bound: words on the command line

Text(digits) == [i \in DOMAIN digits |-> digits[i] + Zero]
One == Text(<<1>>)
Two == Text(<<2>>)
MaxText == Text(<<6, 3>>)
Pair == Text(<<1>>) \o <<Comma>> \o Text(<<4>>)

(* Patterns: a group that never ends, a letter behind which two characters *)
(* must be, and two letters.                                               *)
Open == <<40>>
Behind == <<60, 97>>
Letters == <<97, 98>>

CompilesAs(text, options) == "literal" \in options \/ text # Open
LooksBack(text, options) == IF "literal" \notin options /\ text = Behind THEN 2 ELSE 0
ShortestMatch(text, options) ==
  IF "literal" \notin options /\ text = Behind THEN 1 ELSE Len(text)

AlignmentTexts == {<<97>>, <<98>>}
LoadFactorTexts == {One}

Word(name) == [name |-> name, arg |-> <<>>]
With(name, texts) == {[name |-> name, arg |-> <<t>>] : t \in texts}
Plain(names) == {Word(n) : n \in names}

Ranges ==
  Plain({"out", "tail", "head"}) \cup With("positional", {Two, <<Dash>>})
  \cup With("out", {One, Pair, Text(<<6, 4>>), Text(<<7, 0>>), <<Comma>>})
  \cup With("tail", {Two, Pair \o <<Comma>>, One \o <<Comma>> \o Open})
  \cup With("head", {MaxText, Pair})
Orders ==
  Plain({"sort", "sort-reverse", "stable", "flip", "tui", "sed", "unique", "numeric",
         "unique-numeric", "truncate-no-bound", "is-bounded", "sort-general-numeric"})
  \cup With("positional", {Letters}) \cup With("tail", {Two}) \cup With("out", {Pair})
Operations ==
  Plain({"index", "head", "match", "sed", "regex"})
  \cup With("positional", {<<Dash>>, Letters}) \cup With("index", {<<97>>, One})
  \cup With("filter", {Open}) \cup With("rm", {Letters}) \cup With("tui-select", {Letters})
  \cup Plain({"sub"}) \cup With("sub", {Letters}) \cup With("replace", {One})
Sizes ==
  Plain({"utf", "utf-allow-invalid", "regex", "multiline"})
  \cup With("positional", {Behind, Letters})
  \cup With("buf-size", {<<>>, One, Two, Text(<<5>>)})
  \cup With("buf-size-frag", {<<>>, MaxText, Text(<<6, 2>>)})
  \cup With("max-lookbehind", {One, Text(<<8>>), Text(<<3, 1>>)})
  \cup With("read", {<<>>, One})
Delimiters ==
  Plain({"print0", "batch-print0", "null", "ignore-case", "regex", "match", "?", ":", "help"})
  \cup With("output-delimiter", {One}) \cup With("batch-delimiter", {<<>>})
  \cup With("positional", {<<46>>, One}) \cup With("field", {Open, Letters})
  \cup With("load-factor", {One, Open}) \cup With("prompt", {Letters}) \cup With("locale", {Letters})
  \cup Plain({"delimit-same", "end"})

SequencesOf(S, n) == UNION {[1..k -> S] : k \in 0..n}

(* An option can lack its argument only at the end.                        *)
AllCommandLines ==
  {line \in UNION {SequencesOf(S, MaxWords) : S \in {Orders, Operations}}
              \cup UNION {SequencesOf(S, MaxWords - 1) : S \in {Ranges, Sizes, Delimiters}} :
     \A i \in DOMAIN line : line[i].name = ":" => i = Len(line)}
===============================================================================
