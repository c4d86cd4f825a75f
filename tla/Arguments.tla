------------------------------- MODULE Arguments ------------------------------
(***************************************************************************)
(* handle_args (args.hpp): the command line is read option by option, all  *)
(* errors are reported before the program exits, and only when everything  *)
(* is known are the patterns compiled, the defaults filled in and the      *)
(* combinations refused that make no sense.                                *)
(*                                                                         *)
(* The command line is a sequence of words, each an option with the        *)
(* argument that is attached to it, or a positional argument.  An option   *)
(* whose argument is optional also takes a positional argument that comes  *)
(* next, and --sub takes the words that come next, whatever they are.      *)
(***************************************************************************)
EXTENDS Numbers

CONSTANTS CommandLines,              \* the command lines to try
          SIZE_MAX, UINT32_MAX,      \* the limits of size_t and uint32_t
          BUF_SIZE_DEFAULT, MAX_BUF_SIZE,
          MAX_BYTES_PER_CHARACTER,
          Alignments, LoadFactors,   \* the texts that --index and --load-factor accept
          Compiles(_, _),            \* PCRE2: a text is a pattern under these options,
          MaxLookbehind(_, _),       \* how far it looks back, and
          MinMatchLength(_, _)       \* how short its matches are, in characters

ASSUME LimitsAssumption ==
  /\ SIZE_MAX \in Nat /\ UINT32_MAX \in 10..SIZE_MAX
  /\ MAX_BYTES_PER_CHARACTER \in 1..UINT32_MAX
  /\ MAX_BUF_SIZE \in 1..SIZE_MAX /\ BUF_SIZE_DEFAULT \in 1..SIZE_MAX
  /\ 8 * BUF_SIZE_DEFAULT < SIZE_MAX /\ 8 * MAX_BUF_SIZE < SIZE_MAX

(* A word is an option or a positional argument with the text attached, if *)
(* any; getopt_long sees to it that there is one where one is required,    *)
(* and only the last word can lack it.                                     *)
TakesArgument ==
  {"output-delimiter", "batch-delimiter", "prompt", "tui-select", "filter", "field", "rm",
   "buf-size", "buf-size-frag", "max-lookbehind", "read", "load-factor", "locale", "replace",
   "positional"}

ASSUME WordsAssumption ==
  \A line \in CommandLines :
    /\ line \in Seq([name : STRING, arg : Seq(Seq(Nat))])
    /\ \A i \in DOMAIN line : /\ Len(line[i].arg) <= 1
                              /\ line[i].name \in TakesArgument => line[i].arg # <<>>
                              /\ line[i].name = ":" => i = Len(line)

Ops == INSTANCE OrderedOps

VARIABLES argv, optind,
          ret,             \* the Arguments to be returned
          uncompiled,      \* UncompiledCodes
          arg_has_errors,
          phase,
          seen             \* history: the options read so far, with their arguments

vars == <<argv, optind, ret, uncompiled, arg_has_errors, phase, seen>>

(* The flags that an option turns on, most of them of its own name.        *)
Turns ==
  [name \in {"flip", "flush", "tui", "end", "multi", "tenacious", "selection-order", "sort",
             "sort-reverse", "stable", "unique", "unique-use-set", "match", "sed",
             "delimit-not-at-end", "delimit-on-empty", "use-delimiter", "delimit-same",
             "truncate-no-bound", "no-warn", "is-bounded", "sort-numeric",
             "sort-general-numeric", "unique-numeric", "unique-general-numeric",
             "numeric", "general-numeric"} |->
    CASE name = "end" -> {"end", "tui"}
      [] name = "multi" -> {"multiple_selections"}
      [] name = "selection-order" -> {"selection_order"}
      [] name = "sort-reverse" -> {"sort", "sort_reverse"}
      [] name = "stable" -> {"sort", "sort_stable"}
      [] name = "unique-use-set" -> {"unique", "unique_use_set"}
      [] name = "sed" -> {"match", "sed"}
      [] name = "delimit-not-at-end" -> {"delimit_not_at_end"}
      [] name = "delimit-on-empty" -> {"delimit_on_empty"}
      [] name = "use-delimiter" -> {"use_input_delimiter"}
      [] name = "delimit-same" -> {"use_input_delimiter", "delimit_not_at_end"}
      [] name = "truncate-no-bound" -> {"truncate_no_bound"}
      [] name = "no-warn" -> {"no_warn"}
      [] name = "is-bounded" -> {"is_bounded_query"}
      [] name \in {"sort-numeric", "sort-general-numeric"} -> {"sort"}
      [] name \in {"unique-numeric", "unique-general-numeric"} -> {"unique"}
      [] name \in {"numeric", "general-numeric"} -> {}
      [] OTHER -> {name}]

(* The comparisons that it chooses, for sorting and for uniqueness.        *)
SortTypes ==
  [name \in {"sort-numeric", "numeric", "sort-general-numeric", "general-numeric"} |->
    IF name \in {"sort-numeric", "numeric"} THEN "numeric" ELSE "general_numeric"]
UniqueTypes ==
  [name \in {"unique-numeric", "numeric", "unique-general-numeric", "general-numeric"} |->
    IF name \in {"unique-numeric", "numeric"} THEN "numeric" ELSE "general_numeric"]

(* The options of the regular expressions that it adds and removes.        *)
AddsRe ==
  [name \in {"multiline", "ignore-case", "utf", "utf-allow-invalid", "regex"} |->
    CASE name = "ignore-case" -> {"caseless"}
      [] name = "utf-allow-invalid" -> {"match_invalid_utf"}
      [] name = "regex" -> {}
      [] OTHER -> {name}]
RemovesRe(name) == IF name \in {"multiline", "regex"} THEN {"literal"} ELSE {}

(* The number that it sets.                                                *)
SizeOf ==
  [name \in {"buf-size", "buf-size-frag", "max-lookbehind", "read"} |->
    CASE name = "buf-size" -> "buf_size" [] name = "buf-size-frag" -> "buf_size_frag"
      [] name = "max-lookbehind" -> "max_lookbehind" [] name = "read" -> "bytes_to_read"]

NewLine == 10
Dash == 45

(* A word as the user typed it, but for the name of an option.             *)
AsTyped(w) == (IF w.name = "positional" THEN <<>> ELSE <<Dash>>) \o FlattenSeq(w.arg)

Missing == {}    \* what may be missing is a set of at most one

ReOptions == {"literal", "multiline", "caseless", "utf", "match_invalid_utf"}

(* The texts on the command lines.                                         *)
Texts ==
  {<<0>>, <<NewLine>>}
    \cup UNION {UNION {ToSet(line[i].arg) : i \in DOMAIN line} : line \in CommandLines}

(* PCRE2 gives the lookbehind in an uint32_t.                              *)
ASSUME LookbehindAssumption ==
  \A text \in Texts, options \in SUBSET ReOptions : MaxLookbehind(text, options) \in 0..UINT32_MAX

Accepted == {"returned", "yes", "no", "hint"}
Phases == {"parsing", "compiling", "defaults", "checking", "failed", "shown"} \cup Accepted

Init ==
  /\ argv \in CommandLines
  /\ optind = 1
  /\ ret = [flags |-> {}, sort_type |-> "lexicographical", unique_type |-> "lexicographical",
            out_start |-> NoLimit, out_end |-> NoLimit, tail |-> FALSE,
            sizes |-> [buf_size |-> BUF_SIZE_DEFAULT, buf_size_frag |-> SIZE_MAX,
                       max_lookbehind |-> UINT32_MAX, bytes_to_read |-> SIZE_MAX],
            out_delimiter |-> <<NewLine>>, bout_delimiter |-> <<>>,
            in_byte_delimiter |-> FALSE, ordered_ops |-> <<>>]
  /\ uncompiled = [re_options |-> {"literal"}, ordered_ops |-> <<>>,
                   primary |-> Missing, field |-> Missing,
                   tail_start |-> NoLimit, tail_end |-> NoLimit, bout_delimiter_set |-> FALSE]
  /\ arg_has_errors = FALSE
  /\ phase = "parsing"
  /\ seen = <<>>

-------------------------------------------------------------------------------
(* The loop over the options.                                              *)

word == argv[optind]

Reads(names) == phase = "parsing" /\ optind <= Len(argv) /\ word.name \in names

(* The option takes n more words, and is wrong or not.                     *)
Consume(n, args, wrong) ==
  /\ optind' = optind + 1 + n
  /\ seen' = Append(seen, [name |-> word.name, arg |-> args])
  /\ arg_has_errors' = (arg_has_errors \/ wrong)
  /\ UNCHANGED <<argv, phase>>

SetFlags ==
  /\ Reads(DOMAIN Turns)
  /\ ret' = [ret EXCEPT
       !.flags = @ \cup Turns[word.name],
       !.sort_type = IF word.name \in DOMAIN SortTypes THEN SortTypes[word.name] ELSE @,
       !.unique_type = IF word.name \in DOMAIN UniqueTypes THEN UniqueTypes[word.name] ELSE @]
  /\ Consume(0, <<>>, FALSE) /\ UNCHANGED uncompiled

SetReOptions ==
  /\ Reads(DOMAIN AddsRe)
  /\ uncompiled' = [uncompiled EXCEPT
       !.re_options = (@ \ RemovesRe(word.name)) \cup AddsRe[word.name]]
  /\ Consume(0, <<>>, FALSE) /\ UNCHANGED ret

(* 0 is not a size, and the largest number stands for none.                *)
ParseSize(name, text) ==
  CASE name = "buf-size" -> ParseNumber(text, SIZE_MAX, FALSE, TRUE)
    [] name = "buf-size-frag" -> ParseNumber(text, SIZE_MAX, TRUE, FALSE)
    [] name = "max-lookbehind" -> ParseNumber(text, UINT32_MAX, TRUE, FALSE)
    [] name = "read" -> ParseNumber(text, SIZE_MAX, FALSE, FALSE)

SetSize ==
  /\ Reads(DOMAIN SizeOf)
  /\ LET n == ParseSize(word.name, Head(word.arg))
     IN /\ ret' = [ret EXCEPT !.sizes[SizeOf[word.name]] = Number(n)]
        /\ Consume(0, word.arg, n = NoNumber \/ (word.name = "buf-size" /\ n > MAX_BUF_SIZE))
  /\ UNCHANGED uncompiled

(* OPTIONAL_ARGUMENT_IS_PRESENT.  The only positional argument that begins *)
(* with a dash is the dash.                                                *)
TakesNext ==
  /\ word.arg = <<>> /\ optind < Len(argv)
  /\ argv[optind + 1].name = "positional" /\ argv[optind + 1].arg # <<<<Dash>>>>
OptionalArg == IF TakesNext THEN argv[optind + 1].arg ELSE word.arg
Taken == IF TakesNext THEN 1 ELSE 0

(* A start that an earlier one has set stays when only an end is given.    *)
Ranged(start, pair) == IF pair.second # NoLimit THEN pair.first ELSE start
RangeEnd(pair) == IF pair.second # NoLimit THEN pair.second ELSE pair.first

Added(op) == [uncompiled EXCEPT !.ordered_ops = Append(@, op)]

SetRange ==
  /\ Reads({"head", "out", "tail"})
  /\ LET pair == IF OptionalArg = <<>> THEN [first |-> 10, second |-> NoLimit, failed |-> FALSE]
                 ELSE ParseNumberPair(Head(OptionalArg), SIZE_MAX)
     IN /\ \/ /\ word.name = "head"
              /\ uncompiled' = Added(Ops!InLimitOp(Ranged(NoLimit, pair), RangeEnd(pair)))
              /\ UNCHANGED ret
           \/ /\ word.name = "out"
              /\ ret' = [ret EXCEPT !.out_start = Ranged(@, pair), !.out_end = RangeEnd(pair)]
              /\ UNCHANGED uncompiled
           \/ /\ word.name = "tail"
              /\ uncompiled' = [uncompiled EXCEPT !.tail_start = Ranged(@, pair),
                                                  !.tail_end = RangeEnd(pair)]
              /\ UNCHANGED ret
        /\ Consume(Taken, OptionalArg, pair.failed)

Before == <<98>>

AddIndex ==
  /\ Reads({"index"})
  /\ LET wrong == OptionalArg # <<>> /\ Head(OptionalArg) \notin Alignments
     IN /\ uncompiled' = Added(Ops!IndexOp(IF OptionalArg = <<>> \/ wrong THEN Before
                                           ELSE Head(OptionalArg)))
        /\ Consume(Taken, OptionalArg, wrong)
  /\ UNCHANGED ret

AddFilter ==
  /\ Reads({"filter", "rm"})
  /\ uncompiled' = Added(IF word.name = "filter" THEN Ops!FilterOp(Head(word.arg))
                                                 ELSE Ops!RmOp(Head(word.arg)))
  /\ Consume(0, word.arg, FALSE) /\ UNCHANGED ret

AddTuiSelect ==
  /\ Reads({"tui-select"})
  /\ uncompiled' = Added(Ops!TuiSelectOp(Head(word.arg)))
  /\ ret' = [ret EXCEPT !.flags = @ \cup {"tui"}]
  /\ Consume(0, word.arg, FALSE)

(* The target of --sub is the word before the next, as it was typed: the   *)
(* option itself if its argument was attached.                             *)
SubTakes == IF word.arg = <<>> THEN 2 ELSE 1

AddSub ==
  /\ Reads({"sub"})
  /\ LET last == optind + SubTakes
     IN IF last > Len(argv)
        THEN Consume(Len(argv) - optind, word.arg, TRUE) /\ UNCHANGED uncompiled
        ELSE /\ uncompiled' = Added(Ops!SubOp(AsTyped(argv[last - 1]), AsTyped(argv[last])))
             /\ Consume(SubTakes, <<AsTyped(argv[last - 1]), AsTyped(argv[last])>>, FALSE)
  /\ UNCHANGED ret

EditsBefore_Sub(ops) == \E i \in DOMAIN ops : ops[i].kind = "sub"

EditsBefore(ops) == \E i \in DOMAIN ops : ops[i].kind \notin {"remove", "filter", "head"}

AddReplace ==
  /\ Reads({"replace"})
  /\ uncompiled' = Added(Ops!ReplaceOp(Head(word.arg)))
  /\ Consume(0, word.arg, EditsBefore(uncompiled.ordered_ops)) /\ UNCHANGED ret

(* A positional argument after another one or --null is an error, --null   *)
(* after a positional argument takes its place.                            *)
Positional ==
  /\ Reads({"positional", "null"})
  /\ uncompiled' = [uncompiled EXCEPT
       !.primary = {IF word.name = "null" THEN <<0>> ELSE Head(word.arg)}]
  /\ Consume(0, word.arg, word.name = "positional" /\ uncompiled.primary # Missing)
  /\ UNCHANGED ret

SetDelimiter ==
  /\ Reads({"output-delimiter", "print0", "batch-delimiter", "batch-print0"})
  /\ LET text == IF word.arg = <<>> THEN <<0>> ELSE Head(word.arg)
     IN IF word.name \in {"output-delimiter", "print0"}
        THEN ret' = [ret EXCEPT !.out_delimiter = text] /\ UNCHANGED uncompiled
        ELSE /\ ret' = [ret EXCEPT !.bout_delimiter = text]
             /\ uncompiled' = [uncompiled EXCEPT !.bout_delimiter_set = TRUE]
  /\ Consume(0, word.arg, FALSE)

SetField ==
  /\ Reads({"field"})
  /\ uncompiled' = [uncompiled EXCEPT !.field = {Head(word.arg)}]
  /\ Consume(0, word.arg, FALSE) /\ UNCHANGED ret

(* What getopt_long returns for an unknown option and for one without its  *)
(* argument.                                                               *)
WrongOption ==
  /\ Reads({"?", ":"})
  /\ Consume(0, word.arg, TRUE)
  /\ UNCHANGED <<ret, uncompiled>>

(* The values of these are not modelled.                                   *)
SetPrompt ==
  /\ Reads({"prompt"})
  /\ Consume(0, word.arg, FALSE)
  /\ UNCHANGED <<ret, uncompiled>>

OtherOption ==
  /\ Reads({"locale", "load-factor"})
  /\ Consume(0, word.arg, word.name = "load-factor" /\ Head(word.arg) \notin LoadFactors)
  /\ UNCHANGED <<ret, uncompiled>>

(* These print something and exit, whatever is wrong so far.               *)
Show ==
  /\ Reads({"help", "version", "auto-completion-strings"})
  /\ phase' = "shown"
  /\ UNCHANGED <<argv, optind, ret, uncompiled, arg_has_errors, seen>>

-------------------------------------------------------------------------------
(* After the loop.                                                         *)

Is(flag) == flag \in ret.flags
NeedsMatch == \E i \in DOMAIN uncompiled.ordered_ops : uncompiled.ordered_ops[i].kind = "replace"

EndOfOptions ==
  /\ phase = "parsing" /\ optind > Len(argv)
  /\ ret' = IF uncompiled.bout_delimiter_set THEN ret
            ELSE [ret EXCEPT !.bout_delimiter = ret.out_delimiter]
  /\ uncompiled' = IF uncompiled.primary # Missing THEN uncompiled
                   ELSE [uncompiled EXCEPT !.primary = {<<NewLine>>}]
  /\ arg_has_errors' = \/ arg_has_errors
                       \/ uncompiled.primary = Missing /\ Is("match")
                       \/ ~Is("match") /\ NeedsMatch
  /\ phase' = IF arg_has_errors' THEN "failed" ELSE "compiling"
  /\ UNCHANGED <<argv, optind, seen>>

(* The single byte delimiter that needs no PCRE2: any byte of a literal,   *)
(* in a pattern one that is known to stand for itself.                     *)
PlainBytes == {0, NewLine} \cup DigitChars \cup 65..90 \cup 97..122

InByteDelimiter_Matched(primary) ==
  Len(primary) = 1 /\ "literal" \in uncompiled.re_options /\ "caseless" \notin uncompiled.re_options

InByteDelimiter(primary) ==
  /\ ~Is("match") /\ Len(primary) = 1 /\ "caseless" \notin uncompiled.re_options
  /\ "literal" \in uncompiled.re_options \/ primary[1] \in PlainBytes

(* Every pattern inherits the options, but --field is never literal.       *)
AllCompile ==
  LET ops == uncompiled.ordered_ops
  IN /\ \A i \in DOMAIN ops : ops[i].kind \in {"remove", "filter", "sub", "tui_select"} =>
          Compiles(ops[i].matches, uncompiled.re_options)
     /\ \A p \in uncompiled.primary : InByteDelimiter(p) \/ Compiles(p, uncompiled.re_options)
     /\ \A f \in uncompiled.field : Compiles(f, uncompiled.re_options \ {"literal"})

CompileAll ==
  /\ phase = "compiling"
  /\ IF AllCompile
     THEN /\ ret' = [ret EXCEPT !.ordered_ops = uncompiled.ordered_ops,
                                !.in_byte_delimiter = \E p \in uncompiled.primary : InByteDelimiter(p)]
          /\ phase' = "defaults"
     ELSE phase' = "failed" /\ UNCHANGED ret
  /\ UNCHANGED <<argv, optind, uncompiled, arg_has_errors, seen>>

(* UncompiledCodes::compile does the rest of what Options!Compile does.    *)
CommandLine ==
  [sort |-> Is("sort"), sort_reverse |-> Is("sort_reverse"), sort_stable |-> Is("sort_stable"),
   unique |-> Is("unique"), same_type |-> ret.unique_type = ret.sort_type,
   flip |-> Is("flip"), tui |-> Is("tui"), sed |-> Is("sed"),
   truncate_no_bound |-> Is("truncate_no_bound"),
   out_start |-> ret.out_start, out_end |-> ret.out_end,
   tail_start |-> uncompiled.tail_start, tail_end |-> uncompiled.tail_end,
   delimit_not_at_end |-> Is("delimit_not_at_end"), delimit_on_empty |-> Is("delimit_on_empty")]

(* What PCRE2 says of the positional argument.  An invalid-utf pattern is  *)
(* an utf pattern.                                                         *)
HasPattern == ~ret.in_byte_delimiter
Pattern == CHOOSE p \in uncompiled.primary : TRUE
IsUtf == uncompiled.re_options \cap {"utf", "match_invalid_utf"} # {}
Lookbehind == IF HasPattern THEN MaxLookbehind(Pattern, uncompiled.re_options) ELSE 0

InBytes_Characters(n) == n

InBytes(n) == IF HasPattern /\ IsUtf THEN MulOverflow(n, MAX_BYTES_PER_CHARACTER, UINT32_MAX) ELSE n

FillDefaults ==
  /\ phase = "defaults"
  /\ LET given == ret.sizes
         lookbehind == InBytes(IF given.max_lookbehind = UINT32_MAX THEN Lookbehind
                               ELSE given.max_lookbehind)
         frag == IF given.buf_size_frag = SIZE_MAX THEN MulOverflow(given.buf_size, 8, SIZE_MAX)
                 ELSE given.buf_size_frag
     IN IF lookbehind = NoNumber \/ frag = NoNumber THEN phase' = "failed" /\ UNCHANGED ret
        ELSE /\ ret' = [ret EXCEPT
                  !.sizes = [buf_size |-> given.buf_size, buf_size_frag |-> frag,
                             max_lookbehind |-> lookbehind,
                             bytes_to_read |-> IF given.bytes_to_read = SIZE_MAX
                                               THEN given.buf_size ELSE given.bytes_to_read]]
             /\ phase' = "checking"
  /\ UNCHANGED <<argv, optind, uncompiled, arg_has_errors, seen>>

(* The pattern could not match in the buffer, or --sed would have to store *)
(* tokens.                                                                 *)
MinLength ==
  (MinMatchLength(Pattern, uncompiled.re_options) * (IF IsUtf THEN MAX_BYTES_PER_CHARACTER ELSE 1))
    % (UINT32_MAX + 1)
Senseless_SedAllowed == HasPattern /\ MinLength > ret.sizes.buf_size

Senseless ==
  \/ HasPattern /\ MinLength > ret.sizes.buf_size
  \/ Is("sed") /\ ~IsDirectOutput(Compile(CommandLine))

(* The input may be a terminal, on which the program does not wait.        *)
Check ==
  /\ phase = "checking"
  /\ phase' \in IF Senseless THEN {"failed"}
                ELSE IF Is("is_bounded_query")
                THEN {IF MemIsBounded(Compile(CommandLine)) THEN "yes" ELSE "no"}
                ELSE {"hint", "returned"}
  /\ UNCHANGED <<argv, optind, ret, uncompiled, arg_has_errors, seen>>

Terminated ==
  /\ phase \in {"failed", "shown"} \cup Accepted
  /\ UNCHANGED vars

Next ==
  \/ SetFlags \/ SetReOptions \/ SetSize \/ SetRange \/ AddIndex \/ AddFilter \/ AddTuiSelect
  \/ AddSub \/ AddReplace \/ Positional \/ SetDelimiter \/ SetField \/ WrongOption \/ SetPrompt
  \/ OtherOption \/ Show
  \/ EndOfOptions \/ CompileAll \/ FillDefaults \/ Check
  \/ Terminated

Spec == Init /\ [][Next]_vars

-------------------------------------------------------------------------------
(* Properties.                                                             *)

FlagSet == UNION {Turns[n] : n \in DOMAIN Turns}
Comparisons == {"lexicographical", "numeric", "general_numeric"}

TypeOK ==
  /\ optind \in 1..Len(argv) + 1
  /\ ret.flags \subseteq FlagSet
  /\ {ret.sort_type, ret.unique_type} \subseteq Comparisons
  /\ {ret.out_start, ret.out_end, uncompiled.tail_start, uncompiled.tail_end}
       \subseteq (0..SIZE_MAX) \cup {NoLimit}
  /\ ret.sizes \in [buf_size : 0..SIZE_MAX, buf_size_frag : 0..SIZE_MAX,
                    max_lookbehind : 0..UINT32_MAX, bytes_to_read : 0..SIZE_MAX]
  /\ uncompiled.re_options \subseteq ReOptions
  /\ \A l \in {ret.ordered_ops, uncompiled.ordered_ops} :
       \A i \in DOMAIN l : l[i].kind \in Ops!OpKinds
  /\ Cardinality(uncompiled.primary) <= 1 /\ Cardinality(uncompiled.field) <= 1
  /\ {ret.in_byte_delimiter, arg_has_errors} \subseteq BOOLEAN
  /\ phase \in Phases

(* What was written.                                                       *)
Places(names) == {i \in DOMAIN seen : seen[i].name \in names}
Written(i) == Head(seen[i].arg)
Decimal(text) == FoldLeft(LAMBDA n, ch : 10 * n + (ch - Zero), 0, BeforeComma(text))
IsNumber(text, least, most) ==
  /\ \A i \in DOMAIN BeforeComma(text) : text[i] \in DigitChars
  /\ Decimal(text) \in least..most
IsRange(text) ==
  /\ IsNumber(text, 0, SIZE_MAX)
  /\ CommaAt(text) # 0 => IsNumber(AfterComma(text), 0, SIZE_MAX)

(* One option by itself is wrong, or after the others before it.           *)
WrongAt(i) ==
  LET name == seen[i].name
  IN \/ name \in {"?", ":"}
     \/ name = "buf-size" /\ ~IsNumber(Written(i), 1, MAX_BUF_SIZE)
     \/ name = "buf-size-frag" /\ ~IsNumber(Written(i), 0, SIZE_MAX - 1)
     \/ name = "max-lookbehind" /\ ~IsNumber(Written(i), 0, UINT32_MAX - 1)
     \/ name = "read" /\ ~IsNumber(Written(i), 1, SIZE_MAX - 1)
     \/ name \in {"head", "out", "tail"} /\ seen[i].arg # <<>> /\ ~IsRange(Written(i))
     \/ name = "index" /\ seen[i].arg # <<>> /\ Written(i) \notin Alignments
     \/ name = "load-factor" /\ Written(i) \notin LoadFactors
     \/ name = "sub" /\ Len(seen[i].arg) < 2
     \/ name = "positional" /\ \E j \in Places({"positional", "null"}) : j < i
     \/ name = "replace" /\ \E j \in Places({"sub", "replace", "index", "tui-select"}) : j < i

(* Errors do not depend on the order of the options but for the positional *)
(* arguments and --replace, and none is forgotten when others follow: a    *)
(* number that does not fit, an argument that is missing or not one of     *)
(* those allowed, --match without a pattern, --replace without --match.    *)
(* "rather than stopping on error, continue to parse all the arguments and *)
(* show all errors" (handle_args).                                         *)
ErrorsReported ==
  phase \notin {"parsing", "shown"} =>
    (arg_has_errors <=>
       \/ \E i \in DOMAIN seen : WrongAt(i)
       \/ Places({"match", "sed"}) # {} /\ Places({"positional", "null"}) = {}
       \/ Places({"replace"}) # {} /\ Places({"match", "sed"}) = {})

(* What is accepted is what the rest of the program takes for granted: the *)
(* collector (Options), the pipeline (OrderedOps), and the tokenizer,      *)
(* which has one of a delimiter byte and a pattern, room to read, and      *)
(* never more between two characters than a size_t holds.                  *)
FitsTheRest ==
  phase \in Accepted =>
    /\ Consistent(CommandLine)
    /\ Ops!LegalOps(ret.ordered_ops)
    /\ \A i \in DOMAIN ret.ordered_ops :
         /\ ret.ordered_ops[i].kind = "tui_select" => Is("tui")
         /\ ret.ordered_ops[i].kind = "replace" => Is("match")
    /\ ret.in_byte_delimiter => ~Is("match")
    /\ HasPattern => Compiles(Pattern, uncompiled.re_options)
    /\ ret.sizes.buf_size \in 1..SIZE_MAX /\ ret.sizes.bytes_to_read \in 1..SIZE_MAX

(* A size is what was written last, or the default that follows from the   *)
(* others wherever they were given; a lookbehind is turned into bytes, and *)
(* never wraps.  The range of --out and that of --tail end where the last  *)
(* option of that name says, at 10 if it says nothing, and one that gives  *)
(* no start leaves the start of an earlier one.                            *)
LastOf(names, default) ==
  IF Places(names) = {} THEN default ELSE Decimal(Written(Max(Places(names))))
BytesPerCharacter ==
  IF HasPattern /\ Places({"utf", "utf-allow-invalid"}) # {} THEN MAX_BYTES_PER_CHARACTER ELSE 1
WithRange(name) == {i \in Places({name}) : seen[i].arg # <<>> /\ CommaAt(Written(i)) # 0}
StartWritten(name) ==
  IF WithRange(name) = {} THEN NoLimit ELSE Decimal(Written(Max(WithRange(name))))
EndIn(arg) ==
  IF arg = <<>> THEN 10
  ELSE Decimal(IF CommaAt(Head(arg)) = 0 THEN Head(arg) ELSE AfterComma(Head(arg)))
EndWritten(name) ==
  IF Places({name}) = {} THEN NoLimit ELSE EndIn(seen[Max(Places({name}))].arg)

NumbersAsWritten ==
  phase \in Accepted =>
    LET buf_size == LastOf({"buf-size"}, BUF_SIZE_DEFAULT)
    IN /\ ret.sizes =
            [buf_size |-> buf_size,
             buf_size_frag |-> LastOf({"buf-size-frag"}, 8 * buf_size),
             bytes_to_read |-> LastOf({"read"}, buf_size),
             max_lookbehind |-> BytesPerCharacter * LastOf({"max-lookbehind"}, Lookbehind)]
       /\ ret.out_start = StartWritten("out") /\ ret.out_end = EndWritten("out")
       /\ uncompiled.tail_start = StartWritten("tail") /\ uncompiled.tail_end = EndWritten("tail")
===============================================================================
