# choose, modelled

`choose` reads text, splits it into tokens with a regular expression or a
delimiter byte, sends the tokens through a list of operations, keeps, sorts or
drops them, and writes them out or lets the user pick some in an ncurses tui.
This directory holds TLA+ models of what the program does between its input and
its output, the TLC runs that check them and the proofs of what was proved
about them. Paths below are relative to the repository (`src/token.hpp` is
`src/src/token.hpp` in `PROJECT.json`, whose sources all begin with `src/`).

## 1. The system

The program is one thread. `main` parses the arguments, calls `create_tokens`
(which exits the program itself, by throwing `termination_request`, when there
is no tui) and runs the tui on what that returns. The only thing that happens
concurrently is SIGINT, whose handler sets a flag. What makes the code hard is
not threads: the input comes in pieces of any size, the buffers are small and
are shifted, cleared and cut in several places, and one function, `process_token`,
serves every combination of some thirty options, each with its own shortcut.

| component | code | state | operations | what would be correct |
|---|---|---|---|---|
| match buffer and tokenizer | `create_tokens`, token.hpp 226-256, 578-832; `str::get_bytes*` | `subject`, `match_offset`, `prev_sep_end`, `input_done`, `PCRE2_NOTEMPTY_ATSTART`, the fragment buffer | read, find, shift, clear, put aside a fragment, end | the tokens do not depend on how the input arrives or what was shifted; nothing is copied twice or lost; no character is cut; the loop ends |
| utf8 boundaries | `utf8::`, string_utils.hpp 331-403 | none | where a character begins or is complete | as above |
| regex wrapper | regex.hpp | none | match, groups, substitute, compile | PCRE2 is external |
| ordered operations | ordered_op.hpp; `process_token` 461-521 | the counters of `--head` and `--index`; `initial_selected_token` | apply each to one token | the same as applying each to the whole list |
| collector | `check_unique_then_append`, 334-459; the end of `create_tokens`, 833-912 | `output`, the uniqueness set | store, insert, drop, sort, truncate, flip | the options' promise, in bounded memory where it can be |
| token output stream | `TokenOutputStream`, 102-182 | `out_count`, `has_written`, `delimit_required` | write a token, write a fragment, finish | delimiters between tokens and nowhere else, one batch delimiter if asked for |
| tui | `UIState`, `main`, main.cpp 56-523 | cursor, scroll, window heights, selections, `sigint_occurred` | layout, keys, confirmation, leaving | the cursor is visible; what is confirmed is what was picked; ncurses is left once, before anything is written |
| batch output | `BatchOutputStream`, main.cpp 18-54; `QueuedOutput`, string_utils.hpp 277-302 | first in batch, first batch, the queue | write, finish a batch, finish, flush | the batches, delimited, at every exit |
| arguments | `handle_args`, args.hpp 506-1036; numeric_utils.hpp | `Arguments`, `UncompiledCodes` | read an option, compile, fill in defaults, refuse | every error is reported, every number is as written, and the combinations accepted are those the rest relies on |
| numeric comparison | algo_utils.hpp 48-496 | none | compare, equal, hash | a strict weak order that agrees with equality and hash |
| prompt wrapping | `create_prompt_lines`, string_utils.hpp 142-262 | the room left in a line, the lines so far | break into lines, at every resize | every character once, no line too wide, no word cut that fits |
| ncurses wrapper | ncurses_wrapper.hpp | none | errors to exceptions | - |

How they interact: the tokenizer calls `process_token` with a piece of its
buffer and may be told to stop (`--head`, `--out`); a token that is too large
reaches it as fragments first (`process_fragment`). `process_token` runs the
operations and hands what is left to the collector or straight to the output
stream; an operation that only edits may be left to the stream (`direct_apply`).
The collector decides when the result is complete. The tui gets the vector by
value and shares nothing with what came before except the arguments.

`PROJECT.json` lists what can go wrong here, line by line, under `hazards`.

## 2. Modules

```
 Options <- Numbers <- Arguments (Ops == INSTANCE OrderedOps)   <- MCArguments
                       Arguments, SequenceLemmas                <- ArgumentsProofs
 Utf8 <- Matcher <- Splitting <- Tokenizer                      <- MCTokenizer
                                 Tokenizer, SequenceLemmas      <- TokenizerProofs
 Options, TokenOutput <- Collector                              <- MCCollector
                Collector --KeepsPromise--> Selection     (refinement)
                Collector, SequenceLemmas                       <- CollectorProofs
 OrderedOps <- Pipeline  (C == INSTANCE Collector)              <- MCPipeline
               Pipeline, SequenceLemmas                         <- PipelineProofs
                                      (CP == INSTANCE CollectorProofs)
               Pipeline <- CreateTokens (T == INSTANCE Tokenizer) <- MCCreateTokens
 Numeric                                                        <- MCNumeric
 Numeric, SequenceLemmas                                        <- NumericProofs
 PromptWrap, Cursor, BatchOutput <- Tui                         <- MCTui
                                    Tui, SequenceLemmas         <- TuiProofs
 SequenceLemmas <- FoldLemmas   (an instance for each operation that is folded)
```

`A <- B`: B extends A.

**Options** is what the command line and the collector share: the options as
they were given (`OptionType`), how `--tail` turns into a reversed sort
(`Compile`, args.hpp 186-195), the predicates `IsDirectOutput`,
`TokensNotStored` and `MemIsBounded`, and `Consistent`, what the collector takes
for granted.

**Numbers**, **Arguments**. `Numbers` is numeric_utils.hpp with integers that
wrap at `max + 1`: overflow is noticed by the same divisions and comparisons as
in the code. `Arguments` is `handle_args`: one action per kind of option
(`SetFlags` for all that only switch something on, driven by the table `Turns`),
then `EndOfOptions`, `CompileAll`, `FillDefaults` and `Check`, which refuse for
one reason each. The command line is a sequence of words as `getopt_long`
returns them, which is external like PCRE2 (`Compiles`, `MaxLookbehind`,
`MinMatchLength`). `--sub` takes the words behind it as the user typed
them (`AsTyped`), and an option with an optional argument takes the next word if it
is positional and not a lone dash (`TakesNext`). `FitsTheRest` is the contract with the other modules: it says
`Consistent` of the collector's options and `LegalOps` of the pipeline's
operations, which are the assumptions of those modules.

**Numeric** is `numeric_compare` and `numeric_equal`: a call is a sequence of
steps, one per character, with two cursors into the texts and one phase per loop
of the code. Since the code leaves cursors one past the end, a position may be
there. `NumericHash` gives the characters that are mixed into the hash. The
properties are about texts of the format that the comment of the code promises
them for (`Documented`; algo_utils.hpp 246).

**PromptWrap** is `create_prompt_lines` as a fold over the characters of the
prompt; a character is its width and whether it is white space. `Tui` uses it
for the lines of the prompt on every resize (`PromptLines`, a table that TLC
computes once).

**TokenOutput** is `TokenOutputStream`: a record and one operator per method. A
token is abstracted to its arrival number, the bytes to items of five kinds.

**Collector** is everything behind the operations: the three ways of storing a
token
(`AppendUnbounded`, `InsertBounded`, `ShiftBounded`), and the end
(`EndTruncations`, `StartTruncated`, `Flipped`). One action per thing that
happens: `WriteFragment`, `CopyBetween`, `ForwardToken` and `StoreToken` are
`process_token` with direct output and without, `EndOfInput`, `Finalise`,
`WriteNext` and `Finish` what follows the loop. The hash table and the tree set
of `--unique` are one set, the classes in the vector: they hold just what the
vector holds. The sorts leave any order that their contract allows.

**Selection** is the abstract specification: tokens arrive, and a result the
options promise appears at once, when nothing that is to come could change it.
It says nothing of buffers, limits or when a token is dropped.
`KeepsPromise` is the refinement `Promise!SSpec`, with `result` mapped to what
the user gets.

**Utf8**, **Matcher**, **Splitting**, **Tokenizer**. `Matcher` is PCRE2 as far
as the loop relies on it (external): leftmost match, alternatives in order,
lookaround, hard partial matching, not-empty-at-start. `Splitting` is the
reference: the matches and tokens of an input that is all there. `Tokenizer` is
the loop: `Read` fills the buffer; `CompleteMatch` is a match; `MakeRoom`,
`ClearBuffer`, `FragmentAll`, `FragmentToken` are the four ways to go on without
one; `EndOfInput` is the last token. Bytes are model values with a `Length`.

**OrderedOps**, **Pipeline**. `OrderedOps` has the six operations as records and
`AfterOps`, what they do to one token, next to `Composed`, what they promise of
a list. `Pipeline` puts them in front of an instance of Collector and models
what the two share: `--head` ends the collector's input; the last editing
operation is applied on the output if tokens are not stored; `--tui-select`
takes its token from the end of the vector. A text is one of three values, and
`--index` leaves a mark, since digits and substitution belong to no property.

**CreateTokens** is create_tokens as a whole: it extends Pipeline, with the
Collector in it, and has the Tokenizer as an instance. `Advance` is a turn of the
loop, which leaves what it found in `handed`; the loop then waits until
`TokenHandled`, `FragmentHandled` and `BetweenHandled` have given each item to
`process_token` or the stream, one by one, and is left when `process_token` says
so. `CreateInit` relates the two sides as the code does: parts of a token may be
written at once only without operations and with tokens that are not stored
(`DirectFragments`), and both know of `--sed`. What Tokenizer leaves open, where
`process_token` ends the loop, is settled here.

**Cursor**, **BatchOutput**, **Tui**. `Cursor` is the arithmetic of
`apply_constraints`, `on_resize` and the movement keys. `BatchOutput` is the
writer and the queue, with `FullText`, what a list of batches should look like.
`Tui` is the loop: `Start`/`Draw`, the wait for a key (`Press`, `ResizeScreen`,
`Timeout`), `Interrupt` at any point, and one action per branch of
`handle_user_input`; a screen that is too small is a state of its own
(`locked`), which only `Unlock` leaves. `Wrote` is a write that may fail part of
the way, and `terminal` says whether ncurses captures what is written.

`MC*` modules only define the values of constants. `map` in `PROJECT.json`
relates every other definition to its lines.

## 3. Runs

All take two workers between a few seconds and four minutes.

| run | question | properties |
|---|---|---|
| collector_tokens | is the result the one the options promise, stored in bounded memory or without a bound, or written directly, and does it end in time? | TypeOK, SizeBound, NoDuplicates, LosesOnlyWorse, BoundedWindow, DelimitersSeparate, BatchAtEnd, KeepsPromise, StopsWhenSettled |
| collector_discarded_fragment | does `--out` discard all of a token? (no) | DiscardedNotWritten |
| tokenizer_loop | are tokens independent of reads and buffers, overlong ones replaced, every byte of `--sed` copied once, no character cut? | TypeOK, BufferBounds, TokensAsSplit, OverlongReplaced, SedCopiesInput, CharactersWhole |
| tokenizer_last_token | is an overlong last token replaced too? (no) | TokensCounted |
| pipeline_composed | do the operations compose, one token at a time? | TypeOK, OutputAsComposed, SelectsMatched, LosesNoToken |
| pipeline_select_sorted | does `--tui-select` find its token in a sorted vector? (no) | SelectsMatched |
| create_tokens | do loop, operations, collector and output together give what the options promise of the input, and come to an end? | WritesResult, EventuallyFinished |
| tui_loop | is the cursor visible and the prompt whole whatever is pressed and resized, and is what was picked what is written, on every way out? | TypeOK, CursorVisible, NoEmptyLines, PromptFits, PromptKept, OutputSoFar, OutputComplete, EndwinOnce, ConfirmsWhatWasPicked, WritesOutsideCurses, SigintExits |
| tui_hidden_above | does a larger window pull tokens down? (not if it has room for all) | NothingHiddenAbove |
| numeric_numbers | are texts compared as the numbers they stand for? | TypeOK, ReadsInside, ComparesValues, HashesAgree |
| numeric_units | is the order one for any text? (no) | Transitive |
| arguments | is what is accepted right, and what is wrong reported? | TypeOK, ErrorsReported, FitsTheRest, NumbersAsWritten |

What the less obvious ones say:

- `BoundedWindow`: while reading, the bounded vector is already the head (or the
  last part) of everything that arrived, sorted and made unique, although most
  of it has been thrown away. `LosesOnlyWorse` is the inductive form of it.
- `StopsWhenSettled`: reading stops at the very token after which no further one
  could change the result, neither before nor after.
- `TokensAsSplit`: the tokens so far are a prefix of those of the whole input
  matched at once, and all of them at the end, provided that the buffers have
  room for what the pattern needs (`HasRoom`). Of a pattern that may match the
  empty text, but need not, it asks less: no byte of a token and no match of some
  is lost, though empty matches may be (section 4).
- `SedCopiesInput`: at every moment what is written and what is still unwritten
  in the buffer are together exactly the input read, with any buffer at all.
- `BufferBounds`: there is room in the buffer before every read, so no read asks
  for 0 bytes, which would look like the end of the input.
- `OverlongReplaced`: tokens are never larger than `--buf-size-frag` allows, and
  still as many as in the input; one that fits is whole, and what is left of one
  that does not is what follows its last discarded part, so its end or nothing.
- `CharactersWhole`: in utf mode a character is cut by nothing, so that valid
  utf8 is never refused as invalid.
- `LosesNoToken`: when `--head` ends the input, no further token would have got
  through.
- `WritesResult`: the output (or the vector, for the tui) is a result that the
  options promise of the tokens that the operations leave of the whole input
  matched at once; with `--sed` it is the input with its matches edited. Fragments,
  stored and written, shifts, partial matches, operations and early ends all have
  to come out even. It holds with room in the buffer for what the pattern needs
  and for patterns that always or never match the empty text (`Searchable`); a
  fragment with a start of `--out` is left to `DiscardedNotWritten`.
- `EventuallyFinished`: for any input and pattern, also those that match nothing
  at all, the loop uses up the input or is left, and what follows it ends.
- `OutputSoFar`/`OutputComplete`: out and queue are the text of the confirmed
  batches; when a write fails the output is still a prefix of it.
- `PromptFits`, `PromptKept`: whatever the prompt and the screen, the lines drawn
  have all its visible characters in order, fit into the box, and end within a
  word only if the word alone is wider than the box: a wrap where the prompt has
  no white space (`Spaced`) is behind a line of that word only, which is full.
- `ComparesValues`: the result of every call is that of comparing two rational
  numbers, so on texts of the documented format `numeric_compare` is a strict
  weak ordering and `numeric_equal` its equivalence. `HashesAgree` is what the
  hash table of `--unique` needs besides.
- `ReadsInside`: cursors are allowed one place past the end and never further,
  and only where no loop reads before it looks.
- `ErrorsReported`: after the loop an error is known if and only if some option
  was wrong by itself or in its place, and no number of correct options after it
  makes the program forget.
- `NumbersAsWritten`: sizes in bytes are the last ones written, or follow from
  others that were, and none has wrapped on the way. The ranges of `--out` and
  `--tail` end where the last option of the name says, and start where the last
  one with a start says, which may be an earlier one (section 4).
- `LosesNoToken` says that `--head` never stops too soon. That it stops one token
  late is a known difference (section 4), and no property asks otherwise.
- `EndwinOnce`: a failing write finds ncurses left already (a confirmation that
  ends the tui, or quitting) or not (a batch of a tui that stays); `main` calls
  `endwin` only in the second case (`EndwinOnFailure`).

**Bounds, and why they are enough.** Collector: four tokens of two ranks, limits
from 0 to 3 with starts 0 and 1, two fragments of a token. Four tokens overflow
every limit, so each branch meets a vector below, at and beyond it, and two
ranks give equal and unequal neighbours on both sides of the insertion. All
option records the parser can produce are enumerated, but for those that only
rename something (`FewRanges` for the unbounded paths). Tokenizer: short inputs
of two letters, or of characters of one or two bytes, buffers of one to four
bytes and reads of two to four: every pattern straddles reads and fills buffers,
and a character of two bytes stands for those of up to four. The patterns have
words, alternatives, an empty word, and lookahead and lookbehind. Pipeline: four
tokens of three texts through up to three operations, so that a count beyond
every limit, and an operation before and after every other, occurs.

CreateTokens: all inputs of up to three letters, through four lists of
operations and fourteen sets of options, in each of the four modes; buffers of
one or two bytes, so that tokens are cut into fragments and matches into partial
matches, and limits below the number of tokens, so that the loop is left early.

Tui: arguments are of three kinds, each with what matters for it. Layout: 0 to 8
tokens in screens of 0 to 8 rows, without a prompt or with one that takes one
line or three, without a bound on the keys; `ScrollBorder` is then 0, 1 or 2.
Prompt: all prompts of up to four characters (narrow, wide, combining, blank,
newline) in screens of 0 to 6 columns, so that the box has from -2 to 4. Output:
no tokens or two, two batches with up to three toggles each.

Numeric: all texts of the format with up to four characters out of a sign, a
comma, `0`, `1` and a point; that has every combination of which text ends first
and where. Arguments: all command lines of up to four words (three for the
groups with many) of five groups of options that have to do with each other; a
`size_t` has 6 bits and a `uint32_t` 5, so that two digits overflow both.

**Fairness.** CreateTokens has weak fairness of `CreateNext` (and Tokenizer of
`Next`): one thread runs the loop, and a read returns as long as the input does. Tui has `WF_vars(Step)`: the program's
own steps, and the timeout of `wgetch`, which is finite (`wtimeout` with the
largest int). Nothing is assumed of the user or of resizes, so a screen that is
too small may lock the program for ever; `SigintExits` says so.

**Faulty variants.** A definition `Name_Defect` is `Name` with a plausible bug,
and no specification uses it. `mutants` in `PROJECT.json` relates each to the
property that fails when it replaces the original:

| variant | what goes wrong | property that fails |
|---|---|---|
| AtLimit_OneLate | the vector grows one beyond its limit | SizeBound |
| AtInsertion_NextOne | the duplicate is looked for on the wrong side | NoDuplicates |
| WithoutExcess_FrontLost | the wrong end falls off | LosesOnlyWorse |
| UpperBound_BeforeEquals | lower_bound for upper_bound | BoundedWindow |
| Turned_Never, CountsFromBack_Always | a sorted `--tail` is not turned, or twice | KeepsPromise |
| BeginDiscard_OneLate | the start of `--out` is off by one | KeepsPromise |
| WriteOutputNoTruncate_CountsDown | out_count runs the wrong way | TypeOK |
| WriteOutputFragment_KeepsPending | a delimiter inside a token | DelimitersSeparate |
| BatchRequired_WhenEmpty | `--delimit-on-empty` always | BatchAtEnd |
| OutputComplete_OneLate | direct output reads one token too many | StopsWhenSettled |
| Kept_DropsToken, RetainMarker_NoLookbehind, ScanEnd_PartialLost | the shift drops the token, the lookbehind, the partial match | TypeOK, TokensAsSplit |
| IsFull_Never | a full buffer is not noticed | BufferBounds |
| Merged_NoLimit | the limit of the fragment buffer is not applied to the last part | OverlongReplaced |
| HasLastToken_NotEmpty | `--use-delimiter` is forgotten at the end | OverlongReplaced |
| NotEmptyAfter_Never | an empty match repeats | WritesResult |
| DirectFragments_WithOps | a part of a token is written that an operation removes | WritesResult |
| SedUpTo_WholeBuffer | bytes are copied twice | SedCopiesInput |
| DecrementUntilCharacterStart_Never | the lookbehind begins inside a character | CharactersWhole |
| ClearedUpTo_All | an incomplete character is cleared | CharactersWhole |
| InputDone_NeedsBytes | a read of nothing is not the end | EventuallyFinished |
| Counted_Twice, Counted_PassedOnly | `--head` counts too much or too little | TypeOK, OutputAsComposed |
| LimitVerdict_DoneBelowLow | `--head=m,n` ends before its start | LosesNoToken |
| Selection_Front | the first token of the vector is selected | SelectsMatched |
| SelectionRows_Whole | a large prompt leaves no row | Tui's TypeOK |
| LoweredScroll_RowLate | the cursor may be one line below | CursorVisible |
| PulledDown_Never | a larger window is not filled | NoEmptyLines |
| FinishBatch_StaysWithin | the second batch begins with a delimiter | OutputSoFar |
| EndDelimited_Always, FlushOutput_KeepsQueue | the end delimiter, or the queue, at the wrong time | OutputComplete |
| ModeToWrite_NeverEnded, ModeToWrite_LeftAlone | ncurses is not left | EndwinOnce, WritesOutsideCurses |
| EndwinOnFailure_Always | after a failed write `endwin` is called a second time | EndwinOnce |
| KeptSelections_Always | selections survive a batch | ConfirmsWhatWasPicked |
| Leaves_OnKeyOnly | SIGINT is not looked at | SigintExits |
| NextLine_WordCut | a wrap cuts a word | PromptKept |
| NextLine_RoomKept | the room of a new line forgets the word moved to it | PromptFits |
| STR_END_Unsigned | the end of a string is not a char | Numeric's TypeOK |
| GetNext_PastEnd | the end is reached without being noticed | ReadsInside |
| TrimLeadingZeros_KeepsCommas, BothZero_Never, Swaps_Never, Longer_EndsFirst | leading commas, -0, negative numbers, numbers of equal length | ComparesValues |
| FractionHashed_WithDot | `1.` and `1` hash differently | HashesAgree |
| Number_Raw | a number that failed is used | Arguments' TypeOK |
| MulOverflow_Unchecked | overflow is not noticed | ErrorsReported |
| EditsBefore_Sub | `--replace` after `--index` is allowed | ErrorsReported |
| Senseless_SedAllowed | `--sed --sort` is allowed | FitsTheRest |
| InByteDelimiter_Matched | `--match` of one byte becomes a delimiter | FitsTheRest |
| InBytes_Characters | a lookbehind in characters is taken for bytes | NumbersAsWritten |

## 4. Where the code differs from its documentation

Five runs end with a violation, each a disagreement between the code and what
its comments or its help say (`findings`): fragments of a token that `--out`
discards are written; an overlong last token is left out rather than replaced by
an empty one; `--tui-select` with sorted insertion in bounded memory takes a
token it did not match; a window that becomes larger than all the tokens still
hides some above it; a character below `0` after a decimal point makes the
numeric order intransitive. The first four can be reproduced with the program,
the last with the functions of algo_utils.hpp.

Others met on the way, which the runs leave out through their constants or the
precondition of a property:

- `--stable --tail`: the sort is reversed and the result flipped, so that of
  equal tokens the first are kept, in reversed order (args.hpp 190). `MCCollector`
  leaves the combination out of `KeepsPromise`, and the theorem `KeepsItsPromise`
  has it as its hypothesis (`Promised`); all other theorems include it.
- `--sub=x y`: the target is the word before the replacement, so here all of
  `--sub=x`, not `x` (args.hpp 727). `AddSub` does so too.
- A negative lookbehind as delimiter: after a part of an overlong token was moved
  out of the buffer, the bytes kept only as lookbehind are scanned again with
  nothing behind them, and a delimiter is found that the input has not
  (token.hpp 802).
- A pattern that may match the empty text: the not-empty flag outlives the place
  it was about when the buffer is shifted, so that an empty match may be missed
  (token.hpp 646). `TokensAsSplit` therefore compares only the matches of some
  text, or with delimiters the bytes of all tokens; of `create_tokens`, `Searchable`
  leaves such patterns out.
- `--index` as the last operation, with direct output and a start of `--out`:
  counted from the first token that is written, elsewhere from the first that
  arrives (token.hpp 161).
- `--head=n` stops at token n + 1, not at n (ordered_op.hpp 74), though its help
  says "once n tokens have reached this point"; with an input that stays open
  the program waits.
- `--tui-select`: the help says the last match, the code keeps the first
  (token.hpp 480).
- Confirming in an empty tui writes no batch delimiter with
  `--delimit-on-empty`, quitting does (main.cpp 203); `OutputComplete` leaves it
  out.
- A SIGINT between the check of its flag and the next `wgetch` waits for a key,
  though the comment at main.cpp 169 calls it effective immediately; hence
  `SigintExits` relies on the timeout.
- `--out 5,9 --out 3` keeps the start of the first: tokens 5 to 3, that is none
  (args.hpp 644; `--tail` alike). `NumbersAsWritten` says so.
- A positional argument after `--null` is an error, `--null` after a positional
  argument replaces it silently (args.hpp 768).
- `1,2,3` is accepted as the pair 1 and 2: parse_number stops at a comma
  (numeric_utils.hpp 52).
- `--buf-size` is refused above 2048 although the default is larger, with the
  comment "will never happen" (args.hpp 688-694).
- `--head`, `--out`, `--tail` and `--index` without an argument take a positional
  argument that follows for theirs (args.hpp 501), unless it is a dash.
- A utf pattern is refused if its shortest match has more characters than a
  fourth of the buffer's bytes (args.hpp 1000), though narrow characters may fit.
- `1.1` and `.11` have the same hash: the decimal point has no place in it. That
  costs a collision and no more.
- A prompt with wide characters may go over the box by one column: the room of
  a new line is set before the blank at the wrap is dropped, and the word that is
  moved there is not measured again (string_utils.hpp 204). A newline at a wrap is
  dropped with the blanks, a combining character right after a wrap is kept and
  costs a column, and trailing blanks of the last line stay. `Fits` allows for
  the first; `PromptKept` speaks only of visible characters.

## 5. Proofs

TLAPS proves these for all values of the constants, under their assumptions
(named `ASSUME`s, which TLC evaluates in the runs).

**CollectorProofs**, from `KeysAssumption` (ranks are integers),
`OptionsAssumption` (a start comes with an end; `--sed` excludes what prevents
direct output) and `BoundsAssumption`. Four invariants, each resting on those
before it:

1. `Inv` is `TypeOK`, `SizeBound`, `NoDuplicates` and what they need: the bounded
   sorted vector is in order, and if `--sort` and `--unique` share their comparison,
   every token has one class for both. That is what makes looking at one neighbour
   of the insertion enough: equal ranks are adjacent (`InsertionDistinct`).
   `LosesOnlyWorse` is part of it, and is carried by `LostAfterArrival`: what falls
   off comes after a full vector that only improves.
2. `Traced`: what is held or written has arrived, and nothing is held twice.
   `OutputInv` says which end of the output is open: after a fragment the token it
   belongs to is the next to arrive, after a token a delimiter is due or everything
   so far is discarded (`Undiscarded` is empty).
3. `Window`: in bounded memory the vector is the head of the stably sorted first
   occurrences. `Ahead`, by rank and then by arrival, is a strict order, of which
   every set of tokens has one arrangement only; a token that is inserted takes its
   place in that order, and one that does not enter has its place beyond the limit,
   also when it is a duplicate of a token that has fallen off. Direct output has
   counted the first occurrences and has not yet passed the end of `--out`.
4. `Delivery`: what the user was told so far is a range (`Part`) of the first
   occurrences, or of the vector while that is written, and the vector at the end is
   one that the sorts may leave (`Collected`). A partial sort leaves the beginning of
   some complete sort: the rest can be listed behind it (`OrderListed`, ranks in a
   strict order). The reversed order that `--tail` sorts by, turned at the end, is
   the order asked for.

The theorems:

- `TypeCorrect`, `BoundHolds`, `UniqueHolds`, `NothingBetterLost`:
  `Spec => []` of `TypeOK`, `SizeBound`, `NoDuplicates`, `LosesOnlyWorse`; they
  follow from `Invariance`.
- `NothingInvented`, `DelimitersHold`, `BatchHolds`: `Spec => []` of `Traced`,
  `DelimitersSeparate`, `BatchAtEnd`.
- `WindowIsWhatCounts`: `Spec => []BoundedWindow`. `StopsInTime`:
  `Spec => StopsWhenSettled`.
- `KeepsItsPromise`: `Spec => KeepsPromise`, the refinement of `Selection`, if no
  option record has `--tail`, `--sort` and `--stable` together. Every step is a
  `Take`, or the `Deliver` of a result the options promise, or a stutter.

**PipelineProofs**, from the assumptions of Pipeline; those about the collector's
options are what `AcceptedFits` (below) says of the arguments. A step of Pipeline is
a step of the collector or leaves it alone (`CollectorStep`), so that the theorems of
CollectorProofs hold for its instance. `PInv` says that the count of every operation
is that of the list it has seen (`CountsKept`), and that what was passed on is the
composition so far. Each operation does to a list with one more token what it does
to that token when it has counted the others (`OneMore` for one, `Extended` for all);
the tokens that are held or written are those that were passed on, by `Traced`.

- `TypeCorrect`, `ComposedHolds`: `Spec => []` of `TypeOK`, `OutputAsComposed`.
- `NothingLostByHead`: `Spec => LosesNoToken`.

**TokenizerProofs**, for every set of bytes, pattern, size of the buffers and input.
`Inv` is `TypeOK`, `BufferBounds` and three facts about the offsets: the delimiter
ends before the place where matching goes on, and that place is not beyond what may
be matched, now or after any further read (`OffsetsSeen`); only the last read comes
up short (`InputSeen`); with `--match` and `--sed` there is no token to remember
(`MatchesStandAlone`). Nothing is asked of the matcher but that its matches lie in
the subject and do not begin before the offset.

- `TypeCorrect`, `StaysInBuffer`, `NothingLostBySed`: `Spec => []` of `TypeOK`,
  `BufferBounds`, `SedCopiesInput`; the first two follow from `Invariance`.
- `TokensNeverTooLong`: `Spec => []TokenSizeLimited`, which is the part of
  `OverlongReplaced` about sizes.

**SequenceLemmas** has facts about the library's operators that its theorems lack
(`InsertAt`, `Tail`, `Reverse`, `SubSeq` and others, and `LeastElement`, which stands
in for induction), and that a strict order on a finite set lists it in one way
(`OrderListed`, `HeadUnique`). **FoldLemmas** says what `FoldLeft` gives for the empty sequence
and for one with an element more, for any operation; folds are thereby open to
proofs, one step at a time.

**NumericProofs**, for all texts of chars, also those out of the format. `Inv` is
`TypeOK`, `Inside` of both cursors, and that before the leading zeros are
trimmed and in the fractions a cursor is not even one past the end (`Within`):
those loops read before they look. `SkipToStops` says that the scans, which the
model states with CHOOSE, find a place (`LeastElement` of `SequenceLemmas`).

- `ReadsStayInside`, `CursorsTyped`: `Spec => []` of `ReadsInside`, `TypeOK`.

The rest of the module is about texts of the documented format, and shows for
numbers of any length what the run shows for texts of four characters. The number
of a text and its scale are folds, so each digit read makes one step of them
(`ValueSteps`, `PowerFacts`). `Judged` says what is known in each phase from what
the cursors have read (`ReadAlike`): the results so far are right; before the
points the two numbers read are the same; where one of two different numbers is
still to end, neither has a digit more than the other (`Related`), so a digit more
decides whatever it is; in the fractions both cursors are as many places behind
their points and have read the same. That the rest of a text cannot make up for a
difference is `WholeSplits` and `FractionSplits`: a number is what was read, shifted
by the places left, and a rest lower than one unit of that, which is 0 only if
nothing but zeros is left. `Hashed` adds that the digits found to be the same are
those that `numeric_hash` mixes (`HashAlike`): commas and leading zeros are not, and
of two equal fractions the last digit that is not 0 has the same place.

- `ComparesByValue`, `EqualsHashAlike`: `Spec => []` of `ComparesValues`,
  `HashesAgree`.

**ArgumentsProofs** has first the arithmetic of Numbers, for all operands and every
width of the integers: testing after the fact notices exactly the products and sums
that do not fit.

- `MulOverflowExact`, `AddOverflowExact`, and `DigitExact` of one step of
  `parse_number` (for integers that can hold 10).

Then it is about all command lines, sizes and answers of PCRE2. The parts of `Inv`: the records keep their fields (`Shape`); a start of a range never comes
without an end (`RangesWhole`); until an error is reported the operations read so
far are legal, and those that need an option have it (`OpsLegal`); sizes are in
range and not 0 (`SizesRead`); there is one of a delimiter byte and a compiled
pattern (`PatternKept`); what passed the last check is direct with `--sed`
(`SedDirect`). Three more invariants build on it: `Counted` says that the flags, the
operations and the errors known so far are those of the options seen so far, each
by itself or after the others; `Typed` adds the types; `Recorded` says of every size,
of the ranges of `--out` and `--tail`, and of `--utf`, that it is what was given last, or the value that stands
for none until the defaults are filled in after the loop. The assumptions are
`LimitsAssumption`, `WordsAssumption` and `LookbehindAssumption`, of the widths of
integers, of the words of a command line and of what PCRE2 answers. What
`parse_number` returns is not assumed: it is a fold of `DigitExact` over a text,
and the first place where a digit is wrong or the number too large decides
(`FoldLemmas` and `LeastElement`).

- `ParseNumberExact`, `ParseNumberPairExact`: for texts of any length and integers
  of any width that can hold 10, the number that is written, or an error.

- `AcceptedFits`: `Spec => []FitsTheRest`. So what the collector and the pipeline
  assume of their options and operations is not taken on trust: it is what the
  command line can produce.
- `AllErrorsReported`, `TypeCorrect`, `NumbersHold`: `Spec => []` of
  `ErrorsReported`, `TypeOK`, `NumbersAsWritten`.

**TuiProofs**, from the assumptions of Tui. First about `create_prompt_lines`, whose
fold keeps `Wraps`: every line fits (`Fitting`), and the room that is left is what
the last line has not used, but for one column where a wide character follows
dropped blanks, and is used up only in the first word of a line (`Counted`). The
blank before a word is what makes room for the character that moves the word to
the next line (`LastWordWidth`); that is why a line goes over by one column at most,
and only by a wide character. `PromptInv` says that what is drawn was wrapped for
this screen, since nothing is drawn between a resize and `on_resize`.

That no character is lost and no word cut needs another invariant of the fold
(`Kept`, of the lines so far and the number of characters read): the glyphs of the
lines are those that were read (`Told`); every finished line ends where the prompt
has white space or is full (`LinesEnd`); and white space in the last line is white
space of the prompt at the same number of glyphs (`SpacesTold`), which is what makes
it right to cut there. A word that is moved is put behind a line that ends at a blank;
a word that is cut has filled its line, because the room that is left is at least
what the columns leave beside the line (the last conjunct of `Kept`, which a
combining character right after a wrap breaks: hence `Plain`). The room after dropped blanks
is one column short of the columns, whatever was dropped, and the next character
takes at least that one.

- `PromptLinesFit`, and `PromptStaysInBox`: `Spec => []PromptFits`.
- `PromptWordsKept`, and `PromptKeepsWords`: `Spec => []PromptKept`.

`CursorInv` says that once a layout
was made there is at least one row, the cursor is on a token in the window if
there is one, the scroll is not negative, and a window that tokens can fill is
filled; while locked only the signs are known, since the window changed. The two
halves of `apply_constraints` have a lemma each (`RaisedAbove`, `LoweredInto`),
resting on the border being smaller than the window (`BorderFits`). A window of
one row is not special, and neither are page up and page down, which bypass the
constraints.

- `CursorStaysVisible`, `WindowStaysFilled`, `EndwinCalledOnce`: `Spec => []` of
  `CursorVisible`, `NoEmptyLines`, `EndwinOnce`, for all sizes, screens and keys.

`TypeInv` adds the types, that a batch begins with the stream between two batches
(`first_within_batch`), and that only a queue that was asked for is filled.
`OutputInv` says of the output while the tui runs that it `Pends`: written and
queued together are the text of the batches confirmed, and one of the two is empty.
A batch adds its lead and its text, token by token (`BatchWritten`); a write that
fails leaves a prefix of what it would have written (`WroteText`). `PickInv` relates
the selection to what was picked (`Tracks`): no token twice, those picked an odd
number of times, by their last pick. Erasing a token and appending it keep that
(`TracksToggled`), and there is only one way to list a set in an order (`OnlyOrder`),
so what the code appended, or sorted, is the list that was asked for.

- `TypeCorrect`, `OutputKeepsUp`, `OutputCompletes`: `Spec => []` of `TypeOK`,
  `OutputSoFar`, `OutputComplete`.
- `WritesAfterCurses`, `ConfirmsPicks`: `Spec =>` the action properties
  `WritesOutsideCurses`, `ConfirmsWhatWasPicked`.

Only model-checked:

- Liveness under fairness (`EventuallyFinished`, `SigintExits`), which the prover
  does not reach.
- What RECURSIVE operators and recursive functions of a text compute, which takes an
  induction over the text: `TokensAsSplit`, the parts of `OverlongReplaced` about
  the number of tokens and what is left of them, `CharactersWhole`, `WritesResult`.
- `SelectsMatched` holds only with the options of its run; with others it does not,
  as `pipeline_select_sorted` shows.

## 6. Plan

Done, in this order: TokenOutput, Collector and Selection; their proofs;
Utf8, Matcher, Splitting, Tokenizer; OrderedOps, Pipeline; Cursor, BatchOutput,
Tui; the proofs about the cursor and endwin; Numeric; Options, Numbers,
Arguments; PromptWrap; the proofs about the scans of Numeric, the arithmetic of
Numbers and what Arguments accepts; CreateTokens; the proofs about Tokenizer, the
output, the window and the refinement of Selection by Collector, Pipeline, and the
output and the selection of Tui; the proofs about parse_number, the errors, types
and numbers of Arguments; the proof that the prompt fits; the proofs that numbers are
compared, and hashed, by their values; the proof that wrapping loses nothing.

To come: an abstract picker that Tui implements (picks, batches, exit).

## 7. Not modelled, and why

- PCRE2 itself, and substitution: external, and a text is abstract.
- Read errors, memory exhaustion, and writes that fail outside the tui: they end
  the program with an exception and change no state that is used again.
- What is drawn, colours, the indicator column: layout without a property.
- General numeric comparison and hashing (algo_utils.hpp 48-96): what
  `from_chars` makes of a text is external, and the rest is one comparison of
  floats. A token `nan` is not ordered by it, and the hash of a negative number is
  a conversion without a defined result (algo_utils.hpp 92). How numeric_hash mixes characters into a number.
- The signed `parse_number` (numeric_utils.hpp 89-116): only the unit tests use it.
- What `--prompt`, `--locale` and `--load-factor` store, and the texts of `--help`,
  `--version` and error messages.
- A prompt that is no valid multibyte text, which ends the program with an
  exception.
- `unit tests`, `fuzz`, scripts and build files: not part of the program.
- 2^64 tokens (`out_count`) and iterators past the end (token.hpp 864): the
  counters are natural numbers, and a position is an index.
