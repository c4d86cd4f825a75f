------------------------------- MODULE Tokenizer ------------------------------
(***************************************************************************)
(* The loop of create_tokens (token.hpp) that reads the input into the     *)
(* match buffer, finds delimiters or matches in it, hands the tokens to    *)
(* process_token, and makes room: what no later match needs is shifted     *)
(* out, and when nothing may be the start of an overlong token is moved to *)
(* the fragment buffer, or the buffer is cleared as a match failure.       *)
(*                                                                         *)
(* What becomes of a token is Collector's subject.  Here process_token     *)
(* merges it with its fragments, and may end the loop after any token.     *)
(***************************************************************************)
EXTENDS Splitting

CONSTANTS Configs,   \* the argument records
          Inputs(_)  \* the inputs to be read under each

Modes == {"byte", "delimiter", "match", "sed"}

(* direct_fragments: no ordered operation, and tokens_not_stored.          *)
ConfigType ==
  [mode : Modes, pattern : Patterns, groups : BOOLEAN, max_lookbehind : Nat,
   allow_invalid : BOOLEAN, buf_size : Nat \ {0}, buf_size_frag : Nat, bytes_to_read : Nat \ {0},
   flush : BOOLEAN, use_input_delimiter : BOOLEAN, direct_fragments : BOOLEAN]

ASSUME InputsAssumption == \A c \in Configs : Inputs(c) \subseteq Seq(Bytes)

(* A delimiter byte is a pattern of one word of one byte; --max-lookbehind *)
(* may be given with it.                                                   *)
ASSUME ConfigsAssumption ==
  /\ Configs \subseteq ConfigType
  /\ \A c \in Configs :
       c.mode = "byte" =>
         /\ \E b \in Bytes : c.pattern.words = << <<b>> >>
         /\ c.pattern.behind = <<>> /\ c.pattern.ahead = <<>>
         /\ ~c.pattern.negative /\ ~c.pattern.utf

VARIABLES config,         \* the arguments; never changes
          input,          \* what will be read; never changes
          position,       \* how much of it has been
          subject,        \* the match buffer
          effective,      \* subject_effective_end
          input_done,
          match_offset,
          prev_sep_end,
          notempty,       \* PCRE2_NOTEMPTY_ATSTART is set in match_options
          fragment,       \* the fragment buffer
          output,         \* what process_token and the output were given
          phase

reading == <<position, input_done, effective>>
vars == <<config, input, position, subject, effective, input_done,
          match_offset, prev_sep_end, notempty, fragment, output, phase>>

IsMatch == config.mode \in {"match", "sed"}
IsSed == config.mode = "sed"
IsUtf == config.pattern.utf

(* "token" for what process_token passes on, "fragment" for the part of    *)
(* one written ahead of it, "between" for what --sed copies.               *)
Item(kind, text) == [kind |-> kind, text |-> text]
Items == [kind : {"token", "fragment", "between"}, text : Seq(Bytes)]

Smaller(m, n) == IF m < n THEN m ELSE n

-------------------------------------------------------------------------------
Init ==
  /\ config \in Configs
  /\ input \in Inputs(config)
  /\ position = 0
  /\ subject = <<>>
  /\ effective = 0
  /\ input_done = FALSE
  /\ match_offset = 0
  /\ prev_sep_end = 0
  /\ notempty = FALSE
  /\ fragment = <<>>
  /\ output = <<>>
  /\ phase = "reading"

(* get_bytes fails to fill its buffer only at the end of the input, while  *)
(* get_bytes_unbuffered returns what is there, and nothing at the end.     *)
BytesRead(wanted) ==
  LET most == Smaller(wanted, Len(input) - position)
  IN IF config.flush /\ most > 0 THEN 1..most ELSE {most}

InputDone_NeedsBytes(n, wanted) == IF config.flush THEN n = 0 ELSE n # wanted /\ n # 0

InputDone(n, wanted) == IF config.flush THEN n = 0 ELSE n # wanted

EffectiveEnd(s, done) ==
  LET whole == LastCompletedCharacterEnd(s, 0, Len(s))
  IN IF ~IsUtf \/ done \/ (whole = NoPosition /\ config.allow_invalid) THEN Len(s)
     ELSE whole

Read ==
  /\ phase = "reading"
  /\ LET wanted == Smaller(config.bytes_to_read, config.buf_size - Len(subject))
     IN \E n \in BytesRead(wanted) :
          /\ subject' = subject \o Span(input, position, position + n)
          /\ position' = position + n
          /\ input_done' = InputDone(n, wanted)
  /\ effective' = EffectiveEnd(subject', input_done')
  /\ phase' = IF effective' = NoPosition THEN "failed" ELSE "matching"
  /\ UNCHANGED <<config, input, match_offset, prev_sep_end, notempty, fragment, output>>

-------------------------------------------------------------------------------
(* Matching.                                                               *)

(* The result of the search, m below.  The delimiter byte is searched for  *)
(* from the end of the last one.                                           *)
Found ==
  IF config.mode = "byte"
  THEN Match(config.pattern, subject, prev_sep_end, FALSE, FALSE)
  ELSE Match(config.pattern, Span(subject, 0, effective), match_offset, notempty, ~input_done)

Merged_NoLimit(text) == fragment \o text

(* The start of process_token: a token whose fragments were put aside is   *)
(* put together, or is empty if that is too much.                          *)
Merged(text) ==
  IF fragment # <<>> /\ Len(fragment) + Len(text) > config.buf_size_frag
  THEN <<>> ELSE fragment \o text

(* With --match the match and its groups are tokens (one group that spans  *)
(* the match stands for them).                                             *)
TokensOf(m) ==
  LET text == Span(subject, m.begin, m.end)
  IN IF config.mode = "match" /\ config.groups THEN <<text, text>> ELSE <<text>>

Ended == phase' = "ended"
GoesOn == UNCHANGED phase

NotEmptyAfter_Never(m) == FALSE

NotEmptyAfter(m) == IF config.mode = "byte" THEN notempty ELSE m.begin = m.end

(* What process_token is given next, and whether it ends the loop.         *)
CompleteMatch(m) ==
  /\ m.kind = "complete"
  /\ notempty' = NotEmptyAfter(m)
  /\ IF IsMatch
     THEN LET before == Span(subject, match_offset, m.begin)
              copied == IF IsSed /\ before # <<>> THEN <<Item("between", before)>> ELSE <<>>
              tokens == TokensOf(m)
          IN /\ \E n \in 1..Len(tokens) :
                  /\ output' = output \o copied \o
                                 [i \in 1..n |-> Item("token", tokens[i])]
                  /\ Ended \/ (n = Len(tokens) /\ GoesOn)
             /\ UNCHANGED <<prev_sep_end, fragment>>
     ELSE /\ output' = Append(output, Item("token",
                              Merged(Span(subject, prev_sep_end, m.begin))))
          /\ fragment' = <<>>
          /\ prev_sep_end' = m.end
          /\ Ended \/ GoesOn
  /\ match_offset' = m.end
  /\ UNCHANGED <<config, input, subject, reading>>

-------------------------------------------------------------------------------
(* No complete match, but there is more input.                             *)

NeedsInput(m) == m.kind # "complete" /\ ~input_done

(* The first byte a later match can begin at.                              *)
ScanEnd_PartialLost(m) == effective

ScanEnd(m) == IF m.kind = "partial" THEN m.begin ELSE effective

(* The first byte a later match can look at (retain_marker).               *)
RetainMarker_NoLookbehind(m) == ScanEnd(m)

RetainMarker(m) ==
  LET looked == IF ScanEnd(m) < config.max_lookbehind THEN 0
                ELSE ScanEnd(m) - config.max_lookbehind
  IN IF IsUtf THEN DecrementUntilCharacterStart(subject, looked, 0, effective) ELSE looked

(* The first byte a later match or token needs (new_subject_begin).        *)
Kept_DropsToken(m) == RetainMarker(m)

Kept(m) == IF IsMatch THEN RetainMarker(m) ELSE Smaller(RetainMarker(m), prev_sep_end)

SedUpTo_WholeBuffer(from, to) ==
  IF IsSed /\ from < to THEN <<Item("between", Span(subject, 0, to))>> ELSE <<>>

(* --sed writes what the shift discards.                                   *)
SedUpTo(from, to) ==
  IF IsSed /\ from < to THEN <<Item("between", Span(subject, from, to))>> ELSE <<>>

IsFull_Never(m) == FALSE

IsFull(m) == Kept(m) = 0 /\ Len(subject) = config.buf_size

MakeRoom(m) ==
  /\ NeedsInput(m)
  /\ ~IsFull(m)
  /\ subject' = Span(subject, Kept(m), Len(subject))
  /\ match_offset' = ScanEnd(m) - Kept(m)
  /\ prev_sep_end' = IF IsMatch THEN prev_sep_end ELSE prev_sep_end - Kept(m)
  /\ output' = output \o SedUpTo(match_offset, ScanEnd(m))
  /\ phase' = "reading"
  /\ UNCHANGED <<config, input, reading, notempty, fragment>>

(* A character that is not complete at the end of a full buffer stays,     *)
(* unless it is all there is.                                              *)
ClearedUpTo_All == Len(subject)

ClearedUpTo == IF IsUtf /\ effective # 0 THEN effective ELSE Len(subject)

Cleared == Span(subject, ClearedUpTo, Len(subject))

(* The buffer is full of one partial match: it counts as a match failure.  *)
ClearBuffer(m) ==
  /\ NeedsInput(m)
  /\ IsFull(m)
  /\ IsMatch
  /\ subject' = Cleared
  /\ output' = output \o SedUpTo(match_offset, ScanEnd(m)) \o SedUpTo(ScanEnd(m), ClearedUpTo)
  /\ match_offset' = 0
  /\ phase' = "reading"
  /\ UNCHANGED <<config, input, reading, prev_sep_end, notempty, fragment>>

(* process_fragment                                                        *)
ProcessFragment(text) ==
  IF config.direct_fragments
  THEN output' = Append(output, Item("fragment", text)) /\ UNCHANGED fragment
  ELSE /\ fragment' = IF Len(fragment) + Len(text) > config.buf_size_frag
                      THEN <<>> ELSE fragment \o text
       /\ UNCHANGED output

(* The buffer is full of bytes that matching needs: a match failure too,   *)
(* and all of it belongs to the token.                                     *)
FragmentAll(m) ==
  /\ NeedsInput(m)
  /\ IsFull(m)
  /\ ~IsMatch
  /\ prev_sep_end # 0 \/ RetainMarker(m) = 0
  /\ ProcessFragment(Span(subject, prev_sep_end, effective))
  /\ subject' = Cleared
  /\ prev_sep_end' = 0
  /\ match_offset' = 0
  /\ phase' = "reading"
  /\ UNCHANGED <<config, input, reading, notempty>>

(* The buffer is full of one token: its part before what matching needs    *)
(* goes.                                                                   *)
FragmentToken(m) ==
  /\ NeedsInput(m)
  /\ IsFull(m)
  /\ ~IsMatch
  /\ prev_sep_end = 0 /\ RetainMarker(m) # 0
  /\ ProcessFragment(Span(subject, 0, RetainMarker(m)))
  /\ subject' = Span(subject, RetainMarker(m), Len(subject))
  /\ match_offset' = 0
  /\ phase' = "reading"
  /\ UNCHANGED <<config, input, reading, prev_sep_end, notempty>>

-------------------------------------------------------------------------------
(* No match and no more input: the last token.                             *)

HasLastToken_NotEmpty == prev_sep_end # Len(subject) \/ fragment # <<>>

HasLastToken ==
  prev_sep_end # Len(subject) \/ config.use_input_delimiter \/ fragment # <<>>

EndOfInput(m) ==
  /\ m.kind # "complete"
  /\ input_done
  /\ output' = IF IsMatch THEN output \o SedUpTo(match_offset, effective)
               ELSE IF HasLastToken
               THEN Append(output, Item("token", Merged(Span(subject, prev_sep_end, effective))))
               ELSE output
  /\ fragment' = IF ~IsMatch /\ HasLastToken THEN <<>> ELSE fragment
  /\ phase' = "done"
  /\ UNCHANGED <<config, input, subject, reading, match_offset, prev_sep_end, notempty>>

(* The loop has been left: at the end of the input, by process_token, or   *)
(* by the exception about bytes that are not utf8.                         *)
Terminated == phase \in {"done", "ended", "failed"} /\ UNCHANGED vars

(* The rest of a turn depends on what was found.                           *)
HandleMatch(m) ==
  \/ CompleteMatch(m)
  \/ MakeRoom(m)
  \/ ClearBuffer(m)
  \/ FragmentAll(m)
  \/ FragmentToken(m)
  \/ EndOfInput(m)

Next ==
  \/ Read
  \/ phase = "matching" /\ \E m \in {Found} : HandleMatch(m)
  \/ Terminated

(* One thread runs the loop, and a read returns as long as the input does. *)
Spec == Init /\ [][Next]_vars /\ WF_vars(Next)

-------------------------------------------------------------------------------
(* Properties.                                                             *)

(* Every variable has its type.                                            *)
TypeOK ==
  /\ config \in ConfigType
  /\ input \in Seq(Bytes)
  /\ position \in 0..Len(input)
  /\ subject \in Seq(Bytes)
  /\ effective \in Nat \cup {NoPosition}
  /\ input_done \in BOOLEAN
  /\ match_offset \in Nat
  /\ prev_sep_end \in Nat
  /\ notempty \in BOOLEAN
  /\ fragment \in Seq(Bytes)
  /\ output \in Seq(Items)
  /\ phase \in {"reading", "matching", "done", "ended", "failed"}

(* The offsets stay within the bytes of the buffer, whatever was shifted,  *)
(* cleared or moved; the buffer never overflows, and before every read     *)
(* there is room in it, so that the loop cannot spin without reading.      *)
BufferBounds ==
  /\ Len(subject) <= config.buf_size
  /\ phase = "reading" => Len(subject) < config.buf_size
  /\ phase = "matching" => effective <= Len(subject)
  /\ match_offset <= Len(subject)
  /\ prev_sep_end <= Len(subject)

(* The tokens among items, each put together with its fragments.  When the *)
(* input ends right after a fragment, that token has no more part.         *)
Joined(items, ended) ==
  LET join(done, item) ==
        IF item.kind = "fragment" THEN [done EXCEPT !.part = @ \o item.text]
        ELSE IF item.kind = "token"
        THEN [tokens |-> Append(done.tokens, done.part \o item.text), part |-> <<>>]
        ELSE done
      all == FoldLeft(join, [tokens |-> <<>>, part |-> <<>>], items)
  IN IF ended /\ all.part # <<>> THEN Append(all.tokens, all.part) ELSE all.tokens

TokensGiven == Joined(output, phase = "done")

(* The buffer has room for what the pattern needs and for an incomplete    *)
(* character, and the fragment buffer for all that can be moved there.     *)
HasRoomToSearch ==
  LET p == config.pattern
  IN config.buf_size >= config.max_lookbehind + Len(p.ahead)
                          + Max({Len(p.words[i]) : i \in DOMAIN p.words})
                          + (IF IsUtf THEN MAX_BYTES_PER_CHARACTER - 1 ELSE 0)

HasRoom ==
  HasRoomToSearch /\ (config.direct_fragments \/ config.buf_size_frag >= Len(input))

(* The tokens are those of the whole input matched at once, however it     *)
(* arrives, and whatever had to be moved out of a buffer with room enough; *)
(* if process_token ends the loop, which it may do after any token, they   *)
(* are the first of them.  A pattern that may match nothing, but need not, *)
(* can lose empty matches where the buffer is shifted (the not-empty flag  *)
(* outlives the shift): never a byte of a token, nor a match of some.      *)
AllTokens ==
  IF IsMatch THEN MatchTokens(config.pattern, input, config.groups)
  ELSE DelimitedTokens(config.pattern, input, config.use_input_delimiter)

MayMatchNothing ==
  LET p == config.pattern
  IN /\ \E i \in DOMAIN p.words : p.words[i] = <<>>
     /\ Len(p.words) > 1 \/ p.ahead # <<>> \/ p.behind # <<>>

BesidesEmpty(tokens) ==
  IF ~MayMatchNothing THEN tokens
  ELSE IF IsMatch THEN SelectSeq(tokens, LAMBDA text : text # <<>>)
  ELSE FlattenSeq(tokens)

TokensAsSplit ==
  (HasRoom /\ ~IsSed /\ phase \in {"done", "ended"}) =>
    LET given == BesidesEmpty(TokensGiven)
        all == BesidesEmpty(AllTokens)
    IN IF phase = "done" THEN given = all ELSE IsPrefix(given, all)

(* --sed copies all that it does not match: at every moment, what is       *)
(* written is the input up to match_offset, whatever the buffer has lost.  *)
SedCopiesInput ==
  IsSed =>
    LET written == FlattenSeq([i \in DOMAIN output |-> output[i].text])
    IN IF phase = "done" THEN written = input
       ELSE written \o Span(subject, match_offset, Len(subject)) = SubSeq(input, 1, position)

(* Tokens that are not written directly have a maximum size.               *)
TokenSizeLimited ==
  ~config.direct_fragments =>
    \A i \in DOMAIN output :
      output[i].kind = "token" =>
        Len(output[i].text) <= IF config.buf_size < config.buf_size_frag
                               THEN config.buf_size_frag ELSE config.buf_size

(* A token that is too long is replaced, never left out: the output has as *)
(* many tokens as the input.                                               *)
TokensCounted ==
  (phase = "done" /\ config.mode = "byte") => Len(TokensGiven) = Len(AllTokens)

(* What is left of it is what follows the part that was last too much, its *)
(* end or nothing; and a token that fits is whole.  (Where every token of  *)
(* the input fits, TokensAsSplit says that.)                               *)
EndsKept ==
  (/\ phase \in {"done", "ended"} /\ ~IsMatch /\ ~MayMatchNothing
   /\ ~config.direct_fragments /\ config.buf_size_frag < Len(input) /\ HasRoomToSearch) =>
    \E given \in {TokensGiven}, all \in {AllTokens} :
      \A i \in DOMAIN given :
        /\ IsSuffix(given[i], all[i])
        /\ Len(all[i]) <= config.buf_size_frag => given[i] = all[i]

(* All at once.                                                            *)
OverlongReplaced == TokenSizeLimited /\ TokensCounted /\ EndsKept

(* In utf mode no character is ever cut in two: not at the beginning of    *)
(* the buffer, not at the end of what is matched, and not in the output.   *)
(* So input that is utf8 is never refused for where a read or a shift      *)
(* happened to end.                                                        *)
Whole(text) ==
  text # <<>> => /\ ~IsContinuation(text[1])
                 /\ LastCompletedCharacterEnd(text, 0, Len(text)) = Len(text)

CharactersWhole ==
  IsUtf =>
    /\ phase # "failed"
    /\ subject # <<>> => ~IsContinuation(subject[1])
    /\ phase = "matching" => Whole(Span(subject, 0, effective))
    /\ \A i \in DOMAIN output : Whole(output[i].text)

===============================================================================
