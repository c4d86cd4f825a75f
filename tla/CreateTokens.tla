------------------------------ MODULE CreateTokens ----------------------------
(***************************************************************************)
(* create_tokens as a whole (token.hpp): the loop of Tokenizer hands what  *)
(* it finds to Pipeline, that is to process_token, and goes on when that   *)
(* has returned.  Operations, limits and direct output end the loop in the *)
(* middle of the buffer, or of a match and its groups; what the loop may   *)
(* write itself depends on them as well.                                   *)
(***************************************************************************)
EXTENDS Pipeline

CONSTANTS Bytes, Length, MAX_BYTES_PER_CHARACTER, Configs, Inputs(_),  \* see Tokenizer
          Rank(_)  \* the class of a text under the comparisons

VARIABLES
  config, input, position, subject, effective, input_done,
  match_offset, prev_sep_end, notempty, fragment,
  handed,   \* history: what the loop gives to process_token or writes
  turn,     \* where the loop is
  handled   \* how much of that process_token and the output have had

T == INSTANCE Tokenizer WITH output <- handed, phase <- turn

loop == <<config, input, position, subject, effective, input_done,
          match_offset, prev_sep_end, notempty, fragment, handed>>
collecting == <<options, args, arrivals, fragments, output, next, phase>>
everything == <<loop, turn, handled, pvars, collecting, stream>>

(* A part of a token may be written at once if nothing can still remove or *)
(* edit the token.                                                         *)
DirectFragments_WithOps(l, a) == C!TokensNotStored(a)

DirectFragments(l, a) == l = <<>> /\ C!TokensNotStored(a)

CreateInit ==
  /\ Init /\ T!Init
  /\ handled = 0
  /\ config.direct_fragments = DirectFragments(given, args)
  /\ T!IsSed = args.sed

-------------------------------------------------------------------------------
(* The loop waits for process_token, and is left when that says so.        *)
Busy == handled < Len(handed)

Advance ==
  /\ phase = "reading" /\ ~Busy
  /\ turn \in {"reading", "matching"}
  /\ T!Next /\ turn' # "ended"
  /\ UNCHANGED <<handled, pvars, collecting, stream>>

NextIs(kind) == phase = "reading" /\ Busy /\ handed[handled + 1].kind = kind

Handled ==
  /\ handled' = handled + 1
  /\ turn' = IF phase' = "reading" THEN turn ELSE "ended"
  /\ UNCHANGED loop

TokenHandled ==
  /\ NextIs("token")
  /\ LET text == handed[handled + 1].text
         rank == Rank(AfterAll(text).token.text)
     IN ProcessToken(text, rank, rank)
  /\ Handled

FragmentHandled ==
  /\ NextIs("fragment")
  /\ C!WriteFragment
  /\ UNCHANGED pvars
  /\ Handled

BetweenHandled ==
  /\ NextIs("between")
  /\ stream' = C!WriteBetween(stream)
  /\ UNCHANGED <<pvars, collecting>>
  /\ Handled

(* The input has come to its end, and the last token has been processed.   *)
InputUsedUp ==
  /\ turn = "done" /\ ~Busy
  /\ EndOfInput
  /\ UNCHANGED <<loop, turn, handled>>

Concludes ==
  /\ Conclude
  /\ UNCHANGED <<loop, turn, handled>>

Finished == phase = "done" \/ turn = "failed"

Stopped == Finished /\ UNCHANGED everything

CreateNext ==
  \/ Advance
  \/ TokenHandled
  \/ FragmentHandled
  \/ BetweenHandled
  \/ InputUsedUp
  \/ Concludes
  \/ Stopped

(* One thread, and a read returns as long as the input does.               *)
CreateSpec == CreateInit /\ [][CreateNext]_everything /\ WF_everything(CreateNext)

-------------------------------------------------------------------------------
(* Properties.                                                             *)

(* The program comes to an end for every input: empty matches, full        *)
(* buffers and reads of nothing do not keep the loop from using up the     *)
(* input, and what follows the loop ends too.                              *)
EventuallyFinished == <>Finished

(* What is on the output, with its text; the loop's own writes are there   *)
(* in the order it made them.                                              *)
Pieces ==
  LET own == SelectSeq(handed, LAMBDA i : i.kind # "token")
      isOwn(i) == i.kind \in {"fragment", "between"}
      text(n) ==
        IF isOwn(stream.out[n])
        THEN own[Len(SelectSeq(SubSeq(stream.out, 1, n), isOwn))].text
        ELSE IF stream.out[n].kind = "token" THEN passed[stream.out[n].id].text ELSE <<>>
  IN [n \in DOMAIN stream.out |-> [kind |-> stream.out[n].kind, text |-> text(n)]]

Shown ==
  IF args.tui THEN [i \in DOMAIN output |-> passed[output[i].id].text]
  ELSE T!Joined(Pieces, TRUE)

(* What the options promise of these tokens.                               *)
Promised(tokens) ==
  LET all == [i \in DOMAIN tokens |->
                [sort |-> Rank(tokens[i].text), unique |-> Rank(tokens[i].text), id |-> i]]
  IN {[i \in DOMAIN r |-> tokens[r[i].id].text] : r \in C!Promise!Results(options, all)}

(* Precondition: the buffer has room for what the pattern needs, and the   *)
(* pattern always or never matches the empty text.  (Otherwise a shift of  *)
(* the buffer may hide an empty match: the not-empty flag outlives it.)    *)
Searchable ==
  /\ T!HasRoom
  /\ Len(config.pattern.words) = 1 \/ \A i \in DOMAIN config.pattern.words : config.pattern.words[i] # <<>>

(* Whatever is read at a time, kept in a buffer, put aside, stored or      *)
(* written at once, and wherever the reading ends, the result is that of   *)
(* splitting the whole input, applying each operation to all tokens, and   *)
(* the options to what is left.  (With a start of --out the parts of the   *)
(* tokens before it are written too, see DiscardedNotWritten.)             *)
ResultOfInput ==
  (phase = "done" /\ ~T!IsSed /\ Searchable) =>
    \/ \E tokens \in {Composed(given, T!AllTokens)} : Shown \in Promised(tokens)
    \/ options.out_start # C!NoLimit /\ \E i \in DOMAIN handed : handed[i].kind = "fragment"

(* --sed: the input with each match edited, or left out if an operation    *)
(* removes it or --out starts after it, up to the match that is the last   *)
(* of --out.  left[i] is what the operations leave of the first i matches. *)
Left(ms) ==
  [n \in 0..Len(ms) |-> Composed(given, [i \in 1..n |-> T!Span(input, ms[i].begin, ms[i].end)])]

SedText(ms, left) ==
  LET ends == {i \in DOMAIN ms : Len(left[i]) = options.out_end}
      stop == IF ends = {} THEN Len(ms) ELSE Min(ends)
      end(i) == IF i = 0 THEN 0 ELSE ms[i].end
      copied(i) == T!Span(input, end(i - 1), ms[i].begin)
      written(i) == Len(left[i]) > Len(left[i - 1]) /\ Len(left[i]) > options.out_start
      edited(i) == IF written(i) THEN Last(left[i]).text ELSE <<>>
  IN FlattenSeq([i \in 1..stop |-> copied(i) \o edited(i)])
       \o (IF ends = {} THEN T!Span(input, end(stop), Len(input)) ELSE <<>>)

(* --head may end it earlier.                                              *)
SedOfInput ==
  (phase = "done" /\ T!IsSed /\ Searchable /\ options.out_end # 0) =>
    \E ms \in {T!Matches(config.pattern, input)} :
      \E text \in {SedText(ms, Left(ms))},
         written \in {FlattenSeq([n \in DOMAIN Pieces |-> Pieces[n].text])} :
        IF IsKind("head") THEN IsPrefix(written, text) ELSE written = text

(* What is written is what was asked for, with --sed and without.          *)
WritesResult == ResultOfInput /\ SedOfInput
===============================================================================
