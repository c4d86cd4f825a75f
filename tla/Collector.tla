------------------------------- MODULE Collector ------------------------------
(***************************************************************************)
(* What create_tokens (token.hpp) does with the tokens that leave the      *)
(* ordered operations: --unique, --sort, --out, --tail and --flip, in      *)
(* memory that is bounded when the options allow it, and the way the       *)
(* survivors reach the output stream or the tui.                           *)
(*                                                                         *)
(* A token is abstracted to its arrival number and to the classes that the *)
(* two comparisons see: "sort" is its rank under sort_comparison before    *)
(* any reversal, "unique" its class under equality_predicate.  Its text    *)
(* matters only there (--field and --numeric change the classes, nothing   *)
(* else).                                                                  *)
(***************************************************************************)
EXTENDS TokenOutput, SequencesExt

CONSTANTS Keys,         \* the ranks and classes a token can have
          OptionSets,   \* the option records the command line may give
          MaxTokens,    \* bound: tokens that reach the collector
          MaxFragments  \* bound: fragments of one token

ASSUME KeysAssumption == Keys \subseteq Int

ASSUME OptionsAssumption ==
  /\ OptionSets \subseteq OptionType
  /\ \A o \in OptionSets : Consistent(o)

ASSUME BoundsAssumption == MaxTokens \in Nat /\ MaxFragments \in Nat

Tokens == [sort : Keys, unique : Keys, id : Nat]

Phases == {"reading", "finalising", "writing", "done"}

VARIABLES options,    \* what the command line gave; never changes
          args,       \* Arguments, after UncompiledCodes::compile
          arrivals,   \* history: every token handed to process_token
          fragments,  \* fragments already written of the next token
          output,     \* the vector the survivors are kept in
          stream,     \* direct_output
          next,       \* the loop over output at the end
          phase

vars == <<options, args, arrivals, fragments, output, stream, next, phase>>

-------------------------------------------------------------------------------
(* Comparisons.                                                            *)

(* sort_comparison: lhs comes strictly before rhs.                         *)
Before(a, lhs, rhs) == IF a.sort_reverse THEN rhs.sort < lhs.sort
                                         ELSE lhs.sort < rhs.sort

SameUnique(lhs, rhs) == lhs.unique = rhs.unique

(* std::upper_bound on a sorted vector: the first element t is before.     *)
UpperBound_BeforeEquals(a, s, t) ==
  CHOOSE p \in 1..Len(s) + 1 :
    /\ \A i \in 1..p - 1 : Before(a, s[i], t)
    /\ \A i \in p..Len(s) : ~Before(a, s[i], t)

UpperBound(a, s, t) ==
  CHOOSE p \in 1..Len(s) + 1 :
    /\ \A i \in 1..p - 1 : ~Before(a, t, s[i])
    /\ \A i \in p..Len(s) : Before(a, t, s[i])

-------------------------------------------------------------------------------
(* check_unique_then_append, one operator per way of storing a token: each *)
(* gives the vector after the call.                                        *)

IsDuplicate(t) == args.unique /\ \E i \in DOMAIN output : SameUnique(output[i], t)

AppendUnbounded(t) == IF IsDuplicate(t) THEN output ELSE Append(output, t)

AtLimit_OneLate == Len(output) = args.out_end + 1

AtLimit == Len(output) = args.out_end

(* At its limit the vector keeps its size: what falls off the end is lost. *)
WithoutExcess_FrontLost(s) == SubSeq(s, 2, args.out_end + 1)

WithoutExcess(s) == SubSeq(s, 1, args.out_end)

AtInsertion_NextOne(s, p) == IF p <= Len(s) THEN s[p] ELSE s[p - 1]

AtInsertion(s, p) == s[p - 1]

InsertBounded(t) ==
  LET p == UpperBound(args, output, t)
      longer == InsertAt(output, p, t)
  IN IF args.unique /\ p # 1 /\ SameUnique(AtInsertion(output, p), t) THEN output
     ELSE IF AtLimit THEN WithoutExcess(longer)
     ELSE longer

ShiftBounded(t) ==
  IF args.tail /\ AtLimit
  THEN Append(Tail(output), t)
  ELSE Append(output, t)

CheckUniqueThenAppend(t) ==
  IF ~MemIsBounded(args) THEN AppendUnbounded(t)
  ELSE IF args.sort THEN InsertBounded(t)
  ELSE ShiftBounded(t)

-------------------------------------------------------------------------------
(* Sorting, truncating and flipping what was collected.                    *)

(* The n first elements of s in an order std::sort, std::stable_sort,      *)
(* std::partial_sort or stable_partial_sort may leave: f[i] is where the   *)
(* i-th of them was.  Only a stable sort settles the order of equals.      *)
Arrangements(a, s, n) ==
  LET wins(i, j) == \/ Before(a, s[i], s[j])
                    \/ /\ ~Before(a, s[j], s[i])
                       /\ a.sort_stable => i < j
      placed == {f \in Injection(1..n, DOMAIN s) :
                   /\ \A i, j \in 1..n : i < j => wins(f[i], f[j])
                   /\ \A i \in 1..n, k \in DOMAIN s \ Range(f) : wins(f[i], k)}
  IN {[i \in 1..n |-> s[f[i]]] : f \in placed}

Smaller(m, n) == IF m < n THEN m ELSE n

(* --tail counts from the back, unless the sort was reversed for it.       *)
CountsFromBack_Always(a) == a.tail

CountsFromBack(a) == a.tail /\ ~a.sort

(* What is left after the end truncation: the sort is part of it, since    *)
(* only the elements before the limit are put in order.                    *)
EndTruncations(a, s) ==
  LET middle == IF a.out_end = NoLimit THEN Len(s) ELSE Smaller(a.out_end, Len(s))
  IN IF MemIsBounded(a) THEN {s}
     ELSE IF a.sort THEN Arrangements(a, s, middle)
     ELSE IF CountsFromBack(a) THEN {SubSeq(s, Len(s) - middle + 1, Len(s))}
     ELSE {SubSeq(s, 1, middle)}

StartTruncated(a, s) ==
  IF a.out_start = NoLimit THEN s
  ELSE IF a.out_start >= Len(s) THEN <<>>
  ELSE IF CountsFromBack(a) THEN SubSeq(s, 1, Len(s) - a.out_start)
  ELSE SubSeq(s, a.out_start + 1, Len(s))

Flipped(a, s) == IF a.flip THEN Reverse(s) ELSE s

-------------------------------------------------------------------------------
(* Actions.                                                                *)

(* --out=0 and --tail=0 skip reading altogether.                           *)
Init ==
  /\ options \in OptionSets
  /\ args = Compile(options)
  /\ arrivals = <<>>
  /\ fragments = 0
  /\ output = <<>>
  /\ stream = NewStream
  /\ next = 1
  /\ phase = IF args.out_end = 0 THEN "writing" ELSE "reading"

Reading == phase = "reading" /\ Len(arrivals) < MaxTokens

(* The token about to be processed.  A comparison type shared by --sort    *)
(* and --unique sees one class per rank.                                   *)
Arrival(k, u) ==
  [sort |-> k, unique |-> IF args.same_type THEN k ELSE u, id |-> Len(arrivals) + 1]

Arrive(t) ==
  /\ Reading
  /\ arrivals' = Append(arrivals, t)
  /\ fragments' = 0
  /\ UNCHANGED <<options, args, next>>

(* process_fragment, when the parts of an overlong token need not be       *)
(* stored: the part goes to the output.                                    *)
WriteFragment ==
  /\ Reading
  /\ TokensNotStored(args)
  /\ ~args.sed
  /\ fragments < MaxFragments
  /\ fragments' = fragments + 1
  /\ stream' = WriteOutputFragment(stream, args, Len(arrivals) + 1)
  /\ UNCHANGED <<options, args, arrivals, output, next, phase>>

(* --sed: the text before a match.  Adjacent writes are taken as one.      *)
CopyBetween ==
  /\ Reading
  /\ args.sed
  /\ stream.out # <<>> => Last(stream.out).kind # "between"
  /\ stream' = WriteBetween(stream)
  /\ UNCHANGED <<options, args, arrivals, fragments, output, next, phase>>

OutputComplete_OneLate(s) == args.out_end # NoLimit /\ s.out_count > args.out_end

OutputComplete(s) == s.out_count = args.out_end

(* process_token with direct output: the token is written as it arrives,   *)
(* and the program ends as soon as the output is complete.                 *)
ForwardToken(t) ==
  /\ IsDirectOutput(args)
  /\ Arrive(t)
  /\ output' = IF TokensNotStored(args) THEN output ELSE CheckUniqueThenAppend(t)
  /\ LET written == WriteOutput(stream, args, t.id)
     IN IF IsDuplicate(t)
        THEN UNCHANGED <<stream, phase>>
        ELSE IF OutputComplete(written)
        THEN stream' = FinishOutput(written, args) /\ phase' = "done"
        ELSE stream' = written /\ UNCHANGED phase

(* process_token otherwise: the token is kept.  --out without sorting ends *)
(* the input once enough tokens are there.                                 *)
StoreToken(t) ==
  /\ ~IsDirectOutput(args)
  /\ Arrive(t)
  /\ output' = CheckUniqueThenAppend(t)
  /\ phase' = IF /\ MemIsBounded(args) /\ ~args.sort /\ ~args.tail
                 /\ Len(output') = args.out_end
              THEN "finalising" ELSE phase
  /\ UNCHANGED stream

(* The read loop ends: no input is left, or --head has seen its fill.      *)
EndOfInput ==
  /\ phase = "reading"
  /\ IF IsDirectOutput(args)
     THEN stream' = FinishOutput(stream, args) /\ phase' = "done"
     ELSE phase' = "finalising" /\ UNCHANGED stream
  /\ UNCHANGED <<options, args, arrivals, fragments, output, next>>

Finalise ==
  /\ phase = "finalising"
  /\ \E truncated \in EndTruncations(args, output) :
       output' = Flipped(args, StartTruncated(args, truncated))
  /\ phase' = "writing"
  /\ UNCHANGED <<options, args, arrivals, fragments, stream, next>>

WriteNext ==
  /\ phase = "writing"
  /\ ~args.tui
  /\ next <= Len(output)
  /\ stream' = WriteOutputNoTruncate(stream, args, output[next].id)
  /\ next' = next + 1
  /\ UNCHANGED <<options, args, arrivals, fragments, output, phase>>

(* The last write, or the return to the tui.                               *)
Finish ==
  /\ phase = "writing"
  /\ args.tui \/ next > Len(output)
  /\ stream' = IF args.tui THEN stream ELSE FinishOutput(stream, args)
  /\ phase' = "done"
  /\ UNCHANGED <<options, args, arrivals, fragments, output, next>>

(* The process has exited, or the tui has taken over.                      *)
Terminated == phase = "done" /\ UNCHANGED vars

Next ==
  \/ WriteFragment
  \/ CopyBetween
  \/ \E k, u \in Keys : ForwardToken(Arrival(k, u)) \/ StoreToken(Arrival(k, u))
  \/ EndOfInput
  \/ Finalise
  \/ WriteNext
  \/ Finish
  \/ Terminated

Spec == Init /\ [][Next]_vars

-------------------------------------------------------------------------------
(* Properties.                                                             *)

(* Every variable has its type; output keeps the tokens of the history.    *)
TypeOK ==
  /\ options \in OptionType
  /\ args = Compile(options)
  /\ arrivals \in Seq(Tokens)
  /\ fragments \in Nat
  /\ output \in Seq(Tokens)
  /\ stream \in Streams
  /\ next \in Nat \ {0}
  /\ phase \in Phases

(* mem_is_bounded (args.hpp) keeps its word: no more than the limit of     *)
(* tokens is ever held.                                                    *)
SizeBound == MemIsBounded(args) => Len(output) <= args.out_end

(* --unique leaves one token of each class, whichever of the three ways of  *)
(* finding duplicates was used.                                            *)
Distinct(a, s) ==
  a.unique => \A i, j \in DOMAIN s : i # j => ~SameUnique(s[i], s[j])

NoDuplicates == Distinct(args, output)

(* A sorted vector in bounded memory loses only tokens its limit keeps out: *)
(* one that arrived and is not there was a duplicate, or comes before none *)
(* of those that are, and these are as many as may be.                     *)
KeptIn(a, s, t) ==
  \E i \in DOMAIN s : s[i] = t \/ (a.unique /\ SameUnique(s[i], t))

KeptOut(a, s, t) ==
  /\ Len(s) = a.out_end
  /\ \A i \in DOMAIN s : ~Before(a, t, s[i])

OnlyWorseLost(a, s, all) ==
  \A n \in DOMAIN all : KeptIn(a, s, all[n]) \/ KeptOut(a, s, all[n])

LosesOnlyWorse ==
  (phase = "reading" /\ MemIsBounded(args) /\ args.sort) =>
    OnlyWorseLost(args, output, arrivals)

(* The tokens the user gets: in the tui, or on the output.                 *)
WithToken(ids, item) == IF item.kind = "token" THEN Append(ids, item.id) ELSE ids

WrittenIds(items) == FoldLeft(WithToken, <<>>, items)

Shown ==
  IF args.tui THEN output
  ELSE LET ids == WrittenIds(stream.out) IN [n \in DOMAIN ids |-> arrivals[ids[n]]]

Promise == INSTANCE Selection
             WITH result <- [given |-> phase = "done",
                             tokens |-> IF phase = "done" THEN Shown ELSE <<>>]

(* What is lost from bounded memory is lost rightly: while reading, the    *)
(* vector is the head of the sorted (unsorted: the head, for --tail the    *)
(* last tokens) of all that arrived, as if everything had been kept.       *)
BoundedWindow ==
  (phase = "reading" /\ MemIsBounded(args) /\ ~IsDirectOutput(args)) =>
    LET all == Promise!FirstOccurrences(options, arrivals)
        kept == Smaller(args.out_end, Len(all))
    IN IF args.sort
       THEN Arrangements([args EXCEPT !.sort_stable = TRUE], all, kept) = {output}
       ELSE output = IF args.tail
                     THEN SubSeq(all, Len(all) - kept + 1, Len(all))
                     ELSE SubSeq(all, 1, kept)

(* create_tokens implements the promise of its options: unique, sorted,    *)
(* ranged and flipped in that order, by whatever path.                     *)
KeepsPromise == Promise!SSpec

(* Reading ends before the input does only when the rest cannot matter,    *)
(* and with a limit on tokens taken in order it ends at once.              *)
StopsWhenSettled ==
  [][(phase = "reading" /\ arrivals' # arrivals) =>
       (phase' # "reading" <=> /\ Promise!Settled(options, arrivals')
                               /\ IsDirectOutput(args) \/ MemIsBounded(args))]_vars

Pieces == {"fragment", "token"}

(* The output without the parts of tokens before the start of --out, which *)
(* are DiscardedNotWritten's subject.                                      *)
WithUndiscarded(kept, item, start) ==
  IF item.kind = "fragment" /\ item.id <= start THEN kept ELSE Append(kept, item)

Undiscarded ==
  FoldLeft(LAMBDA kept, i : WithUndiscarded(kept, i, args.out_start), <<>>, stream.out)

(* One output delimiter between two tokens, none within one (its fragments *)
(* are written apart) and none at either end; --sed writes none at all.    *)
DelimitersSeparate ==
  LET out == Undiscarded
      kind(i) == out[i].kind
  IN /\ \A i \in DOMAIN out :
          kind(i) = "delimiter" =>
            /\ ~args.sed
            /\ i > 1 /\ kind(i - 1) = "token"
            /\ i < Len(out) /\ kind(i + 1) \in Pieces
            /\ out[i - 1].id # out[i + 1].id
     /\ \A i \in 1..Len(out) - 1 :
          kind(i) \in Pieces /\ kind(i + 1) \in Pieces =>
            args.sed \/ (kind(i) = "fragment" /\ out[i].id = out[i + 1].id)

(* A batch delimiter ends the output exactly when the options ask for it:  *)
(* not with --delimit-not-at-end, and for an empty output only with        *)
(* --delimit-on-empty.  Nothing is written after it.                       *)
BatchAtEnd ==
  LET out == Undiscarded
      ends == out # <<>> /\ Last(out).kind = "batch"
      wrote == \E i \in DOMAIN out : out[i].kind \in Pieces
  IN /\ \A i \in DOMAIN out : out[i].kind = "batch" => i = Len(out) /\ phase = "done"
     /\ phase = "done" =>
          (ends <=> /\ ~args.delimit_not_at_end /\ ~args.sed /\ ~args.tui
                    /\ wrote \/ args.delimit_on_empty)

(* No part of a token before the start of --out is written.                *)
DiscardedNotWritten ==
  \A i \in DOMAIN stream.out :
    stream.out[i].kind \in Pieces /\ IsDirectOutput(args) /\ ~args.unique =>
      stream.out[i].id > args.out_start

===============================================================================
