----------------------------- MODULE BatchOutput ------------------------------
(***************************************************************************)
(* BatchOutputStream (main.cpp) with the QueuedOutput it writes through    *)
(* (string_utils.hpp): the writer of what is selected in the tui.  The C++ *)
(* object is a record here and its methods are operators on it.  Where the *)
(* output is the terminal that shows the tui, the items are queued until   *)
(* the end.                                                                *)
(***************************************************************************)
EXTENDS Integers, SequencesExt

Item(kind, n) == [kind |-> kind, id |-> n]
Items == [kind : {"token", "delimiter", "batch"}, id : Nat]

(* tty: the output is a terminal.                                          *)
IsQueued(args) == args.tty /\ args.tenacious

Streams == [out : Seq(Items), queue : Seq(Items),
            first_within_batch : BOOLEAN, first_batch : BOOLEAN]

NewStream == [out |-> <<>>, queue |-> <<>>,
              first_within_batch |-> TRUE, first_batch |-> TRUE]

Write(os, args, items) ==
  IF IsQueued(args) THEN [os EXCEPT !.queue = @ \o items]
                    ELSE [os EXCEPT !.out = @ \o items]

Separator(os) ==
  IF ~os.first_within_batch THEN <<Item("delimiter", 0)>>
  ELSE IF ~os.first_batch THEN <<Item("batch", 0)>> ELSE <<>>

WriteOutput(os, args, n) ==
  [Write(os, args, Separator(os) \o <<Item("token", n)>>)
     EXCEPT !.first_within_batch = FALSE]

FinishBatch_StaysWithin(os) == [os EXCEPT !.first_batch = FALSE]

FinishBatch(os) == [os EXCEPT !.first_batch = FALSE, !.first_within_batch = TRUE]

(* The tokens at the positions in s, as one batch.                         *)
WriteBatch(os, args, s) ==
  FinishBatch(FoldLeft(LAMBDA o, n : WriteOutput(o, args, n), os, s))

EndDelimited_Always(os, args) == ~args.delimit_not_at_end

EndDelimited(os, args) ==
  ~args.delimit_not_at_end /\ (~os.first_batch \/ args.delimit_on_empty)

FlushOutput_KeepsQueue(os) == [os EXCEPT !.out = @ \o os.queue]

FlushOutput(os) == [os EXCEPT !.out = @ \o os.queue, !.queue = <<>>]

FinishOutput(os, args) ==
  LET ended == IF EndDelimited(os, args)
               THEN Write(os, args, <<Item("batch", 0)>>) ELSE os
  IN  [FlushOutput(ended) EXCEPT !.first_within_batch = TRUE, !.first_batch = TRUE]

(***************************************************************************)
(* What the options promise about batches of tokens written out.           *)
(***************************************************************************)
(* The sequences in ss, with sep between one and the next.                 *)
Joined(ss, sep) ==
  FlattenSeq([i \in DOMAIN ss |-> IF i = 1 THEN ss[i] ELSE <<sep>> \o ss[i]])

BatchText(s) == Joined([i \in DOMAIN s |-> <<Item("token", s[i])>>], Item("delimiter", 0))

Text(batches) ==
  Joined([b \in DOMAIN batches |-> BatchText(batches[b])], Item("batch", 0))

FullText(batches, args) ==
  Text(batches) \o
    IF ~args.delimit_not_at_end /\ (batches # <<>> \/ args.delimit_on_empty)
    THEN <<Item("batch", 0)>> ELSE <<>>
===============================================================================
