----------------------------- MODULE TokenOutput -----------------------------
(***************************************************************************)
(* TokenOutputStream (token.hpp): the writer every token that is not shown *)
(* in the tui goes through.  The C++ object is a record here, and each of  *)
(* its methods an operator from the stream before the call to the stream   *)
(* after it.  The bytes of a token are abstracted to items: "fragment" for *)
(* a part of a token that is not its last, "token" for its last (or only)  *)
(* part, each with the arrival number of the token; "delimiter" and        *)
(* "batch" for the two delimiters; "between" for what --sed copies.        *)
(*                                                                         *)
(* Here and in the other modules a definition named Name_Defect is a       *)
(* faulty variant of Name, which no specification uses: README.md lists    *)
(* the property that must fail when it takes the place of Name.            *)
(***************************************************************************)
EXTENDS Options, Sequences

ItemKinds == {"fragment", "token", "delimiter", "batch", "between"}
Item(kind, n) == [kind |-> kind, id |-> n]
Items == [kind : ItemKinds, id : Nat]

Streams == [out : Seq(Items), out_count : Nat,
            has_written : BOOLEAN, delimit_required : BOOLEAN]

NewStream == [out |-> <<>>, out_count |-> 0,
              has_written |-> FALSE, delimit_required |-> FALSE]

BeginDiscard_OneLate(s, args) ==
  args.out_start # NoLimit /\ s.out_count <= args.out_start

BeginDiscard(s, args) ==
  args.out_start # NoLimit /\ s.out_count < args.out_start

(* What is written ahead of a token: a delimiter if a token came before.   *)
Separator(s, args) ==
  IF s.delimit_required /\ ~args.sed THEN <<Item("delimiter", 0)>> ELSE <<>>

WriteOutputFragment_KeepsPending(s, args, n) ==
  [s EXCEPT !.out = @ \o Separator(s, args) \o <<Item("fragment", n)>>,
            !.has_written = TRUE]

WriteOutputFragment(s, args, n) ==
  IF BeginDiscard(s, args)
  THEN [s EXCEPT !.out = @ \o <<Item("fragment", n)>>]
  ELSE [s EXCEPT !.out = @ \o Separator(s, args) \o <<Item("fragment", n)>>,
                 !.delimit_required = FALSE,
                 !.has_written = TRUE]

WriteOutputNoTruncate_CountsDown(s, args, n) ==
  [out |-> s.out \o Separator(s, args) \o <<Item("token", n)>>,
   out_count |-> s.out_count - 1, has_written |-> TRUE, delimit_required |-> TRUE]

WriteOutputNoTruncate(s, args, n) ==
  [out |-> s.out \o Separator(s, args) \o <<Item("token", n)>>,
   out_count |-> s.out_count + 1,
   has_written |-> TRUE,
   delimit_required |-> TRUE]

WriteOutput(s, args, n) ==
  IF BeginDiscard(s, args) THEN [s EXCEPT !.out_count = @ + 1]
                           ELSE WriteOutputNoTruncate(s, args, n)

(* --sed writes the text around the matches past the stream's own state.   *)
WriteBetween(s) == [s EXCEPT !.out = @ \o <<Item("between", 0)>>]

BatchRequired_WhenEmpty(s, args) == ~args.delimit_not_at_end /\ ~args.sed

BatchRequired(s, args) ==
  /\ ~args.delimit_not_at_end
  /\ s.has_written \/ args.delimit_on_empty
  /\ ~args.sed

FinishOutput(s, args) ==
  [out |-> IF BatchRequired(s, args) THEN Append(s.out, Item("batch", 0)) ELSE s.out,
   out_count |-> 0, has_written |-> FALSE, delimit_required |-> FALSE]

===============================================================================
