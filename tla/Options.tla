-------------------------------- MODULE Options -------------------------------
(***************************************************************************)
(* The options that decide what becomes of the tokens (args.hpp): as the   *)
(* command line gives them, which Arguments reads, and as Arguments, after *)
(* UncompiledCodes::compile, which Collector uses.                         *)
(***************************************************************************)
EXTENDS Integers

(* A limit of --out or --tail that was not given (an empty std::optional). *)
NoLimit == -1
Limits == Nat \cup {NoLimit}

(* same_type is unique_type = sort_type.                                   *)
OptionType ==
  [sort : BOOLEAN, sort_reverse : BOOLEAN, sort_stable : BOOLEAN,
   unique : BOOLEAN, same_type : BOOLEAN, flip : BOOLEAN, tui : BOOLEAN,
   sed : BOOLEAN, truncate_no_bound : BOOLEAN,
   out_start : Limits, out_end : Limits,
   tail_start : Limits, tail_end : Limits,
   delimit_not_at_end : BOOLEAN, delimit_on_empty : BOOLEAN]

(* A start is never given without an end (parse_number_pair), and --sed is *)
(* refused with the options that prevent direct output.                    *)
Consistent(o) ==
  /\ o.out_start # NoLimit => o.out_end # NoLimit
  /\ o.tail_start # NoLimit => o.tail_end # NoLimit
  /\ o.sed => ~(o.tui \/ o.sort \/ o.flip \/ o.tail_end # NoLimit)

(* A sorted --tail keeps the head of the reversed order and turns the      *)
(* result around at the end.                                               *)
Turned_Never(o) == FALSE

Turned(o) == o.tail_end # NoLimit /\ o.sort

(* --tail overrides --out.                                                 *)
Compile(o) ==
  LET tail == o.tail_end # NoLimit
  IN [sort |-> o.sort, sort_reverse |-> o.sort_reverse # Turned(o),
      sort_stable |-> o.sort_stable, unique |-> o.unique,
      same_type |-> o.same_type, flip |-> o.flip # Turned(o), tui |-> o.tui,
      sed |-> o.sed, truncate_no_bound |-> o.truncate_no_bound, tail |-> tail,
      out_start |-> IF tail THEN o.tail_start ELSE o.out_start,
      out_end |-> IF tail THEN o.tail_end ELSE o.out_end,
      delimit_not_at_end |-> o.delimit_not_at_end,
      delimit_on_empty |-> o.delimit_on_empty]

IsDirectOutput(a) == ~a.tui /\ ~a.sort /\ ~a.flip /\ ~a.tail
TokensNotStored(a) == IsDirectOutput(a) /\ ~a.unique
MemIsBounded(a) == /\ a.out_end # NoLimit
                   /\ ~a.truncate_no_bound
                   /\ a.unique => a.sort /\ a.same_type
===============================================================================
