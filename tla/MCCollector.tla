----------------------------- MODULE MCCollector ------------------------------
(***************************************************************************)
(* Option records for the runs of Collector.  Every run fixes the options  *)
(* it is not about and lets TLC choose all the others.                     *)
(***************************************************************************)
EXTENDS Collector

(* --out or --tail or neither, each with and without a start.              *)
RangesOf(Starts, Stops) ==
  {[out_start |-> NoLimit, out_end |-> NoLimit, tail_start |-> NoLimit, tail_end |-> NoLimit]}
  \cup {[out_start |-> s, out_end |-> e, tail_start |-> NoLimit, tail_end |-> NoLimit] :
          s \in Starts, e \in Stops}
  \cup {[out_start |-> NoLimit, out_end |-> NoLimit, tail_start |-> s, tail_end |-> e] :
          s \in Starts, e \in Stops}

Options(ranges, sorts, sed, ui, noBound, delims) ==
  {[sort |-> o.s.sort, sort_reverse |-> o.s.reverse, sort_stable |-> o.s.stable,
    unique |-> o.u.unique, same_type |-> o.u.same, flip |-> o.f, tui |-> o.t,
    sed |-> o.sed, truncate_no_bound |-> o.b,
    out_start |-> o.r.out_start, out_end |-> o.r.out_end,
    tail_start |-> o.r.tail_start, tail_end |-> o.r.tail_end,
    delimit_not_at_end |-> o.d.not_at_end, delimit_on_empty |-> o.d.on_empty] :
     o \in [r : ranges, s : sorts, u : [unique : BOOLEAN, same : BOOLEAN],
            f : BOOLEAN, t : ui, sed : sed, b : noBound, d : delims]}

Ranges == RangesOf({NoLimit, 0, 1}, 0..3)
FewRanges == RangesOf({NoLimit, 1}, {1, 3})

NoSort == [sort |-> FALSE, reverse |-> FALSE, stable |-> FALSE]
Sorts == {NoSort} \cup [sort : {TRUE}, reverse : BOOLEAN, stable : BOOLEAN]
Plain == [not_at_end |-> FALSE, on_empty |-> FALSE]

TailAndStable(o) == o.tail_end # NoLimit /\ o.sort /\ o.sort_stable

(* Options that bound the memory (a stable sort with --tail keeps others   *)
(* than the promise, see README.md).                                       *)
BoundedOptions ==
  {o \in Options(Ranges, Sorts, {FALSE}, BOOLEAN, {FALSE}, {Plain}) :
     /\ MemIsBounded(Compile(o)) /\ ~IsDirectOutput(Compile(o))
     /\ ~TailAndStable(o)
     /\ o.same_type}

(* Options that make the collector keep everything until the input ends.   *)
UnboundedOptions ==
  {o \in Options(FewRanges, Sorts, {FALSE}, {FALSE}, {TRUE}, {Plain}) :
     /\ ~IsDirectOutput(Compile(o))
     /\ ~TailAndStable(o)
     /\ o.same_type => o.unique}

StoredOptions == BoundedOptions \cup UnboundedOptions

(* Options that write the tokens as they arrive.                           *)
DirectOptions ==
  {o \in Options(Ranges, {NoSort}, BOOLEAN, {FALSE}, BOOLEAN,
                 [not_at_end : BOOLEAN, on_empty : BOOLEAN]) :
     IsDirectOutput(Compile(o)) /\ o.same_type}

AllOptions == StoredOptions \cup DirectOptions

===============================================================================
