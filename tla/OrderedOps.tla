----------------------------- MODULE OrderedOps -------------------------------
(***************************************************************************)
(* The ordered operations (ordered_op.hpp) and the pipeline process_token  *)
(* (token.hpp) sends a token through.  A token is its text, of which a     *)
(* pattern sees only which of a small set it is, and the marks --index put *)
(* on it.  An operation is a record; what it counts is part of it.         *)
(***************************************************************************)
EXTENDS Integers, SequencesExt

NoLow == -1

RmOp(matches) == [kind |-> "remove", matches |-> matches]
FilterOp(matches) == [kind |-> "filter", matches |-> matches]
SubOp(matches, replacement) ==
  [kind |-> "sub", matches |-> matches, replacement |-> replacement]
ReplaceOp(replacement) == [kind |-> "replace", replacement |-> replacement]
InLimitOp(low, high) == [kind |-> "head", low |-> low, high |-> high, in_count |-> 0]
IndexOp(align) == [kind |-> "index", align |-> align, index |-> 0]
TuiSelectOp(matches) == [kind |-> "tui_select", matches |-> matches]

EditKinds == {"sub", "replace", "index"}
OpKinds == EditKinds \cup {"remove", "filter", "head", "tui_select"}

(* --replace is refused after an operation that edits.                     *)
LegalOps(l) ==
  /\ \A i \in DOMAIN l : l[i].kind \in OpKinds
  /\ \A i \in DOMAIN l : l[i].kind = "replace" =>
       \A j \in 1..i - 1 : l[j].kind \in {"remove", "filter", "head"}

(* An operation that counts begins to at 0, and knows how far.             *)
Uncounted(op) ==
  /\ op.kind = "head" => /\ op.low \in Nat \cup {NoLow} /\ op.high \in Nat
                         /\ op = InLimitOp(op.low, op.high)
  /\ op.kind = "index" => op = IndexOp(op.align)

NewToken(text) == [text |-> text, marks |-> <<>>]

(* RmOrFilterOp::removes.                                                  *)
Removes(op, t) == (op.kind = "remove") <=> (t.text \in op.matches)

(* InLimitOp::apply.                                                       *)
LimitVerdict_DoneBelowLow(op) ==
  IF op.in_count < op.high /\ op.in_count >= op.low THEN "pass" ELSE "done"

LimitVerdict(op) ==
  IF op.low # NoLow /\ op.in_count < op.low THEN "remove"
  ELSE IF op.in_count < op.high THEN "pass" ELSE "done"

(* What happens to the token: it passes on, is removed, or ends the input. *)
Verdict(op, t) ==
  CASE op.kind \in {"remove", "filter"} -> IF Removes(op, t) THEN "remove" ELSE "pass"
    [] op.kind = "head" -> LimitVerdict(op)
    [] OTHER -> "pass"

Edited(op, t) ==
  CASE op.kind = "sub" ->
         IF t.text \in op.matches THEN [t EXCEPT !.text = op.replacement] ELSE t
    [] op.kind = "replace" -> NewToken(op.replacement)
    [] op.kind = "index" -> [t EXCEPT !.marks = Append(@, [align |-> op.align, index |-> op.index])]
    [] OTHER -> t

(* The operation has counted the token.                                    *)
Counted_PassedOnly(op) ==
  CASE op.kind = "head" /\ LimitVerdict(op) = "pass" -> [op EXCEPT !.in_count = @ + 1]
    [] op.kind = "index" -> [op EXCEPT !.index = @ + 1]
    [] OTHER -> op

Counted_Twice(op) ==
  IF op.kind = "head" THEN [op EXCEPT !.in_count = @ + 2] ELSE op

Counted(op) ==
  CASE op.kind = "head"  -> [op EXCEPT !.in_count = @ + 1]
    [] op.kind = "index" -> [op EXCEPT !.index = @ + 1]
    [] OTHER -> op

Selects(op, t) == op.kind = "tui_select" /\ t.text \in op.matches

(* A token on its way: the operations with their counts, the token as it   *)
(* is now, what became of it, and whether --tui-select has matched it.     *)
OnItsWay(ops, t) == [ops |-> ops, token |-> t, verdict |-> "pass", selects |-> FALSE]

AfterOp(r, i) ==
  IF r.verdict # "pass" THEN r
  ELSE [ops |-> [r.ops EXCEPT ![i] = Counted(r.ops[i])],
        token |-> Edited(r.ops[i], r.token),
        verdict |-> Verdict(r.ops[i], r.token),
        selects |-> r.selects \/ Selects(r.ops[i], r.token)]

(* The first n operations are applied.                                     *)
AfterOps(ops, t, n) == FoldLeft(AfterOp, OnItsWay(ops, t), [i \in 1..n |-> i])

(***************************************************************************)
(* What the operations promise: each is a function of the whole list that  *)
(* the one before it leaves.                                               *)
(***************************************************************************)
WithUnremoved(kept, t, op) == IF Removes(op, t) THEN kept ELSE Append(kept, t)

OnList(s, op) ==
  CASE op.kind \in {"remove", "filter"} ->
         FoldLeft(LAMBDA kept, t : WithUnremoved(kept, t, op), <<>>, s)
    [] op.kind = "head" ->
         SubSeq(s, 1 + (IF op.low = NoLow THEN 0 ELSE op.low),
                   IF op.high < Len(s) THEN op.high ELSE Len(s))
    [] op.kind = "index" ->
         [i \in DOMAIN s |-> Edited([op EXCEPT !.index = i - 1], s[i])]
    [] OTHER -> [i \in DOMAIN s |-> Edited(op, s[i])]

Composed(ops, texts) ==
  FoldLeft(OnList, [i \in DOMAIN texts |-> NewToken(texts[i])], ops)
===============================================================================
