------------------------------ MODULE MCPipeline ------------------------------
(***************************************************************************)
(* Pipeline on small instances: the operations in every order of a few     *)
(* lists, in front of a collector that stores, or writes at once.          *)
(***************************************************************************)
EXTENDS Pipeline

Option(tui, sort, unique, start, stop) ==
  [sort |-> sort, sort_reverse |-> FALSE, sort_stable |-> FALSE,
   unique |-> unique, same_type |-> TRUE, flip |-> FALSE, tui |-> tui,
   sed |-> FALSE, truncate_no_bound |-> FALSE,
   out_start |-> start, out_end |-> stop, tail_start |-> -1, tail_end |-> -1,
   delimit_not_at_end |-> FALSE, delimit_on_empty |-> FALSE]

Single == {RmOp({1}), FilterOp({2, 3}), SubOp({1}, 2), ReplaceOp(3), InLimitOp(-1, 2),
           InLimitOp(1, 3), IndexOp("before"), IndexOp("after")}

MayFollow(p, q) == q.kind = "replace" => p.kind \in {"remove", "filter", "head"}

Lists ==
  {<<>>} \cup {<<p>> : p \in Single}
  \cup {<<p, q>> : p, q \in Single}
  \cup {<<p, q, r>> : p \in {FilterOp({2, 3}), InLimitOp(1, 3), IndexOp("before")},
                      q \in {SubOp({2}, 1), InLimitOp(-1, 2), IndexOp("after")},
                      r \in {RmOp({1}), InLimitOp(1, 2), IndexOp("before")}}

AllOps == {l \in Lists : \A i, j \in DOMAIN l : i < j => MayFollow(l[i], l[j])}

SelectOps == {<<TuiSelectOp({1})>>, <<TuiSelectOp({1}), RmOp({1})>>,
              <<SubOp({2}, 1), TuiSelectOp({1, 3}), FilterOp({1})>>}
AllAndSelectOps == AllOps \cup SelectOps

Stored == {Option(TRUE, FALSE, FALSE, -1, -1)}
Direct == {Option(FALSE, FALSE, FALSE, -1, -1), Option(FALSE, FALSE, FALSE, -1, 2),
           Option(FALSE, FALSE, FALSE, 1, 3), Option(FALSE, FALSE, TRUE, -1, -1)}

(* Options with which a token that is stored is put at the end.            *)
AppendOnly == Stored \cup {Option(TRUE, FALSE, FALSE, -1, 3), Option(TRUE, TRUE, FALSE, -1, -1)}
DirectOrAppendOnly == Direct \cup AppendOnly
SortedBounded == {Option(TRUE, TRUE, FALSE, -1, 2)}
===============================================================================
