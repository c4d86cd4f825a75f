---------------------------- MODULE PipelineProofs -----------------------------
(***************************************************************************)
(* Theorems about Pipeline, for every list of operations, all options and  *)
(* any number of tokens.                                                   *)
(***************************************************************************)
EXTENDS Pipeline, SequenceLemmas

-------------------------------------------------------------------------------
(* One operation: what it does to a list with one more token is what it    *)
(* does to that token when it has counted the others.                      *)

CountedTo(op, n) ==
  CASE op.kind = "head"  -> [op EXCEPT !.in_count = n]
    [] op.kind = "index" -> [op EXCEPT !.index = n]
    [] OTHER -> op

Legal(op) == op.kind \in OpKinds /\ Uncounted(op)

SetUnremoved(kept, t, op) == WithUnremoved(kept, t, op)
U == INSTANCE FoldLemmas WITH Op <- SetUnremoved

LEMMA UnremovedIs ==
  ASSUME NEW op, op.kind \in {"remove", "filter"}, NEW s
  PROVE  OnList(s, op) = U!Fold(<<>>, s, op)
<1>1. OnList(s, op) = FoldLeft(LAMBDA kept, t : WithUnremoved(kept, t, op), <<>>, s)
  BY DEF OnList
<1>2. FoldLeft(LAMBDA kept, t : WithUnremoved(kept, t, op), <<>>, s) = U!Fold(<<>>, s, op)
  BY DEF U!Fold, FoldLeft, U!FoldLeft, MapThenFoldSet, U!MapThenFoldSet, Max, U!Max, SetUnremoved
<1> QED
  BY <1>1, <1>2

LEMMA UnremovedSequence ==
  ASSUME NEW op, op.kind \in {"remove", "filter"}, NEW s, IsSequence(s)
  PROVE  IsSequence(OnList(s, op))
<1>1. PICK S : s \in Seq(S)
  BY DEF IsSequence
<1>2. <<>> \in Seq(S)
  OBVIOUS
<1>3. \A x \in Seq(S), e \in S : SetUnremoved(x, e, op) \in Seq(S)
  BY DEF SetUnremoved, WithUnremoved
<1>4. U!Fold(<<>>, s, op) \in Seq(S)
  <2> DEFINE V == Seq(S)
  <2>1. <<>> \in V /\ s \in Seq(S) /\ \A x \in V, e \in S : SetUnremoved(x, e, op) \in V
    BY <1>1, <1>2, <1>3
  <2> HIDE DEF V
  <2>2. U!Fold(<<>>, s, op) \in V
    BY <2>1, U!FoldInSet
  <2> QED
    BY <2>2 DEF V
<1> QED
  BY <1>4, UnremovedIs DEF IsSequence

LEMMA UnremovedAppend ==
  ASSUME NEW op, op.kind \in {"remove", "filter"}, NEW s, IsSequence(s), NEW t
  PROVE  OnList(Append(s, t), op) = WithUnremoved(OnList(s, op), t, op)
<1>1. /\ DOMAIN s = 1..Len(s) /\ DOMAIN Append(s, t) = 1..Len(s) + 1 /\ Len(s) \in Nat
      /\ \A i \in 1..Len(s) : s[i] = Append(s, t)[i]
      /\ Append(s, t)[Len(s) + 1] = t
  BY AppendedSequence
<1>2. PICK l : l = Append(s, t)
  OBVIOUS
<1>3. PICK n \in Nat : n = Len(s)
  BY <1>1
<1>4. /\ DOMAIN s = 1..n /\ DOMAIN l = 1..n + 1 /\ \A i \in 1..n : s[i] = l[i]
      /\ l[n + 1] = t
  BY <1>1, <1>2, <1>3
<1>5. U!Fold(<<>>, l, op) = SetUnremoved(U!Fold(<<>>, s, op), l[n + 1], op)
  BY <1>4, U!FoldLast
<1> QED
  BY <1>2, <1>4, <1>5, UnremovedIs DEF SetUnremoved

(* The range that --head takes of a list.                                  *)
Taken(op, s) ==
  SubSeq(s, 1 + (IF op.low = NoLow THEN 0 ELSE op.low),
            IF op.high < Len(s) THEN op.high ELSE Len(s))

LEMMA TakenIs ==
  ASSUME NEW op, op.kind = "head", NEW s
  PROVE  OnList(s, op) = Taken(op, s)
  BY DEF OnList, Taken

(* An edit of each token, with an index if it is one.                      *)
LEMMA EditedIs ==
  ASSUME NEW op, op.kind \in OpKinds \ {"remove", "filter", "head"}, NEW s
  PROVE  OnList(s, op) = [i \in DOMAIN s |-> Edited(CountedTo(op, i - 1), s[i])]
<1>1. CASE op.kind = "index"
  BY <1>1 DEF OnList, CountedTo
<1>2. CASE op.kind # "index"
  <2>1. CountedTo(op, 0) = op /\ \A i : CountedTo(op, i) = op
    BY <1>2 DEF CountedTo
  <2>2. OnList(s, op) = [i \in DOMAIN s |-> Edited(op, s[i])]
    BY <1>2 DEF OnList
  <2> QED
    BY <2>1, <2>2
<1> QED
  BY <1>1, <1>2

LEMMA OnListSequence ==
  ASSUME NEW op, Legal(op), NEW s, IsSequence(s)
  PROVE  IsSequence(OnList(s, op))
<1>1. CASE op.kind \in {"remove", "filter"}
  BY <1>1, UnremovedSequence
<1>2. CASE op.kind = "head"
  <2>1. PICK S : s \in Seq(S)
    BY DEF IsSequence
  <2>2. /\ op.low \in Nat \cup {NoLow} /\ op.high \in Nat /\ Len(s) \in Nat
    BY <1>2, <2>1 DEF Legal, Uncounted
  <2> DEFINE m == 1 + (IF op.low = NoLow THEN 0 ELSE op.low)
             n == IF op.high < Len(s) THEN op.high ELSE Len(s)
  <2>3. m \in Nat \ {0} /\ n \in 0..Len(s)
    BY <2>2
  <2>4. OnList(s, op) = SubSeq(s, m, n)
    BY <1>2, TakenIs DEF Taken
  <2> HIDE DEF m, n
  <2> QED
    BY <2>3, <2>4, PartSequence
<1>3. CASE op.kind \notin {"remove", "filter", "head"}
  <2>1. OnList(s, op) = [i \in DOMAIN s |-> Edited(CountedTo(op, i - 1), s[i])]
    BY <1>3, EditedIs DEF Legal
  <2>2. PICK n \in Nat : DOMAIN s = 1..n
    BY SequenceFacts
  <2>3. PICK f : f = OnList(s, op)
    OBVIOUS
  <2>4. DOMAIN f = 1..n /\ f = [i \in 1..n |-> f[i]]
    BY <2>1, <2>2, <2>3
  <2>5. IsSequence(f)
    BY ONLY <2>2, <2>4, ListedSequence
  <2> QED
    BY <2>3, <2>5
<1> QED
  BY <1>1, <1>2, <1>3

LEMMA TakenAppend ==
  ASSUME NEW op, op.kind = "head", Legal(op), NEW s, IsSequence(s), NEW t
  PROVE  LET counted == CountedTo(op, Len(s))
         IN OnList(Append(s, t), op) =
              IF LimitVerdict(counted) = "pass" THEN Append(OnList(s, op), t) ELSE OnList(s, op)
<1> DEFINE l == Append(s, t)
           m == 1 + (IF op.low = NoLow THEN 0 ELSE op.low)
           n == IF op.high < Len(s) THEN op.high ELSE Len(s)
           n1 == IF op.high < Len(l) THEN op.high ELSE Len(l)
           r == SubSeq(s, m, n)
           r1 == SubSeq(l, m, n1)
<1>1. PICK k \in Nat : k = Len(s)
  BY SequenceFacts
<1>2. IsSequence(l) /\ Len(l) = k + 1 /\ (\A i \in 1..k : l[i] = s[i]) /\ l[k + 1] = t
  <2>1. /\ IsSequence(l) /\ DOMAIN l = 1..k + 1
        /\ (\A i \in 1..k : l[i] = s[i]) /\ l[k + 1] = t
    BY <1>1, AppendedSequence
  <2>2. DOMAIN l = 1..Len(l) /\ Len(l) \in Nat
    BY <2>1, SequenceFacts
  <2> HIDE DEF l
  <2> QED
    BY <2>1, <2>2
<1>3. /\ op.low \in Nat \cup {NoLow} /\ op.high \in Nat /\ op = InLimitOp(op.low, op.high)
  BY DEF Legal, Uncounted
<1>4. CountedTo(op, k).in_count = k /\ CountedTo(op, k).low = op.low /\ CountedTo(op, k).high = op.high
  BY <1>3 DEF CountedTo, InLimitOp
<1>5. LimitVerdict(CountedTo(op, k)) =
        IF op.low # NoLow /\ k < op.low THEN "remove" ELSE IF k < op.high THEN "pass" ELSE "done"
  BY <1>4 DEF LimitVerdict
<1>6. OnList(s, op) = r /\ OnList(l, op) = r1
  BY TakenIs DEF Taken
<1> HIDE DEF l
<1>7. /\ m \in Nat \ {0} /\ n \in 0..k /\ n1 \in 0..k + 1 /\ NoLow = -1
      /\ n = (IF op.high < k THEN op.high ELSE k) /\ n1 = (IF op.high < k + 1 THEN op.high ELSE k + 1)
      /\ (op.low # NoLow /\ k < op.low <=> k + 1 < m)
  BY <1>1, <1>2, <1>3 DEF NoLow
<1> HIDE DEF m, n, n1, r, r1
<1>8. /\ IsSequence(r) /\ Len(r) = (IF m <= n THEN n - m + 1 ELSE 0)
      /\ \A i \in 1..Len(r) : r[i] = s[m + i - 1]
  BY <1>1, <1>7, PartSequence DEF r
<1>9. /\ IsSequence(r1) /\ Len(r1) = (IF m <= n1 THEN n1 - m + 1 ELSE 0)
      /\ \A i \in 1..Len(r1) : r1[i] = l[m + i - 1]
  BY <1>2, <1>7, PartSequence DEF r1
<1>10. CASE LimitVerdict(CountedTo(op, k)) = "pass"
  <2>1. n1 = k + 1 /\ n = k /\ m <= k + 1
    BY <1>5, <1>7, <1>10
  <2> DEFINE a == Append(r, t)
  <2>2. /\ IsSequence(a) /\ DOMAIN a = 1..Len(r) + 1
        /\ (\A i \in 1..Len(r) : a[i] = r[i]) /\ a[Len(r) + 1] = t /\ Len(r) \in Nat
    BY <1>8, AppendedSequence
  <2>3. Len(a) = Len(r) + 1
    BY <2>2, SequenceFacts
  <2> HIDE DEF a
  <2>4. Len(r) = k + 1 - m /\ Len(r1) = k + 2 - m
    BY <1>7, <1>8, <1>9, <2>1
  <2>5. ASSUME NEW i \in 1..Len(a) PROVE a[i] = r1[i]
    <3>1. CASE i \in 1..Len(r)
      <4>1. m + i - 1 \in 1..k
        BY <1>7, <2>4, <3>1
      <4>2. i \in 1..Len(r1)
        BY <1>7, <2>4, <3>1
      <4> QED
        BY <1>2, <1>8, <1>9, <2>2, <3>1, <4>1, <4>2
    <3>2. CASE i = Len(r) + 1
      <4>1. m + i - 1 = k + 1 /\ i \in 1..Len(r1)
        BY <1>7, <2>4, <3>2
      <4> QED
        BY <1>2, <1>9, <2>2, <3>2, <4>1
    <3> QED
      BY <2>2, <2>3, <3>1, <3>2
  <2>6. Len(a) = Len(r1)
    BY <1>7, <2>3, <2>4
  <2>7. a = r1
    BY <1>9, <2>2, <2>5, <2>6, SameSequence
  <2> QED
    BY <1>1, <1>6, <1>10, <2>7 DEF a, l
<1>11. CASE LimitVerdict(CountedTo(op, k)) # "pass"
  <2>1. k + 1 < m \/ (n1 = n /\ n <= k)
    <3>1. (op.low # NoLow /\ k < op.low) \/ ~(k < op.high)
      BY <1>5, <1>11
    <3> QED
      BY <1>3, <1>7, <3>1
  <2>2. Len(r) = Len(r1) /\ Len(r) \in Nat
    BY <1>7, <1>8, <1>9, <2>1
  <2>3. ASSUME NEW i \in 1..Len(r) PROVE r[i] = r1[i]
    <3>1. m + i - 1 \in 1..k
      BY <1>7, <1>8, <2>1, <2>2
    <3> QED
      BY <1>2, <1>8, <1>9, <2>2, <3>1
  <2>4. r = r1
    BY <1>8, <1>9, <2>2, <2>3, SameSequence
  <2> QED
    BY <1>1, <1>6, <1>11, <2>4 DEF l
<1> QED
  BY <1>1, <1>10, <1>11

(* All kinds of operation.                                                 *)
LEMMA OnListAppend ==
  ASSUME NEW op, Legal(op), NEW s, IsSequence(s), NEW t
  PROVE  LET counted == CountedTo(op, Len(s))
         IN OnList(Append(s, t), op) =
              IF Verdict(counted, t) = "pass" THEN Append(OnList(s, op), Edited(counted, t))
              ELSE OnList(s, op)
<1> DEFINE counted == CountedTo(op, Len(s))
<1>1. op.kind \in OpKinds
  BY DEF Legal
<1>2. CASE op.kind \in {"remove", "filter"}
  <2>1. counted = op
    BY <1>2 DEF CountedTo
  <2>2. Verdict(op, t) = (IF Removes(op, t) THEN "remove" ELSE "pass") /\ Edited(op, t) = t
    BY <1>2 DEF Verdict, Edited
  <2>3. OnList(Append(s, t), op) = WithUnremoved(OnList(s, op), t, op)
    BY <1>2, UnremovedAppend
  <2> QED
    BY <2>1, <2>2, <2>3 DEF WithUnremoved
<1>3. CASE op.kind = "head"
  <2>1. counted.kind = "head"
    BY <1>3 DEF CountedTo, Legal, Uncounted, InLimitOp
  <2>2. Verdict(counted, t) = LimitVerdict(counted) /\ Edited(counted, t) = t
    BY <2>1 DEF Verdict, Edited
  <2>3. OnList(Append(s, t), op) =
          IF LimitVerdict(counted) = "pass" THEN Append(OnList(s, op), t) ELSE OnList(s, op)
    BY <1>3, TakenAppend
  <2> QED
    BY <2>2, <2>3
<1>4. CASE op.kind \notin {"remove", "filter", "head"}
  <2>1. \A i : CountedTo(op, i).kind = op.kind
    BY <1>4 DEF CountedTo, Legal, Uncounted, IndexOp
  <2>2. Verdict(counted, t) = "pass"
    BY <1>4, <2>1 DEF Verdict
  <2>3. /\ OnList(s, op) = [i \in DOMAIN s |-> Edited(CountedTo(op, i - 1), s[i])]
        /\ OnList(Append(s, t), op) =
             [i \in DOMAIN Append(s, t) |-> Edited(CountedTo(op, i - 1), Append(s, t)[i])]
    <3>1. op.kind \in OpKinds \ {"remove", "filter", "head"}
      BY <1>1, <1>4
    <3>2. PICK l : l = Append(s, t)
      OBVIOUS
    <3>3. OnList(s, op) = [i \in DOMAIN s |-> Edited(CountedTo(op, i - 1), s[i])]
      BY ONLY <3>1, EditedIs
    <3>4. OnList(l, op) = [i \in DOMAIN l |-> Edited(CountedTo(op, i - 1), l[i])]
      BY ONLY <3>1, EditedIs
    <3> QED
      BY <3>2, <3>3, <3>4
  <2> HIDE DEF counted
  <2>4. PICK k \in Nat : k = Len(s)
    BY SequenceFacts
  <2>5. PICK l : l = Append(s, t)
    OBVIOUS
  <2>6. /\ DOMAIN s = 1..k /\ DOMAIN l = 1..k + 1
        /\ (\A i \in 1..k : l[i] = s[i]) /\ l[k + 1] = t
    BY <2>4, <2>5, AppendedSequence
  <2>7. PICK u : u = OnList(s, op)
    OBVIOUS
  <2>8. PICK w : w = OnList(l, op)
    OBVIOUS
  <2>9. /\ IsSequence(u) /\ IsSequence(w) /\ DOMAIN u = 1..k /\ DOMAIN w = 1..k + 1
    <3>1. IsSequence(l)
      BY <2>5, AppendedSequence
    <3> QED
      BY <2>3, <2>5, <2>6, <2>7, <2>8, <3>1, OnListSequence
  <2>10. Len(u) = k /\ Len(w) = k + 1
    BY <2>4, <2>9, SequenceFacts
  <2> DEFINE a == Append(u, Edited(counted, t))
  <2>11. /\ IsSequence(a) /\ DOMAIN a = 1..k + 1
         /\ (\A i \in 1..k : a[i] = u[i]) /\ a[k + 1] = Edited(counted, t)
    BY <2>9, <2>10, AppendedSequence
  <2> HIDE DEF a
  <2>12. Len(a) = k + 1
    BY <2>4, <2>11, SequenceFacts
  <2>13. ASSUME NEW i \in 1..k + 1 PROVE a[i] = w[i]
    <3>1. w[i] = Edited(CountedTo(op, i - 1), l[i])
      BY <2>3, <2>5, <2>6, <2>8
    <3>2. CASE i \in 1..k
      BY <3>1, <3>2, <2>3, <2>6, <2>7, <2>11
    <3>3. CASE i = k + 1
      <4>1. i - 1 = k /\ l[i] = t /\ counted = CountedTo(op, k)
        BY <2>4, <2>6, <3>3 DEF counted
      <4> QED
        BY <3>1, <3>3, <4>1, <2>11
    <3> QED
      BY <2>4, <3>2, <3>3
  <2>14. a = w
    BY <2>9, <2>10, <2>11, <2>12, <2>13, SameSequence
  <2> QED
    BY <2>2, <2>5, <2>7, <2>8, <2>14 DEF a, counted
<1> QED
  BY <1>2, <1>3, <1>4

LEMMA CountedOne ==
  ASSUME NEW op, Legal(op), NEW n \in Nat
  PROVE  /\ Counted(CountedTo(op, n)) = CountedTo(op, n + 1)
         /\ CountedTo(op, n).kind = op.kind
<1>1. CASE op.kind = "head"
  BY <1>1 DEF CountedTo, Counted, Legal, Uncounted, InLimitOp
<1>2. CASE op.kind = "index"
  BY <1>2 DEF CountedTo, Counted, Legal, Uncounted, IndexOp
<1>3. CASE op.kind # "head" /\ op.kind # "index"
  BY <1>3 DEF CountedTo, Counted
<1> QED
  BY <1>1, <1>2, <1>3

(* Only --head ends the input, and then it ends it for whatever comes.     *)
LEMMA DoneIsDone ==
  ASSUME NEW op, Legal(op), NEW n \in Nat, NEW t, Verdict(CountedTo(op, n), t) = "done"
  PROVE  /\ op.kind = "head"
         /\ \A u : Verdict(CountedTo(op, n), u) = "done" /\ Verdict(CountedTo(op, n + 1), u) = "done"
<1>1. CountedTo(op, n).kind = op.kind /\ CountedTo(op, n + 1).kind = op.kind
  BY CountedOne
<1>2. op.kind = "head"
  BY <1>1 DEF Verdict
<1>3. /\ op.low \in Nat \cup {NoLow} /\ op.high \in Nat /\ op = InLimitOp(op.low, op.high)
  BY <1>2 DEF Legal, Uncounted
<1>4. ASSUME NEW m \in Nat
      PROVE  /\ CountedTo(op, m).in_count = m
             /\ CountedTo(op, m).low = op.low /\ CountedTo(op, m).high = op.high
  BY <1>2, <1>3 DEF CountedTo, InLimitOp
<1>5. ASSUME NEW m \in Nat
      PROVE  LimitVerdict(CountedTo(op, m)) =
        IF op.low # NoLow /\ m < op.low THEN "remove" ELSE IF m < op.high THEN "pass" ELSE "done"
  BY <1>4 DEF LimitVerdict
<1>6. \A u : /\ Verdict(CountedTo(op, n), u) = LimitVerdict(CountedTo(op, n))
             /\ Verdict(CountedTo(op, n + 1), u) = LimitVerdict(CountedTo(op, n + 1))
  BY <1>1, <1>2 DEF Verdict
<1>7. LimitVerdict(CountedTo(op, n)) = "done"
  BY <1>6
<1>8. ~(op.low # NoLow /\ n < op.low) /\ ~(n < op.high)
  BY <1>5, <1>7
<1>9. ~(op.low # NoLow /\ n + 1 < op.low) /\ ~(n + 1 < op.high) /\ n + 1 \in Nat
  BY <1>3, <1>8
<1>10. LimitVerdict(CountedTo(op, n + 1)) = "done"
  BY <1>5, <1>9
<1> QED
  BY <1>2, <1>6, <1>7, <1>10

-------------------------------------------------------------------------------
(* All operations: the lists that the first of them leave, and the token   *)
(* on its way past them.                                                   *)

Fresh(texts) == [i \in DOMAIN texts |-> NewToken(texts[i])]

Lists(v, l, texts, n) ==
  v[0] = Fresh(texts) /\ \A i \in 1..n : v[i] = OnList(v[i - 1], l[i])

SetOnList(s, op, k) == OnList(s, op)
L == INSTANCE FoldLemmas WITH Op <- SetOnList

LEMMA ListsOf ==
  ASSUME NEW l, IsSequence(l), NEW texts
  PROVE  \E v : Lists(v, l, texts, Len(l)) /\ Composed(l, texts) = v[Len(l)]
<1>1. Composed(l, texts) = FoldLeft(OnList, Fresh(texts), l)
  BY DEF Composed, Fresh
<1>2. FoldLeft(OnList, Fresh(texts), l) = L!Fold(Fresh(texts), l, 0)
  BY DEF L!Fold, FoldLeft, L!FoldLeft, MapThenFoldSet, L!MapThenFoldSet, Max, L!Max, SetOnList
<1>3. PICK n \in Nat : n = Len(l) /\ DOMAIN l = 1..n
  BY SequenceFacts
<1>4. PICK v : L!Steps(v, Fresh(texts), l, 0, n) /\ L!Fold(Fresh(texts), l, 0) = v[n]
  BY <1>3, L!FoldValues
<1>5. Lists(v, l, texts, n)
  BY <1>4 DEF L!Steps, Lists, SetOnList
<1> QED
  BY <1>1, <1>2, <1>3, <1>4, <1>5

LEMMA ListsSame ==
  ASSUME NEW l, NEW texts, NEW n \in Nat, NEW v, NEW w,
         Lists(v, l, texts, n), Lists(w, l, texts, n)
  PROVE  \A i \in 0..n : v[i] = w[i]
<1> DEFINE T == {i \in 0..n : v[i] = w[i]}
<1>1. 0 \in T
  BY DEF Lists
<1>2. \A i \in 1..n : i - 1 \in T => i \in T
  BY DEF Lists
<1> HIDE DEF T
<1>3. 0..n \subseteq T
  BY <1>1, <1>2, StepByStep
<1> QED
  BY <1>3 DEF T

Way(r, o, t, n) ==
  r[0] = OnItsWay(o, t) /\ \A i \in 1..n : r[i] = AfterOp(r[i - 1], i)

SetAfterOp(r, i, k) == AfterOp(r, i)
W == INSTANCE FoldLemmas WITH Op <- SetAfterOp

LEMMA WayOf ==
  ASSUME NEW o, NEW t, NEW n \in Nat
  PROVE  \E r : Way(r, o, t, n) /\ AfterOps(o, t, n) = r[n]
<1> DEFINE places == [i \in 1..n |-> i]
<1>1. AfterOps(o, t, n) = FoldLeft(AfterOp, OnItsWay(o, t), places)
  BY DEF AfterOps
<1>2. DOMAIN places = 1..n /\ \A i \in 1..n : places[i] = i
  OBVIOUS
<1> HIDE DEF places
<1>3. FoldLeft(AfterOp, OnItsWay(o, t), places) = W!Fold(OnItsWay(o, t), places, 0)
  BY DEF W!Fold, FoldLeft, W!FoldLeft, MapThenFoldSet, W!MapThenFoldSet, Max, W!Max, SetAfterOp
<1>4. PICK r : W!Steps(r, OnItsWay(o, t), places, 0, n) /\ W!Fold(OnItsWay(o, t), places, 0) = r[n]
  BY <1>2, W!FoldValues
<1>5. Way(r, o, t, n)
  BY <1>2, <1>4 DEF W!Steps, Way, SetAfterOp
<1> QED
  BY <1>1, <1>3, <1>4, <1>5

CountsOf(o, l, v, m) == \A i \in 1..m : o[i] = CountedTo(l[i], Len(v[i - 1]))

(* --head has seen its fill by now, and nothing will pass it any more.     *)
Full(l, w, j) ==
  \E i \in 1..j : /\ i \in DOMAIN l
                  /\ \A u : Verdict(CountedTo(l[i], Len(w[i - 1])), u) = "done"

(* After the first j of m operations: v are the lists without the token, w *)
(* those with it.                                                          *)
Along(j, m, n, l, o, r, v, w) ==
  /\ DOMAIN r[j].ops = 1..n
  /\ IsSequence(v[j]) /\ IsSequence(w[j])
  /\ r[j].verdict \in {"pass", "remove", "done"}
  /\ r[j].verdict = "pass" => w[j] = Append(v[j], r[j].token)
  /\ r[j].verdict # "pass" => w[j] = v[j]
  /\ \A i \in 1..j : r[j].ops[i] = CountedTo(l[i], Len(w[i - 1]))
  /\ \A i \in j + 1..n : r[j].ops[i] = o[i]
  /\ r[j].verdict = "done" => Full(l, w, j)

LEMMA FreshAppend ==
  ASSUME NEW texts, IsSequence(texts), NEW text
  PROVE  /\ IsSequence(Fresh(texts)) /\ Len(Fresh(texts)) = Len(texts)
         /\ Fresh(Append(texts, text)) = Append(Fresh(texts), NewToken(text))
<1>1. PICK n \in Nat : n = Len(texts) /\ DOMAIN texts = 1..n
  BY SequenceFacts
<1>2. PICK more : more = Append(texts, text)
  OBVIOUS
<1>3. /\ DOMAIN more = 1..n + 1 /\ (\A i \in 1..n : more[i] = texts[i]) /\ more[n + 1] = text
  BY <1>1, <1>2, AppendedSequence
<1>4. PICK f : f = Fresh(texts)
  OBVIOUS
<1>5. PICK g : g = Fresh(more)
  OBVIOUS
<1>6. DOMAIN f = 1..n /\ f = [i \in 1..n |-> f[i]] /\ \A i \in 1..n : f[i] = NewToken(texts[i])
  BY <1>1, <1>4 DEF Fresh
<1>7. /\ DOMAIN g = 1..n + 1 /\ g = [i \in 1..n + 1 |-> g[i]] /\ n + 1 \in Nat
      /\ \A i \in 1..n + 1 : g[i] = NewToken(more[i])
  BY <1>3, <1>5 DEF Fresh
<1>8. IsSequence(f) /\ Len(f) = n
  BY ONLY <1>6, n \in Nat, ListedSequence
<1>9. IsSequence(g) /\ Len(g) = n + 1
  BY ONLY <1>7, ListedSequence
<1>10. PICK a : a = Append(f, NewToken(text))
  OBVIOUS
<1>11. /\ IsSequence(a) /\ DOMAIN a = 1..n + 1
       /\ (\A i \in 1..n : a[i] = f[i]) /\ a[n + 1] = NewToken(text)
  BY <1>8, <1>10, AppendedSequence
<1>12. Len(a) = n + 1
  BY <1>11, SequenceFacts
<1>13. \A i \in 1..n + 1 : a[i] = g[i]
  BY <1>3, <1>6, <1>7, <1>11
<1>14. a = g
  BY <1>9, <1>11, <1>12, <1>13, SameSequence
<1> QED
  BY <1>1, <1>2, <1>4, <1>5, <1>8, <1>10, <1>14

(* The token passes one more operation, or what became of it stays.        *)
LEMMA AlongStep ==
  ASSUME NEW n \in Nat, NEW m \in 0..n, NEW j \in 1..m, NEW l, DOMAIN l = 1..n,
         Legal(l[j]), NEW o, NEW r, NEW v, NEW w,
         CountsOf(o, l, v, m), Along(j - 1, m, n, l, o, r, v, w),
         r[j] = AfterOp(r[j - 1], j),
         v[j] = OnList(v[j - 1], l[j]), w[j] = OnList(w[j - 1], l[j])
  PROVE  Along(j, m, n, l, o, r, v, w)
<1> DEFINE k == j - 1
<1>1. /\ k \in Nat /\ j \in 1..n /\ j \in k + 1..n /\ j = k + 1
  OBVIOUS
<1>2. /\ DOMAIN r[k].ops = 1..n
      /\ IsSequence(v[k]) /\ IsSequence(w[k])
      /\ r[k].verdict \in {"pass", "remove", "done"}
      /\ r[k].verdict = "pass" => w[k] = Append(v[k], r[k].token)
      /\ r[k].verdict # "pass" => w[k] = v[k]
      /\ \A i \in 1..k : r[k].ops[i] = CountedTo(l[i], Len(w[i - 1]))
      /\ \A i \in k + 1..n : r[k].ops[i] = o[i]
      /\ r[k].verdict = "done" => Full(l, w, k)
  BY DEF Along
<1> HIDE DEF k
<1>3. IsSequence(v[j]) /\ IsSequence(w[j])
  BY <1>1, <1>2, OnListSequence DEF k
<1>4. Len(v[k]) \in Nat /\ Len(w[k]) \in Nat
  BY <1>2, SequenceFacts
<1>5. r[k].ops[j] = CountedTo(l[j], Len(v[k]))
  BY <1>1, <1>2 DEF CountsOf, k
<1>6. Full(l, w, k) => Full(l, w, j)
  BY <1>1 DEF Full
<1>7. CASE r[k].verdict # "pass"
  <2>1. r[j] = r[k]
    BY <1>7 DEF AfterOp, k
  <2>2. v[k] = w[k]
    BY <1>2, <1>7
  <2>3. v[j] = w[j]
    BY <2>2 DEF k
  <2>4. \A i \in 1..j : r[j].ops[i] = CountedTo(l[i], Len(w[i - 1]))
    <3> SUFFICES ASSUME NEW i \in 1..j
                 PROVE  r[j].ops[i] = CountedTo(l[i], Len(w[i - 1]))
      OBVIOUS
    <3>1. CASE i \in 1..k
      BY <3>1, <1>2, <2>1
    <3>2. CASE i = j
      BY <3>2, <1>5, <2>1, <2>2 DEF k
    <3> QED
      BY <3>1, <3>2, <1>1
  <2>5. \A i \in j + 1..n : r[j].ops[i] = o[i]
    BY <1>1, <1>2, <2>1
  <2> QED
    BY <1>2, <1>3, <1>6, <1>7, <2>1, <2>3, <2>4, <2>5 DEF Along
<1>8. CASE r[k].verdict = "pass"
  <2>1. PICK t : t = r[k].token
    OBVIOUS
  <2>2. PICK op : op = CountedTo(l[j], Len(v[k]))
    OBVIOUS
  <2>3. /\ r[j].ops = [r[k].ops EXCEPT ![j] = Counted(op)]
        /\ r[j].token = Edited(op, t)
        /\ r[j].verdict = Verdict(op, t)
    BY <1>5, <1>8, <2>1, <2>2 DEF AfterOp, k
  <2>4. w[k] = Append(v[k], t)
    BY <1>2, <1>8, <2>1
  <2>5. w[j] = IF Verdict(op, t) = "pass" THEN Append(v[j], Edited(op, t)) ELSE v[j]
    <3>1. v[j] = OnList(v[k], l[j]) /\ w[j] = OnList(Append(v[k], t), l[j])
      BY <2>4 DEF k
    <3>2. PICK s : s = v[k]
      OBVIOUS
    <3>3. PICK e : e = l[j]
      OBVIOUS
    <3>4. Legal(e) /\ IsSequence(s)
      BY <1>2, <3>2, <3>3
    <3>5. OnList(Append(s, t), e) =
            IF Verdict(CountedTo(e, Len(s)), t) = "pass"
            THEN Append(OnList(s, e), Edited(CountedTo(e, Len(s)), t)) ELSE OnList(s, e)
      BY ONLY <3>4, OnListAppend
    <3> QED
      BY <2>2, <3>1, <3>2, <3>3, <3>5
  <2>6. Len(w[k]) = Len(v[k]) + 1
    <3>1. /\ IsSequence(w[k]) /\ DOMAIN w[k] = 1..Len(v[k]) + 1
      BY <1>2, <2>4, AppendedSequence
    <3> QED
      BY <3>1, <1>4, SequenceFacts
  <2>7. Counted(op) = CountedTo(l[j], Len(w[k]))
    BY <1>4, <2>2, <2>6, CountedOne
  <2>8. Verdict(op, t) \in {"pass", "remove", "done"}
    BY DEF Verdict, LimitVerdict
  <2>9. DOMAIN r[j].ops = 1..n
    BY <1>2, <2>3
  <2>10. \A i \in 1..j : r[j].ops[i] = CountedTo(l[i], Len(w[i - 1]))
    <3> SUFFICES ASSUME NEW i \in 1..j
                 PROVE  r[j].ops[i] = CountedTo(l[i], Len(w[i - 1]))
      OBVIOUS
    <3>1. CASE i \in 1..k
      <4>1. i # j /\ i \in 1..n
        BY <3>1, <1>1
      <4> QED
        BY <3>1, <4>1, <1>2, <2>3
    <3>2. CASE i = j
      <4>1. r[j].ops[j] = Counted(op)
        BY <1>1, <1>2, <2>3
      <4> QED
        BY <3>2, <4>1, <2>7 DEF k
    <3> QED
      BY <3>1, <3>2, <1>1
  <2>11. \A i \in j + 1..n : r[j].ops[i] = o[i]
    <3> SUFFICES ASSUME NEW i \in j + 1..n PROVE r[j].ops[i] = o[i]
      OBVIOUS
    <3>1. i # j /\ i \in 1..n /\ i \in k + 1..n
      BY <1>1
    <3> QED
      BY <3>1, <1>2, <2>3
  <2>12. ASSUME Verdict(op, t) = "done" PROVE Full(l, w, j)
    <3>1. \A u : Verdict(CountedTo(l[j], Len(w[k])), u) = "done"
      BY <1>4, <2>2, <2>6, <2>12, DoneIsDone
    <3>2. j \in 1..j
      BY <1>1
    <3> QED
      BY <3>1, <3>2, <1>1 DEF Full, k
  <2> QED
    BY <1>3, <2>3, <2>5, <2>8, <2>9, <2>10, <2>11, <2>12 DEF Along
<1> QED
  BY <1>7, <1>8

LEMMA AlongAll ==
  ASSUME NEW l, IsSequence(l), \A i \in DOMAIN l : Legal(l[i]),
         NEW texts, IsSequence(texts), NEW text, NEW v, NEW w,
         Lists(v, l, texts, Len(l)), Lists(w, l, Append(texts, text), Len(l)),
         NEW o, DOMAIN o = 1..Len(l), NEW m \in 0..Len(l), CountsOf(o, l, v, m),
         NEW r, Way(r, o, NewToken(text), m)
  PROVE  \A j \in 0..m : Along(j, m, Len(l), l, o, r, v, w)
<1>1. PICK n \in Nat : n = Len(l) /\ DOMAIN l = 1..n
  BY SequenceFacts
<1> DEFINE T == {j \in 0..m : Along(j, m, n, l, o, r, v, w)}
<1>2. m \in Nat /\ m <= n
  BY <1>1
<1>3. 0 \in T
  <2>1. /\ IsSequence(v[0]) /\ IsSequence(w[0])
        /\ w[0] = Append(v[0], NewToken(text))
    <3>1. v[0] = Fresh(texts) /\ w[0] = Fresh(Append(texts, text))
      BY DEF Lists
    <3>2. IsSequence(Append(texts, text))
      BY AppendedSequence
    <3> QED
      BY <3>1, <3>2, FreshAppend
  <2>2. r[0].ops = o /\ r[0].token = NewToken(text) /\ r[0].verdict = "pass"
    BY DEF Way, OnItsWay
  <2>3. Along(0, m, n, l, o, r, v, w)
    BY <1>1, <2>1, <2>2 DEF Along
  <2> QED
    BY <2>3, <1>2
<1>4. ASSUME NEW j \in 1..m, j - 1 \in T PROVE j \in T
  <2>1. Along(j - 1, m, n, l, o, r, v, w) /\ j \in DOMAIN l /\ j \in 0..m
    BY <1>1, <1>2, <1>4
  <2>2. /\ r[j] = AfterOp(r[j - 1], j)
        /\ v[j] = OnList(v[j - 1], l[j]) /\ w[j] = OnList(w[j - 1], l[j])
    BY <1>1, <1>2 DEF Way, Lists
  <2>3. Along(j, m, n, l, o, r, v, w)
    BY <1>1, <1>2, <2>1, <2>2, AlongStep
  <2> QED
    BY <2>1, <2>3
<1> HIDE DEF T
<1>5. 0..m \subseteq T
  BY <1>2, <1>3, <1>4, StepByStep
<1> QED
  BY <1>1, <1>5 DEF T

(* A token on its way keeps its shape, and has one of the texts.           *)
Shaped(t) == t = [text |-> t.text, marks |-> t.marks] /\ t.text \in Texts

Replaces(op) == op.kind \in {"sub", "replace"} => op.replacement \in Texts

LEMMA EditedShaped ==
  ASSUME NEW op, NEW t, Shaped(t), Replaces(op)
  PROVE  Shaped(Edited(op, t))
<1>1. CASE op.kind = "index"
  <2>1. Edited(op, t) = [t EXCEPT !.marks = Append(@, [align |-> op.align, index |-> op.index])]
    BY <1>1 DEF Edited
  <2> QED
    BY <2>1 DEF Shaped
<1>2. CASE op.kind \in {"sub", "replace"}
  <2>1. op.replacement \in Texts
    BY <1>2 DEF Replaces
  <2>2. CASE op.kind = "replace"
    BY <2>1, <2>2 DEF Edited, NewToken, Shaped
  <2>3. CASE op.kind = "sub" /\ t.text \in op.matches
    <3>1. Edited(op, t) = [t EXCEPT !.text = op.replacement]
      BY <2>3 DEF Edited
    <3> QED
      BY <2>1, <3>1 DEF Shaped
  <2>4. CASE op.kind = "sub" /\ t.text \notin op.matches
    BY <2>4 DEF Edited
  <2> QED
    BY <1>2, <2>2, <2>3, <2>4
<1>3. CASE op.kind \notin {"index", "sub", "replace"}
  BY <1>3 DEF Edited
<1> QED
  BY <1>1, <1>2, <1>3

LEMMA CountedReplaces ==
  ASSUME NEW op, Legal(op), Replaces(op), NEW c \in Nat
  PROVE  Replaces(CountedTo(op, c))
<1>1. CountedTo(op, c).kind = op.kind
  BY CountedOne
<1>2. op.kind \in {"sub", "replace"} => CountedTo(op, c) = op
  BY DEF CountedTo
<1> QED
  BY <1>1, <1>2 DEF Replaces

(* The operations have counted, the first m of them what the lists say.    *)
OpsCounted(o, l, v, m) ==
  /\ DOMAIN o = 1..Len(l)
  /\ CountsOf(o, l, v, m)
  /\ \A i \in 1..Len(l) : \E c \in Nat : o[i] = CountedTo(l[i], c)

LEMMA WayShaped ==
  ASSUME NEW l, IsSequence(l), \A i \in DOMAIN l : Legal(l[i]) /\ Replaces(l[i]),
         NEW o, DOMAIN o = 1..Len(l),
         \A i \in 1..Len(l) : \E c \in Nat : o[i] = CountedTo(l[i], c),
         NEW m \in 0..Len(l), NEW r, NEW text \in Texts, Way(r, o, NewToken(text), m)
  PROVE  \A j \in 0..m :
           /\ Shaped(r[j].token)
           /\ DOMAIN r[j].ops = 1..Len(l)
           /\ \A i \in 1..Len(l) : \E c \in Nat : r[j].ops[i] = CountedTo(l[i], c)
<1>1. PICK n \in Nat : n = Len(l) /\ DOMAIN l = 1..n
  BY SequenceFacts
<1> DEFINE P(j) == /\ Shaped(r[j].token)
                   /\ DOMAIN r[j].ops = 1..n
                   /\ \A i \in 1..n : \E c \in Nat : r[j].ops[i] = CountedTo(l[i], c)
           T == {j \in 0..m : P(j)}
<1>2. m \in Nat /\ m <= n
  BY <1>1
<1>3. P(0)
  <2>1. r[0].token = NewToken(text) /\ r[0].ops = o
    BY DEF Way, OnItsWay
  <2> QED
    BY <1>1, <2>1 DEF Shaped, NewToken
<1>4. ASSUME NEW j \in 1..m, P(j - 1) PROVE P(j)
  <2> DEFINE k == j - 1
  <2>1. r[j] = AfterOp(r[k], j) /\ j \in 1..n
    BY <1>2 DEF Way
  <2>2. /\ Shaped(r[k].token) /\ DOMAIN r[k].ops = 1..n
        /\ \A i \in 1..n : \E c \in Nat : r[k].ops[i] = CountedTo(l[i], c)
    BY <1>4
  <2> HIDE DEF k
  <2>3. CASE r[k].verdict # "pass"
    <3>1. r[j] = r[k]
      BY <2>1, <2>3 DEF AfterOp
    <3> QED
      BY <2>2, <3>1
  <2>4. CASE r[k].verdict = "pass"
    <3>1. PICK c \in Nat : r[k].ops[j] = CountedTo(l[j], c)
      BY <2>1, <2>2
    <3>2. PICK op : op = CountedTo(l[j], c)
      OBVIOUS
    <3>3. /\ r[j].ops = [r[k].ops EXCEPT ![j] = Counted(op)]
          /\ r[j].token = Edited(op, r[k].token)
      BY <2>1, <2>4, <3>1, <3>2 DEF AfterOp
    <3>4. Legal(l[j]) /\ Replaces(l[j])
      BY <1>1, <2>1
    <3>5. Counted(op) = CountedTo(l[j], c + 1) /\ c + 1 \in Nat /\ Replaces(op)
      BY <3>2, <3>4, CountedOne, CountedReplaces
    <3>6. Shaped(r[j].token)
      BY <2>2, <3>3, <3>5, EditedShaped
    <3>7. DOMAIN r[j].ops = 1..n
      BY <2>2, <3>3
    <3>8. ASSUME NEW i \in 1..n PROVE \E d \in Nat : r[j].ops[i] = CountedTo(l[i], d)
      <4>1. CASE i = j
        <5>1. r[j].ops[i] = Counted(op)
          BY <2>1, <2>2, <3>3, <4>1
        <5> QED
          BY <3>5, <4>1, <5>1
      <4>2. CASE i # j
        <5>1. r[j].ops[i] = r[k].ops[i]
          BY <2>1, <2>2, <3>3, <4>2
        <5> QED
          BY <2>2, <5>1
      <4> QED
        BY <4>1, <4>2
    <3> QED
      BY <3>6, <3>7, <3>8
  <2> QED
    BY <2>3, <2>4
<1> HIDE DEF P
<1>5. 0 \in T /\ \A i \in 1..m : i - 1 \in T => i \in T
  BY <1>2, <1>3, <1>4
<1> HIDE DEF T
<1>6. 0..m \subseteq T
  BY <1>2, <1>5, StepByStep
<1> QED
  BY <1>1, <1>6 DEF T, P

(* Of n operations a are applied to one more token, and the counts of m    *)
(* are those of the lists: all, but for a last one that edits.             *)
Applicable(l, n, m, a) ==
  \/ m = n /\ a = n
  \/ n # 0 /\ m = n /\ a = n - 1 /\ l[n].kind \in {"sub", "replace"}
  \/ n # 0 /\ m = n - 1 /\ a \in {n - 1, n} /\ l[n].kind = "index"

(* The lists with the token, where the last operation leaves it as e.      *)
Extended(l, n, m, a, r, v, w) ==
  /\ OpsCounted(r.ops, l, w, m)
  /\ r.verdict \in {"pass", "remove", "done"}
  /\ r.verdict = "pass" =>
       \E e : /\ w[n] = Append(v[n], e)
              /\ a = n => e.text = r.token.text
              /\ a = n /\ m = n => e = r.token
  /\ r.verdict # "pass" => w[n] = v[n]
  /\ r.verdict = "done" => Full(l, w, n)
  /\ Shaped(r.token)

LEMMA OneMore ==
  ASSUME NEW l, IsSequence(l), \A i \in DOMAIN l : Legal(l[i]) /\ Replaces(l[i]),
         NEW texts, IsSequence(texts), NEW text \in Texts,
         NEW v, Lists(v, l, texts, Len(l)),
         NEW w, Lists(w, l, Append(texts, text), Len(l)),
         NEW o, NEW m, NEW a, Applicable(l, Len(l), m, a), OpsCounted(o, l, v, m)
  PROVE  Extended(l, Len(l), m, a, AfterOps(o, NewToken(text), a), v, w)
<1>1. PICK n \in Nat : n = Len(l) /\ DOMAIN l = 1..n
  BY SequenceFacts
<1>2. m \in 0..n /\ a \in 0..n
  BY <1>1 DEF Applicable
<1>3. PICK rr : Way(rr, o, NewToken(text), a) /\ AfterOps(o, NewToken(text), a) = rr[a]
  BY <1>2, WayOf
<1>4. /\ DOMAIN o = 1..n /\ CountsOf(o, l, v, m)
      /\ \A i \in 1..n : \E c \in Nat : o[i] = CountedTo(l[i], c)
  BY <1>1 DEF OpsCounted
<1>5. \A j \in 0..a :
        /\ Shaped(rr[j].token)
        /\ DOMAIN rr[j].ops = 1..n
        /\ \A i \in 1..n : \E c \in Nat : rr[j].ops[i] = CountedTo(l[i], c)
  <2>1. /\ IsSequence(l) /\ \A i \in DOMAIN l : Legal(l[i]) /\ Replaces(l[i])
        /\ DOMAIN o = 1..Len(l) /\ a \in 0..Len(l)
        /\ \A i \in 1..Len(l) : \E c \in Nat : o[i] = CountedTo(l[i], c)
        /\ Way(rr, o, NewToken(text), a)
    BY <1>1, <1>2, <1>3, <1>4
  <2>2. \A j \in 0..a :
          /\ Shaped(rr[j].token)
          /\ DOMAIN rr[j].ops = 1..Len(l)
          /\ \A i \in 1..Len(l) : \E c \in Nat : rr[j].ops[i] = CountedTo(l[i], c)
    BY ONLY <2>1, text \in Texts, WayShaped
  <2> QED
    BY <1>1, <2>2
<1>6. a \in 0..a /\ Lists(v, l, texts, n) /\ Lists(w, l, Append(texts, text), n)
  BY <1>1, <1>2
<1>7. ASSUME NEW p \in 0..n, p <= m, p <= a
      PROVE  Along(p, p, n, l, o, rr, v, w)
  <2>1. CountsOf(o, l, v, p)
    BY <1>2, <1>4, <1>7 DEF CountsOf
  <2>2. Way(rr, o, NewToken(text), p)
    BY <1>2, <1>3, <1>7 DEF Way
  <2>3. p \in 0..Len(l) /\ p \in 0..p
    BY <1>1
  <2>4. \A j \in 0..p : Along(j, p, Len(l), l, o, rr, v, w)
    BY <1>1, <1>4, <2>1, <2>2, <2>3, AlongAll
  <2> QED
    BY <1>1, <2>3, <2>4
<1>8. CASE m = n /\ a = n
  <2>1. Along(n, n, n, l, o, rr, v, w)
    BY <1>7, <1>8
  <2>2. CountsOf(rr[n].ops, l, w, n)
    BY <2>1 DEF Along, CountsOf
  <2>3. OpsCounted(rr[n].ops, l, w, n)
    BY <1>1, <1>5, <1>6, <1>8, <2>2 DEF OpsCounted
  <2> QED
    BY <1>1, <1>3, <1>5, <1>6, <1>8, <2>1, <2>3 DEF Extended, Along
<1>9. CASE ~(m = n /\ a = n)
  <2> DEFINE p == n - 1
  <2>1. /\ n # 0 /\ l[n].kind \in {"sub", "replace", "index"}
        /\ m = n => a = n - 1 /\ l[n].kind # "index"
        /\ m = n \/ m = n - 1
        /\ a = n => m = n - 1
        /\ a = n \/ a = n - 1
    BY <1>1, <1>9 DEF Applicable
  <2>2. /\ p \in 0..n /\ p <= m /\ p <= a /\ n \in 1..n /\ p \in 0..a /\ p \in Nat
        /\ \A i \in 1..n : i \in 1..p \/ i = n
    BY <1>2, <2>1
  <2>3. Along(p, p, n, l, o, rr, v, w)
    BY <1>7, <2>2
  <2> HIDE DEF p
  <2>4. /\ IsSequence(v[p]) /\ IsSequence(w[p])
        /\ rr[p].verdict \in {"pass", "remove", "done"}
        /\ rr[p].verdict = "pass" => w[p] = Append(v[p], rr[p].token)
        /\ rr[p].verdict # "pass" => w[p] = v[p]
        /\ CountsOf(rr[p].ops, l, w, p)
        /\ rr[p].verdict = "done" => Full(l, w, p)
        /\ \A i \in p + 1..n : rr[p].ops[i] = o[i]
    BY <2>3 DEF Along, CountsOf
  <2>5. /\ v[n] = OnList(v[p], l[n]) /\ w[n] = OnList(w[p], l[n]) /\ Legal(l[n])
    BY <1>1, <1>6, <2>2 DEF Lists, p
  <2>6. \A c \in Nat : \A t : Verdict(CountedTo(l[n], c), t) = "pass"
    <3>1. \A c \in Nat : CountedTo(l[n], c).kind = l[n].kind
      BY <2>5, CountedOne
    <3> QED
      BY <2>1, <3>1 DEF Verdict
  <2>7. Len(v[p]) \in Nat
    BY <2>4, SequenceFacts
  <2> DEFINE e == Edited(CountedTo(l[n], Len(v[p])), rr[p].token)
  <2>8. rr[p].verdict = "pass" => w[n] = Append(v[n], e)
    <3> SUFFICES ASSUME rr[p].verdict = "pass" PROVE w[n] = Append(v[n], e)
      OBVIOUS
    <3>1. PICK s : s = v[p]
      OBVIOUS
    <3>2. PICK op : op = l[n]
      OBVIOUS
    <3>3. PICK t : t = rr[p].token
      OBVIOUS
    <3>4. Legal(op) /\ IsSequence(s)
      BY <2>4, <2>5, <3>1, <3>2
    <3>5. OnList(Append(s, t), op) =
            IF Verdict(CountedTo(op, Len(s)), t) = "pass"
            THEN Append(OnList(s, op), Edited(CountedTo(op, Len(s)), t)) ELSE OnList(s, op)
      BY ONLY <3>4, OnListAppend
    <3>6. Verdict(CountedTo(op, Len(s)), t) = "pass"
      BY <2>6, <2>7, <3>1, <3>2
    <3> QED
      BY <2>4, <2>5, <3>1, <3>2, <3>3, <3>5, <3>6
  <2>9. rr[p].verdict # "pass" => w[n] = v[n]
    BY <2>4, <2>5
  <2>10. Full(l, w, p) => Full(l, w, n)
    BY <2>2 DEF Full
  <2>11. /\ rr[a].verdict = rr[p].verdict
         /\ CountsOf(rr[a].ops, l, w, p)
         /\ a = n /\ rr[p].verdict = "pass" => e.text = rr[a].token.text
    <3>1. CASE a # n
      <4>1. a = p
        BY <2>1, <3>1 DEF p
      <4> QED
        BY <2>4, <3>1, <4>1
    <3>2. CASE a = n
      <4>1. rr[a] = AfterOp(rr[p], n) /\ l[n].kind = "index"
        BY <1>3, <2>1, <2>2, <3>2, <1>9 DEF Way, p, Applicable
      <4>2. CASE rr[p].verdict # "pass"
        <5>1. rr[a] = rr[p]
          BY <4>1, <4>2 DEF AfterOp
        <5> QED
          BY <2>4, <4>2, <5>1
      <4>3. CASE rr[p].verdict = "pass"
        <5>1. PICK c \in Nat : rr[p].ops[n] = CountedTo(l[n], c)
          BY <1>5, <2>2
        <5>2. PICK op : op = CountedTo(l[n], c)
          OBVIOUS
        <5>3. /\ rr[a].ops = [rr[p].ops EXCEPT ![n] = Counted(op)]
              /\ rr[a].token = Edited(op, rr[p].token)
              /\ rr[a].verdict = Verdict(op, rr[p].token)
          BY <4>1, <4>3, <5>1, <5>2 DEF AfterOp
        <5>4. rr[a].verdict = "pass"
          BY <2>6, <5>2, <5>3
        <5>5. CountsOf(rr[a].ops, l, w, p)
          <6> SUFFICES ASSUME NEW i \in 1..p
                       PROVE  rr[a].ops[i] = CountedTo(l[i], Len(w[i - 1]))
            BY DEF CountsOf
          <6>1. i # n /\ i \in 1..n
            BY <2>2 DEF p
          <6>2. DOMAIN rr[p].ops = 1..n
            BY <1>5, <2>2
          <6>3. rr[a].ops[i] = rr[p].ops[i]
            BY <5>3, <6>1, <6>2
          <6> QED
            BY <2>4, <6>3 DEF CountsOf
        <5>6. Shaped(rr[p].token)
          BY <1>5, <2>2
        <5>7. \A d \in Nat : Edited(CountedTo(l[n], d), rr[p].token).text = rr[p].token.text
          <6> SUFFICES ASSUME NEW d \in Nat
                       PROVE  Edited(CountedTo(l[n], d), rr[p].token).text = rr[p].token.text
            OBVIOUS
          <6>1. PICK q : q = CountedTo(l[n], d)
            OBVIOUS
          <6>2. q.kind = "index"
            BY <2>5, <4>1, <6>1, CountedOne
          <6>3. Edited(q, rr[p].token) =
                  [rr[p].token EXCEPT !.marks = Append(@, [align |-> q.align, index |-> q.index])]
            BY <6>2 DEF Edited
          <6> QED
            BY <5>6, <6>1, <6>3 DEF Shaped
        <5> QED
          BY <2>7, <4>3, <5>2, <5>3, <5>4, <5>5, <5>7
      <4> QED
        BY <4>2, <4>3
    <3> QED
      BY <3>1, <3>2
  <2>12. CountsOf(rr[a].ops, l, w, m)
    <3>1. CASE m = p
      BY <2>11, <3>1
    <3>2. CASE m = n
      <4>1. a = p /\ l[n].kind \in {"sub", "replace"}
        BY <2>1, <3>2 DEF p
      <4>2. rr[p].ops[n] = o[n] /\ n \in p + 1..n
        BY <2>2, <2>4 DEF p
      <4>3. o[n] = CountedTo(l[n], Len(v[p]))
        BY <1>4, <2>2, <3>2 DEF CountsOf, p
      <4>4. CountedTo(l[n], Len(v[p])) = CountedTo(l[n], Len(w[n - 1]))
        BY <4>1 DEF CountedTo
      <4>5. rr[a].ops[n] = CountedTo(l[n], Len(w[n - 1]))
        BY <4>1, <4>2, <4>3, <4>4
      <4> QED
        BY <2>2, <2>11, <3>2, <4>5 DEF CountsOf
    <3> QED
      BY <2>1, <3>1, <3>2 DEF p
  <2>13. OpsCounted(rr[a].ops, l, w, m)
    BY <1>1, <1>5, <1>6, <2>12 DEF OpsCounted
  <2> HIDE DEF e
  <2>14. Shaped(rr[a].token)
    BY <1>5, <1>6
  <2> QED
    BY <1>1, <1>3, <1>9, <2>4, <2>8, <2>9, <2>10, <2>11, <2>13, <2>14 DEF Extended
<1> QED
  BY <1>8, <1>9

(* No operation makes a list longer.                                       *)
LEMMA UnremovedBounded ==
  ASSUME NEW op, op.kind \in {"remove", "filter"}, NEW s, IsSequence(s)
  PROVE  Len(OnList(s, op)) <= Len(s)
<1>1. PICK n \in Nat : n = Len(s) /\ DOMAIN s = 1..n
  BY SequenceFacts
<1>2. PICK v : U!Steps(v, <<>>, s, op, n) /\ U!Fold(<<>>, s, op) = v[n]
  BY <1>1, U!FoldValues
<1> DEFINE T == {i \in 0..n : IsSequence(v[i]) /\ Len(v[i]) <= i}
<1>3. 0 \in T
  <2>1. v[0] = <<>>
    BY <1>2 DEF U!Steps
  <2>2. <<>> \in Seq({}) /\ Len(<<>>) = 0
    OBVIOUS
  <2>3. IsSequence(<<>>)
    BY <2>2 DEF IsSequence
  <2> QED
    BY <2>1, <2>2, <2>3
<1>4. ASSUME NEW i \in 1..n, i - 1 \in T PROVE i \in T
  <2>1. PICK u : u = v[i - 1]
    OBVIOUS
  <2>2. PICK e : e = s[i]
    OBVIOUS
  <2>3. v[i] = u \/ v[i] = Append(u, e)
    BY <1>2, <2>1, <2>2 DEF U!Steps, SetUnremoved, WithUnremoved
  <2>4. IsSequence(u) /\ Len(u) <= i - 1 /\ Len(u) \in Nat
    BY <1>4, <2>1, SequenceFacts
  <2>5. IsSequence(Append(u, e)) /\ DOMAIN Append(u, e) = 1..Len(u) + 1
    BY <2>4, AppendedSequence
  <2>6. Len(Append(u, e)) = Len(u) + 1
    BY <2>4, <2>5, SequenceFacts
  <2>7. IsSequence(v[i]) /\ Len(v[i]) <= i
    <3>1. PICK x : x = Append(u, e)
      OBVIOUS
    <3>2. IsSequence(x) /\ Len(x) = Len(u) + 1 /\ (v[i] = u \/ v[i] = x)
      BY ONLY <2>3, <2>5, <2>6, <3>1
    <3>3. i \in Int /\ Len(u) + 1 <= i
      BY <2>4
    <3> QED
      BY ONLY <2>4, <3>2, <3>3
  <2> QED
    BY <2>7
<1> HIDE DEF T
<1>5. 0..n \subseteq T
  BY <1>3, <1>4, StepByStep
<1>6. Len(v[n]) <= n
  BY <1>5 DEF T
<1> QED
  BY <1>1, <1>2, <1>6, UnremovedIs

LEMMA ListBounded ==
  ASSUME NEW op, Legal(op), NEW s, IsSequence(s)
  PROVE  Len(OnList(s, op)) <= Len(s)
<1>1. CASE op.kind \in {"remove", "filter"}
  BY <1>1, UnremovedBounded
<1>2. CASE op.kind = "head"
  <2>1. /\ op.low \in Nat \cup {NoLow} /\ op.high \in Nat /\ Len(s) \in Nat
    BY <1>2, SequenceFacts DEF Legal, Uncounted
  <2> DEFINE m == 1 + (IF op.low = NoLow THEN 0 ELSE op.low)
             n == IF op.high < Len(s) THEN op.high ELSE Len(s)
  <2>2. m \in Nat \ {0} /\ n \in 0..Len(s)
    BY <2>1
  <2>3. OnList(s, op) = SubSeq(s, m, n)
    BY <1>2, TakenIs DEF Taken
  <2> HIDE DEF m, n
  <2>4. Len(SubSeq(s, m, n)) = IF m <= n THEN n - m + 1 ELSE 0
    BY <2>2, PartSequence
  <2> QED
    BY <2>1, <2>2, <2>3, <2>4
<1>3. CASE op.kind \notin {"remove", "filter", "head"}
  <2>1. op.kind \in OpKinds \ {"remove", "filter", "head"}
    BY <1>3 DEF Legal
  <2>2. OnList(s, op) = [i \in DOMAIN s |-> Edited(CountedTo(op, i - 1), s[i])]
    BY <2>1, EditedIs
  <2>3. IsSequence(OnList(s, op))
    BY OnListSequence
  <2>4. PICK t : t = OnList(s, op)
    OBVIOUS
  <2>5. DOMAIN t = DOMAIN s /\ IsSequence(t)
    BY <2>2, <2>3, <2>4
  <2>6. DOMAIN s = 1..Len(s) /\ Len(s) \in Nat /\ DOMAIN t = 1..Len(t) /\ Len(t) \in Nat
    BY <2>5, SequenceFacts
  <2> QED
    BY <2>4, <2>5, <2>6
<1> QED
  BY <1>1, <1>2, <1>3

LEMMA ListsBounded ==
  ASSUME NEW l, IsSequence(l), \A i \in DOMAIN l : Legal(l[i]),
         NEW texts, IsSequence(texts), NEW v, Lists(v, l, texts, Len(l))
  PROVE  \A j \in 0..Len(l) : IsSequence(v[j]) /\ Len(v[j]) \in 0..Len(texts)
<1>1. PICK n \in Nat : n = Len(l) /\ DOMAIN l = 1..n
  BY SequenceFacts
<1>2. Len(texts) \in Nat
  BY SequenceFacts
<1> DEFINE T == {j \in 0..n : IsSequence(v[j]) /\ Len(v[j]) \in 0..Len(texts)}
<1>3. 0 \in T
  <2>1. v[0] = Fresh(texts)
    BY DEF Lists
  <2>2. IsSequence(Fresh(texts)) /\ Len(Fresh(texts)) = Len(texts)
    BY FreshAppend
  <2> QED
    BY <1>2, <2>1, <2>2
<1>4. ASSUME NEW i \in 1..n, i - 1 \in T PROVE i \in T
  <2>1. v[i] = OnList(v[i - 1], l[i]) /\ Legal(l[i]) /\ IsSequence(v[i - 1])
    BY <1>1, <1>4 DEF Lists
  <2>2. IsSequence(v[i]) /\ Len(v[i]) <= Len(v[i - 1])
    BY <2>1, OnListSequence, ListBounded
  <2>3. Len(v[i]) \in Nat
    BY <2>2, SequenceFacts
  <2> QED
    BY <1>2, <1>4, <2>2, <2>3
<1> HIDE DEF T
<1>5. 0..n \subseteq T
  BY <1>3, <1>4, StepByStep
<1> QED
  BY <1>1, <1>5 DEF T

(* Nothing passes a --head that has seen its fill.                         *)
LEMMA NothingPassesFull ==
  ASSUME NEW l, IsSequence(l), \A i \in DOMAIN l : Legal(l[i]),
         NEW texts, IsSequence(texts), NEW text, NEW v, NEW w,
         Lists(v, l, texts, Len(l)), Lists(w, l, Append(texts, text), Len(l)),
         Full(l, v, Len(l))
  PROVE  w[Len(l)] = v[Len(l)]
<1>1. PICK n \in Nat : n = Len(l) /\ DOMAIN l = 1..n
  BY SequenceFacts
<1>2. PICK f \in 1..n : \A u : Verdict(CountedTo(l[f], Len(v[f - 1])), u) = "done"
  BY <1>1 DEF Full
<1> DEFINE o == [i \in 1..n |-> CountedTo(l[i], Len(v[i - 1]))]
<1>3. DOMAIN o = 1..Len(l) /\ CountsOf(o, l, v, n)
  BY <1>1 DEF CountsOf
<1> HIDE DEF o
<1>4. PICK r : Way(r, o, NewToken(text), n)
  BY WayOf
<1>5. \A j \in 0..n : Along(j, n, n, l, o, r, v, w)
  <2>1. n \in 0..Len(l)
    BY <1>1
  <2>2. \A j \in 0..n : Along(j, n, Len(l), l, o, r, v, w)
    BY <1>3, <1>4, <2>1, AlongAll
  <2> QED
    BY <1>1, <2>2
<1> DEFINE T == {j \in 0..n : j >= f => r[j].verdict # "pass"}
<1>6. 0 \in T
  BY <1>1, <1>2
<1>7. ASSUME NEW i \in 1..n, i - 1 \in T PROVE i \in T
  <2>1. r[i] = AfterOp(r[i - 1], i)
    BY <1>4 DEF Way
  <2>2. CASE i < f
    <3>1. ~(i >= f) /\ i \in 0..n
      BY <1>1, <1>2, <2>2
    <3> QED
      BY <3>1
  <2>3. CASE i = f
    <3>1. CASE r[i - 1].verdict = "pass"
      <4>1. Along(i - 1, n, n, l, o, r, v, w) /\ i \in (i - 1) + 1..n
        BY <1>5
      <4>2. r[i - 1].ops[i] = CountedTo(l[i], Len(v[i - 1]))
        BY <1>3, <4>1 DEF Along, CountsOf
      <4>3. r[i].verdict = Verdict(r[i - 1].ops[i], r[i - 1].token)
        BY <2>1, <3>1 DEF AfterOp
      <4>4. r[i].verdict = "done"
        BY <1>2, <2>3, <4>2, <4>3
      <4> QED
        BY <4>4
    <3>2. CASE r[i - 1].verdict # "pass"
      <4>1. r[i] = r[i - 1]
        BY <2>1, <3>2 DEF AfterOp
      <4> QED
        BY <3>2, <4>1
    <3> QED
      BY <3>1, <3>2
  <2>4. CASE i > f
    <3>1. r[i - 1].verdict # "pass"
      BY <1>7, <2>4
    <3>2. r[i] = r[i - 1]
      BY <2>1, <3>1 DEF AfterOp
    <3> QED
      BY <3>1, <3>2
  <2> QED
    BY <2>2, <2>3, <2>4
<1> HIDE DEF T
<1>8. 0..n \subseteq T
  BY <1>6, <1>7, StepByStep
<1>9. r[n].verdict # "pass" /\ Along(n, n, n, l, o, r, v, w)
  BY <1>5, <1>8 DEF T
<1> QED
  BY <1>1, <1>9 DEF Along

-------------------------------------------------------------------------------
(* The collector here is the one CollectorProofs is about.                 *)
CP == INSTANCE CollectorProofs

LEMMA SameInit == C!Init => CP!Init
  BY DEF C!Init, CP!Init, C!Compile, CP!Compile, C!Turned, CP!Turned,
    C!NoLimit, CP!NoLimit, C!NewStream, CP!NewStream

LEMMA SameArrival == \A k, u : C!Arrival(k, u) = CP!Arrival(k, u)
  BY DEF C!Arrival, CP!Arrival

LEMMA SameReading == (C!Reading <=> CP!Reading) /\ \A t : C!Arrive(t) <=> CP!Arrive(t)
  BY DEF C!Reading, CP!Reading, C!Arrive, CP!Arrive

LEMMA SamePaths ==
  \A a : /\ C!IsDirectOutput(a) <=> CP!IsDirectOutput(a)
         /\ C!TokensNotStored(a) <=> CP!TokensNotStored(a)
         /\ C!MemIsBounded(a) <=> CP!MemIsBounded(a)
  BY DEF C!IsDirectOutput, CP!IsDirectOutput, C!TokensNotStored,
    CP!TokensNotStored, C!MemIsBounded, CP!MemIsBounded, C!NoLimit,
    CP!NoLimit

LEMMA SameStore == \A t : C!CheckUniqueThenAppend(t) = CP!CheckUniqueThenAppend(t)
  BY DEF C!CheckUniqueThenAppend, CP!CheckUniqueThenAppend,
    C!AppendUnbounded, CP!AppendUnbounded, C!IsDuplicate, CP!IsDuplicate,
    C!SameUnique, CP!SameUnique, C!InsertBounded, CP!InsertBounded,
    C!ShiftBounded, CP!ShiftBounded, C!MemIsBounded, CP!MemIsBounded,
    C!UpperBound, CP!UpperBound, C!Before, CP!Before, C!AtInsertion,
    CP!AtInsertion, C!AtLimit, CP!AtLimit, C!WithoutExcess,
    CP!WithoutExcess, C!InsertAt, CP!InsertAt, C!NoLimit, CP!NoLimit

LEMMA SameDuplicate == \A t : C!IsDuplicate(t) <=> CP!IsDuplicate(t)
  BY DEF C!IsDuplicate, CP!IsDuplicate, C!SameUnique, CP!SameUnique

LEMMA SameWrites ==
  \A s, a, n : /\ C!WriteOutput(s, a, n) = CP!WriteOutput(s, a, n)
               /\ C!WriteOutputNoTruncate(s, a, n) = CP!WriteOutputNoTruncate(s, a, n)
               /\ C!FinishOutput(s, a) = CP!FinishOutput(s, a)
               /\ C!OutputComplete(s) <=> CP!OutputComplete(s)
  BY DEF C!WriteOutput, CP!WriteOutput, C!WriteOutputNoTruncate,
    CP!WriteOutputNoTruncate, C!BeginDiscard, CP!BeginDiscard, C!Separator,
    CP!Separator, C!Item, CP!Item, C!FinishOutput, CP!FinishOutput,
    C!BatchRequired, CP!BatchRequired, C!NoLimit, CP!NoLimit,
    C!OutputComplete, CP!OutputComplete

LEMMA SameForward == \A t : C!ForwardToken(t) <=> CP!ForwardToken(t)
  BY SameReading, SamePaths, SameStore, SameDuplicate, SameWrites
     DEF C!ForwardToken, CP!ForwardToken

LEMMA SameStoreToken == \A t : C!StoreToken(t) <=> CP!StoreToken(t)
  BY SameReading, SamePaths, SameStore DEF C!StoreToken, CP!StoreToken

LEMMA SameEndOfInput == C!EndOfInput <=> CP!EndOfInput
  BY SamePaths, SameWrites DEF C!EndOfInput, CP!EndOfInput

LEMMA SameFinalise == C!Finalise <=> CP!Finalise
  BY DEF C!Finalise, CP!Finalise, C!EndTruncations, CP!EndTruncations,
    C!Flipped, CP!Flipped, C!StartTruncated, CP!StartTruncated,
    C!CountsFromBack, CP!CountsFromBack, C!MemIsBounded, CP!MemIsBounded,
    C!NoLimit, CP!NoLimit, C!Arrangements, CP!Arrangements, C!Smaller,
    CP!Smaller, C!Before, CP!Before, C!Reverse, CP!Reverse, C!Injection,
    CP!Injection, C!IsInjective, CP!IsInjective, C!Range, CP!Range

LEMMA SameWriteNext == C!WriteNext <=> CP!WriteNext
  BY SameWrites DEF C!WriteNext, CP!WriteNext

LEMMA SameFinish == C!Finish <=> CP!Finish
  BY SameWrites DEF C!Finish, CP!Finish

CollectorAssumptions ==
  /\ Keys \subseteq Int
  /\ OptionSets \subseteq CP!OptionType /\ \A o \in OptionSets : CP!Consistent(o)
  /\ MaxTokens \in Nat /\ MaxFragments \in Nat

LEMMA Assumptions == CollectorAssumptions
  BY CollectorAssumption
     DEF CollectorAssumptions, C!OptionType, CP!OptionType, C!Limits, CP!Limits, C!NoLimit,
         CP!NoLimit, C!Consistent, CP!Consistent

(* What a step does to the collector, it could do by itself.               *)
CollectorVars == <<options, args, arrivals, fragments, output, stream, next, phase>>

LEMMA CollectorStep == [Next]_vars => [CP!Next]_CollectorVars
<1> SUFFICES ASSUME [Next]_vars PROVE [CP!Next]_CollectorVars
  OBVIOUS
<1>1. ASSUME NEW text \in Texts, NEW k \in Keys, NEW u \in Keys, ProcessToken(text, k, u)
      PROVE  CP!Next \/ UNCHANGED CollectorVars
  <2>1. \/ C!ForwardToken(C!Arrival(k, u)) \/ C!StoreToken(C!Arrival(k, u))
        \/ C!EndOfInput \/ UNCHANGED CollectorVars
    <3> DEFINE r == AfterAll(text)
    <3>1. CASE r.verdict = "pass"
      BY <1>1, <3>1 DEF ProcessToken, Pass
    <3>2. CASE r.verdict = "done"
      BY <1>1, <3>2 DEF ProcessToken
    <3>3. CASE r.verdict \notin {"pass", "done"}
      BY <1>1, <3>3 DEF ProcessToken, CollectorVars
    <3> QED
      BY <3>1, <3>2, <3>3
  <2>2. \/ CP!ForwardToken(CP!Arrival(k, u)) \/ CP!StoreToken(CP!Arrival(k, u))
        \/ CP!EndOfInput \/ UNCHANGED CollectorVars
    BY <2>1, SameArrival, SameForward, SameStoreToken, SameEndOfInput
  <2> QED
    BY <2>2 DEF CP!Next
<1>2. EndOfInput => CP!Next
  BY SameEndOfInput DEF EndOfInput, CP!Next
<1>3. Conclude => CP!Next
  BY SameFinalise, SameWriteNext, SameFinish DEF Conclude, CP!Next
<1>4. Terminated \/ UNCHANGED vars => UNCHANGED CollectorVars
  BY DEF Terminated, vars, CollectorVars
<1> QED
  BY <1>1, <1>2, <1>3, <1>4 DEF Next

LEMMA CollectorInvariance == Spec => [](CP!Inv /\ CP!Traced)
<1>1. Init => CP!Inv /\ CP!Traced
  BY Assumptions, SameInit, CP!InitInv, CP!InitTraced DEF Init, CollectorAssumptions
<1>2. CP!Inv /\ CP!Traced /\ [Next]_vars => (CP!Inv /\ CP!Traced)'
  <2>2. [CP!Next]_CollectorVars => [CP!Next]_(CP!vars)
    BY DEF CP!vars, CollectorVars
  <2>3. CP!Inv /\ [CP!Next]_(CP!vars) => CP!Inv'
    BY Assumptions, CP!NextInv DEF CollectorAssumptions
  <2>4. CP!Inv /\ CP!Traced /\ [CP!Next]_(CP!vars) => CP!Traced'
    BY Assumptions, CP!NextTraced DEF CollectorAssumptions
  <2> QED
    BY <2>2, <2>3, <2>4, CollectorStep
<1> QED
  BY <1>1, <1>2, PTL DEF Spec

-------------------------------------------------------------------------------
(* The operations and the collector together.                              *)

(* Only --tui-select asks for a token to be selected.                      *)
LEMMA SelectsByKind ==
  ASSUME NEW l, IsSequence(l), \A i \in DOMAIN l : Legal(l[i]) /\ Replaces(l[i]),
         NEW o, DOMAIN o = 1..Len(l),
         \A i \in 1..Len(l) : \E c \in Nat : o[i] = CountedTo(l[i], c),
         NEW a \in 0..Len(l), NEW text \in Texts,
         AfterOps(o, NewToken(text), a).selects
  PROVE  \E i \in DOMAIN l : l[i].kind = "tui_select"
<1>1. PICK n \in Nat : n = Len(l) /\ DOMAIN l = 1..n
  BY SequenceFacts
<1>2. PICK r : Way(r, o, NewToken(text), a) /\ AfterOps(o, NewToken(text), a) = r[a]
  BY <1>1, WayOf
<1>3. \A j \in 0..a : \A i \in 1..n : \E c \in Nat : r[j].ops[i] = CountedTo(l[i], c)
  <2>1. \A j \in 0..a :
          /\ Shaped(r[j].token)
          /\ DOMAIN r[j].ops = 1..Len(l)
          /\ \A i \in 1..Len(l) : \E c \in Nat : r[j].ops[i] = CountedTo(l[i], c)
    BY <1>2, WayShaped
  <2> QED
    BY <1>1, <2>1
<1>4. SUFFICES ASSUME \A i \in DOMAIN l : l[i].kind # "tui_select" PROVE FALSE
  OBVIOUS
<1> DEFINE T == {j \in 0..a : ~r[j].selects}
<1>5. a \in Nat /\ a <= n
  BY <1>1
<1>6. 0 \in T
  BY <1>2, <1>5 DEF Way, OnItsWay
<1>7. ASSUME NEW j \in 1..a, j - 1 \in T PROVE j \in T
  <2>1. r[j] = AfterOp(r[j - 1], j) /\ j \in 1..n /\ j - 1 \in 0..a
    BY <1>2, <1>5, <1>7 DEF Way
  <2>2. PICK c \in Nat : r[j - 1].ops[j] = CountedTo(l[j], c)
    BY <1>3, <2>1
  <2>3. CountedTo(l[j], c).kind # "tui_select"
    BY <1>1, <1>4, <2>1 DEF CountedTo
  <2>4. ~Selects(r[j - 1].ops[j], r[j - 1].token)
    BY <2>2, <2>3 DEF Selects
  <2>5. ~r[j].selects
    <3>1. PICK q : q = r[j - 1]
      OBVIOUS
    <3>2. ~q.selects /\ ~Selects(q.ops[j], q.token) /\ r[j] = AfterOp(q, j)
      BY <1>7, <2>1, <2>4, <3>1
    <3>3. CASE q.verdict = "pass"
      <4>1. AfterOp(q, j).selects = (q.selects \/ Selects(q.ops[j], q.token))
        BY <3>3 DEF AfterOp
      <4> QED
        BY <3>2, <4>1
    <3>4. CASE q.verdict # "pass"
      BY <3>2, <3>4 DEF AfterOp
    <3> QED
      BY <3>3, <3>4
  <2> QED
    BY <1>7, <2>5
<1> HIDE DEF T
<1>8. 0..a \subseteq T
  BY <1>5, <1>6, <1>7, StepByStep
<1> QED
  BY <1>2, <1>5, <1>8 DEF T

LEMMA GivenLegal ==
  ASSUME NEW l \in OpLists
  PROVE  IsSequence(l) /\ \A i \in DOMAIN l : Legal(l[i]) /\ Replaces(l[i])
<1>1. /\ l \in Seq(Range(l)) /\ LegalOps(l)
      /\ \A i \in DOMAIN l :
           Uncounted(l[i]) /\ (l[i].kind \in {"sub", "replace"} => l[i].replacement \in Texts)
  BY OpListsAssumption
<1>2. \A i \in DOMAIN l : l[i].kind \in OpKinds
  BY <1>1 DEF LegalOps
<1> QED
  BY <1>1, <1>2 DEF Legal, Replaces, IsSequence

(* The counts that are those of the lists: all, but that of an index which *)
(* is put on as tokens are written.                                        *)
Counting == IF IndexesWritten THEN Len(given) - 1 ELSE Len(given)

CountsKept ==
  \A v : Lists(v, given, inputs, Len(given)) => OpsCounted(ops, given, v, Counting)

PassedShaped == IsSequence(passed) /\ \A i \in DOMAIN passed : Shaped(passed[i])

PInv ==
  /\ given \in OpLists
  /\ IsKind("tui_select") => args.tui
  /\ inputs \in Seq(Texts) /\ Len(inputs) <= MaxInputs
  /\ CountsKept
  /\ PassedShaped
  /\ Len(passed) = Len(arrivals)
  /\ matched \subseteq DOMAIN passed
  /\ selected \in {NoToken} \cup DOMAIN passed
  /\ OutputAsComposed

LEMMA KeptIsHeld == Kept = CP!Held
  BY DEF Kept, CP!Held, CP!TokenIds

LEMMA WhatApplies == given \in OpLists => Applicable(given, Len(given), Counting, Applied)
<1> SUFFICES ASSUME given \in OpLists
             PROVE  Applicable(given, Len(given), Counting, Applied)
  OBVIOUS
<1>1. IsSequence(given)
  BY GivenLegal
<1>2. PICK l : l = given
  OBVIOUS
<1>3. PICK n \in Nat : n = Len(l)
  BY <1>1, <1>2, SequenceFacts
<1>4. l # <<>> => n # 0 /\ Last(l) = l[n]
  BY <1>1, <1>2, <1>3, SequenceFacts
<1>5. EditsOnOutput => l # <<>> /\ l[n].kind \in {"sub", "replace", "index"}
  BY <1>2, <1>4 DEF EditsOnOutput, EditKinds
<1>6. IndexesWritten <=> EditsOnOutput /\ l[n].kind = "index" /\ args.out_start # C!NoLimit
  BY <1>2, <1>4 DEF IndexesWritten, EditsOnOutput
<1>7. Counting = IF IndexesWritten THEN n - 1 ELSE n
  BY <1>2, <1>3 DEF Counting
<1>8. \/ Applied = n
      \/ Applied = n - 1 /\ EditsOnOutput /\ args.out_start # C!NoLimit
  BY <1>2, <1>3 DEF Applied, C!BeginDiscard, C!NoLimit
<1>9. Applicable(l, n, Counting, Applied)
  <2>1. PICK a : a = Applied
    OBVIOUS
  <2>2. PICK m : m = Counting
    OBVIOUS
  <2>3. PICK kind : kind = l[n].kind
    OBVIOUS
  <2> QED
    BY <1>4, <1>5, <1>6, <1>7, <1>8 DEF Applicable
<1> QED
  BY <1>2, <1>3, <1>9

LEMMA ComposedNow ==
  ASSUME PInv
  PROVE  \E v : /\ Lists(v, given, inputs, Len(given)) /\ Composed(given, inputs) = v[Len(given)]
                /\ OpsCounted(ops, given, v, Counting)
<1>1. IsSequence(given)
  BY GivenLegal DEF PInv
<1> QED
  BY <1>1, ListsOf DEF PInv, CountsKept

LEMMA MoreComposed ==
  ASSUME PInv, NEW text \in Texts, NEW v, Lists(v, given, inputs, Len(given)),
         NEW w, Lists(w, given, Append(inputs, text), Len(given))
  PROVE  Extended(given, Len(given), Counting, Applied, AfterAll(text), v, w)
<1>1. /\ IsSequence(given) /\ \A i \in DOMAIN given : Legal(given[i]) /\ Replaces(given[i])
      /\ Applicable(given, Len(given), Counting, Applied)
  BY GivenLegal, WhatApplies DEF PInv
<1>2. IsSequence(inputs) /\ OpsCounted(ops, given, v, Counting)
  BY DEF PInv, CountsKept, IsSequence
<1>3. PICK l : l = given
  OBVIOUS
<1>4. PICK o : o = ops
  OBVIOUS
<1>5. PICK texts : texts = inputs
  OBVIOUS
<1>6. PICK m : m = Counting
  OBVIOUS
<1>7. PICK a : a = Applied
  OBVIOUS
<1>8. /\ IsSequence(l) /\ \A i \in DOMAIN l : Legal(l[i]) /\ Replaces(l[i])
      /\ IsSequence(texts) /\ Lists(v, l, texts, Len(l))
      /\ Lists(w, l, Append(texts, text), Len(l))
      /\ Applicable(l, Len(l), m, a) /\ OpsCounted(o, l, v, m)
  BY <1>1, <1>2, <1>3, <1>4, <1>5, <1>6, <1>7
<1>9. Extended(l, Len(l), m, a, AfterOps(o, NewToken(text), a), v, w)
  BY <1>8, OneMore
<1> QED
  BY <1>3, <1>4, <1>6, <1>7, <1>9 DEF AfterAll

LEMMA CountsKeep ==
  ASSUME PInv, NEW text \in Texts, inputs' = Append(inputs, text), ops' = AfterAll(text).ops,
         given' = given, args' = args
  PROVE  CountsKept'
<1>1. Counting' = Counting /\ IsSequence(given)
  BY GivenLegal DEF Counting, IndexesWritten, EditsOnOutput, C!TokensNotStored, C!IsDirectOutput,
         PInv, C!NoLimit
<1>2. PICK v : Lists(v, given, inputs, Len(given))
  BY ComposedNow
<1>3. ASSUME NEW w, Lists(w, given, Append(inputs, text), Len(given))
      PROVE  OpsCounted(AfterAll(text).ops, given, w, Counting)
  BY <1>2, <1>3, MoreComposed DEF Extended
<1> QED
  BY <1>1, <1>3 DEF CountsKept

LEMMA PInitHolds == Init => PInv
<1> SUFFICES ASSUME Init PROVE PInv
  OBVIOUS
<1>1. /\ given \in OpLists /\ ops = given /\ inputs = <<>> /\ passed = <<>>
      /\ arrivals = <<>> /\ output = <<>> /\ stream = C!NewStream
      /\ selected = NoToken /\ matched = {} /\ (IsKind("tui_select") => args.tui)
  BY DEF Init, C!Init
<1>2. PICK l : l = given
  OBVIOUS
<1>3. IsSequence(l) /\ \A i \in DOMAIN l : Legal(l[i]) /\ Replaces(l[i])
  BY <1>1, <1>2, GivenLegal
<1>4. PICK n \in Nat : n = Len(l) /\ DOMAIN l = 1..n
  BY <1>3, SequenceFacts
<1>5. IsSequence(<<>>) /\ Len(<<>>) = 0
  <2>1. <<>> \in Seq({}) /\ Len(<<>>) = 0
    OBVIOUS
  <2> QED
    BY <2>1 DEF IsSequence
<1>6. \A v : Lists(v, l, <<>>, n) => \A j \in 0..n : IsSequence(v[j]) /\ Len(v[j]) = 0
  BY <1>3, <1>4, <1>5, ListsBounded
<1>7. \A i \in 1..n : CountedTo(l[i], 0) = l[i]
  <2> SUFFICES ASSUME NEW i \in 1..n PROVE CountedTo(l[i], 0) = l[i]
    OBVIOUS
  <2>1. Legal(l[i])
    BY <1>3, <1>4
  <2>2. PICK op : op = l[i]
    OBVIOUS
  <2>3. CASE op.kind = "head"
    BY <2>1, <2>2, <2>3 DEF Legal, Uncounted, CountedTo, InLimitOp
  <2>4. CASE op.kind = "index"
    BY <2>1, <2>2, <2>4 DEF Legal, Uncounted, CountedTo, IndexOp
  <2>5. CASE op.kind \notin {"head", "index"}
    BY <2>2, <2>5 DEF CountedTo
  <2> QED
    BY <2>3, <2>4, <2>5
<1>8. Counting \in {n - 1, n}
  BY <1>2, <1>4 DEF Counting
<1>9. CountsKept
  <2> SUFFICES ASSUME NEW v, Lists(v, l, <<>>, n) PROVE OpsCounted(l, l, v, Counting)
    BY <1>1, <1>2, <1>4 DEF CountsKept
  <2>1. \A j \in 0..n : Len(v[j]) = 0
    BY <1>6
  <2>2. \A i \in 1..n : l[i] = CountedTo(l[i], Len(v[i - 1]))
    BY <1>7, <2>1
  <2>3. CountsOf(l, l, v, Counting)
    BY <1>8, <2>2 DEF CountsOf
  <2> QED
    BY <1>4, <1>7, <2>3 DEF OpsCounted
<1>10. OutputAsComposed
  <2>1. PICK v : Lists(v, l, <<>>, n) /\ Composed(l, <<>>) = v[n]
    BY <1>3, <1>4, ListsOf
  <2>2. Len(v[n]) = 0
    BY <1>4, <1>6, <2>1
  <2>3. Kept = {}
    BY <1>1 DEF Kept, C!NewStream
  <2> QED
    BY <1>1, <1>2, <1>5, <2>1, <2>2, <2>3 DEF OutputAsComposed
<1>11. <<>> \in Seq(Texts) /\ 0 <= MaxInputs
  BY MaxInputsAssumption
<1>12. PassedShaped
  BY <1>1, <1>5 DEF PassedShaped
<1> QED
  BY <1>1, <1>5, <1>9, <1>10, <1>11, <1>12 DEF PInv

(* Nothing but a token that arrives adds to what is held.                  *)
LEMMA ArgsConstant == [Next]_vars => args' = args
<1>1. [CP!Next]_CollectorVars => args' = args
  BY DEF CP!Next, CollectorVars, CP!WriteFragment, CP!CopyBetween, CP!ForwardToken, CP!StoreToken,
         CP!Arrive, CP!EndOfInput, CP!Finalise, CP!WriteNext, CP!Finish, CP!Terminated, CP!vars
<1> QED
  BY <1>1, CollectorStep

LEMMA ArrivalsNumbered ==
  ASSUME CP!Inv, CP!Traced, PInv
  PROVE  Kept \subseteq DOMAIN passed /\ IsSequence(arrivals)
         /\ DOMAIN arrivals = 1..Len(passed) /\ DOMAIN passed = 1..Len(passed)
         /\ Len(passed) \in Nat
<1>1. CP!Held \subseteq DOMAIN arrivals
  BY Assumptions, CP!HeldArrived DEF CollectorAssumptions
<1>2. IsSequence(arrivals)
  BY DEF CP!Inv, CP!TypeOK, IsSequence
<1>3. IsSequence(passed) /\ Len(passed) = Len(arrivals)
  BY DEF PInv, PassedShaped
<1> QED
  BY <1>1, <1>2, <1>3, SequenceFacts, KeptIsHeld

(* A step that hands the collector nothing leaves the outputs composed.    *)
LEMMA NothingMoreKept ==
  ASSUME PInv, NEW v, IsSequence(v), v = Composed(given, inputs),
         Composed(given', inputs') = v, passed' = passed, Kept' \subseteq Kept,
         given' = given, args' = args
  PROVE  OutputAsComposed'
<1>1. IndexesWritten' = IndexesWritten
  BY DEF IndexesWritten, EditsOnOutput, C!TokensNotStored, C!IsDirectOutput, C!NoLimit
<1> QED
  BY <1>1 DEF PInv, OutputAsComposed

LEMMA PassKeeps ==
  ASSUME PInv, CP!Inv, CP!Traced, (CP!Inv)', (CP!Traced)',
         NEW text \in Texts, NEW k \in Keys, NEW u \in Keys,
         ProcessToken(text, k, u), AfterAll(text).verdict = "pass"
  PROVE  PInv'
<1> DEFINE r == AfterAll(text)
<1>1. PICK n : n = Len(given)
  OBVIOUS
<1>2. /\ inputs' = Append(inputs, text) /\ ops' = r.ops /\ given' = given
      /\ Len(inputs) < MaxInputs /\ Pass(r, k, u)
  BY DEF ProcessToken
<1>3. /\ C!ForwardToken(C!Arrival(k, u)) \/ C!StoreToken(C!Arrival(k, u))
      /\ passed' = Append(passed, r.token)
      /\ matched' = IF r.selects THEN matched \cup {Len(passed')} ELSE matched
      /\ selected' = IF r.selects /\ selected = NoToken THEN Selection(output') ELSE selected
  BY <1>2 DEF Pass
<1>4. CP!ForwardToken(CP!Arrival(k, u)) \/ CP!StoreToken(CP!Arrival(k, u))
  BY <1>3, SameArrival, SameForward, SameStoreToken
<1>5. /\ args' = args /\ options' = options
      /\ arrivals' = Append(arrivals, CP!Arrival(k, u))
  BY <1>4 DEF CP!ForwardToken, CP!StoreToken, CP!Arrive
<1>6. CountsKept'
  BY <1>2, <1>5, CountsKeep
<1>7. IsSequence(given) /\ \A i \in DOMAIN given : Legal(given[i]) /\ Replaces(given[i])
  BY GivenLegal DEF PInv
<1>8. PICK v : Lists(v, given, inputs, n) /\ Composed(given, inputs) = v[n]
  BY <1>1, ComposedNow
<1>9. PICK w : Lists(w, given, inputs', n) /\ Composed(given', inputs') = w[n]
  BY <1>1, <1>2, <1>7, ListsOf
<1>10. Extended(given, n, Counting, Applied, r, v, w)
  BY <1>1, <1>2, <1>8, <1>9, MoreComposed
<1>11. PICK e : /\ w[n] = Append(v[n], e)
                /\ Applied = n => e.text = r.token.text
                /\ Applied = n /\ Counting = n => e = r.token
  BY <1>10 DEF Extended
<1>12. Shaped(r.token)
  BY <1>10 DEF Extended
<1>13. IsSequence(v[n])
  <2>1. n \in 0..n /\ IsSequence(inputs)
    BY <1>1, <1>7, SequenceFacts DEF PInv, IsSequence
  <2> QED
    BY <1>1, <1>7, <1>8, <2>1, ListsBounded
<1> HIDE DEF r
<1>14. /\ IsSequence(passed) /\ IsSequence(arrivals) /\ DOMAIN passed = 1..Len(passed)
       /\ Len(passed) \in Nat /\ Len(arrivals) = Len(passed) /\ Kept \subseteq DOMAIN passed
       /\ Len(passed) = Len(v[n])
  BY <1>8, ArrivalsNumbered DEF PInv, PassedShaped, OutputAsComposed
<1>15. /\ IsSequence(passed') /\ DOMAIN passed' = 1..Len(passed) + 1
       /\ Len(passed') = Len(passed) + 1
       /\ \A i \in 1..Len(passed) : passed'[i] = passed[i]
       /\ passed'[Len(passed) + 1] = r.token
  BY <1>3, <1>14, AppendedSequence, SequenceFacts
<1>16. Len(arrivals') = Len(passed) + 1 /\ DOMAIN arrivals' = 1..Len(passed) + 1
  BY <1>5, <1>14, AppendedSequence, SequenceFacts
<1>17. PassedShaped'
  <2>1. \A i \in DOMAIN passed' : i \in 1..Len(passed) \/ i = Len(passed) + 1
    BY <1>14, <1>15
  <2>2. \A i \in DOMAIN passed' : Shaped(passed'[i])
    BY <1>12, <1>14, <1>15, <2>1 DEF PInv, PassedShaped
  <2> QED
    BY <1>15, <2>2 DEF PassedShaped
<1>18. OutputAsComposed'
  <2>1. IndexesWritten' = IndexesWritten
    BY <1>2, <1>5 DEF IndexesWritten, EditsOnOutput, C!TokensNotStored, C!IsDirectOutput, C!NoLimit
  <2>2. PICK s : s = v[n]
    OBVIOUS
  <2>3. /\ Len(Append(s, e)) = Len(s) + 1
        /\ \A i \in 1..Len(s) : Append(s, e)[i] = s[i]
        /\ Append(s, e)[Len(s) + 1] = e
    BY <1>13, <2>2, AppendedSequence, SequenceFacts
  <2>4. /\ Kept' \subseteq Kept \cup {Len(passed) + 1}
        /\ CP!TokensNotStored(args) /\ CP!BeginDiscard(stream, args) => Kept' = Kept
    <3>1. (Kept)' = (CP!Held)'
      BY DEF Kept, CP!Held, CP!TokenIds
    <3>2. /\ (CP!Held)' \subseteq CP!Held \cup {Len(arrivals) + 1}
          /\ CP!TokensNotStored(args) /\ CP!BeginDiscard(stream, args) => (CP!Held)' = CP!Held
      BY <1>4, Assumptions, CP!ArrivalHeld DEF CollectorAssumptions
    <3> QED
      BY <1>14, <3>1, <3>2, KeptIsHeld
  <2>5. Applied # n => Kept' = Kept
    <3>1. Applied # n => C!TokensNotStored(args) /\ C!BeginDiscard(stream, args)
      BY <1>1 DEF Applied, EditsOnOutput
    <3>2. C!BeginDiscard(stream, args) => CP!BeginDiscard(stream, args)
      BY DEF C!BeginDiscard, CP!BeginDiscard, C!NoLimit, CP!NoLimit
    <3> QED
      BY <2>4, <3>1, <3>2, SamePaths
  <2>6. ~IndexesWritten => Counting = n
    BY <1>1 DEF Counting
  <2>7. \A i \in Kept : IF IndexesWritten THEN passed[i].text = s[i].text ELSE passed[i] = s[i]
    BY <1>8, <2>2 DEF PInv, OutputAsComposed
  <2>8. ASSUME NEW i \in Kept'
        PROVE  IF IndexesWritten THEN passed'[i].text = Append(s, e)[i].text
                                 ELSE passed'[i] = Append(s, e)[i]
    <3>1. CASE i \in Kept
      BY <1>14, <1>15, <2>2, <2>3, <2>7, <3>1
    <3>2. CASE i \notin Kept
      <4>1. i = Len(passed) + 1 /\ Applied = n
        BY <2>4, <2>5, <3>2
      <4>2. passed'[i] = r.token /\ Append(s, e)[i] = e
        BY <1>14, <1>15, <2>2, <2>3, <4>1
      <4> QED
        BY <1>11, <2>6, <4>1, <4>2
    <3> QED
      BY <3>1, <3>2
  <2>9. Composed(given', inputs') = Append(s, e)
    BY <1>9, <1>11, <2>2
  <2>10. Len(passed') = Len(Append(s, e))
    BY <1>14, <1>15, <2>2, <2>3
  <2> QED
    BY <2>1, <2>8, <2>9, <2>10 DEF OutputAsComposed
<1>19. matched' \subseteq DOMAIN passed'
  BY <1>3, <1>14, <1>15 DEF PInv
<1>20. selected' \in {NoToken} \cup DOMAIN passed'
  <2>1. CASE r.selects /\ selected = NoToken
    <3>1. \E i \in DOMAIN given : given[i].kind = "tui_select"
      <4>1. PICK l : l = given
        OBVIOUS
      <4>2. PICK o : o = ops
        OBVIOUS
      <4>3. PICK a : a = Applied
        OBVIOUS
      <4>4. /\ IsSequence(l) /\ \A i \in DOMAIN l : Legal(l[i]) /\ Replaces(l[i])
            /\ DOMAIN o = 1..Len(l)
            /\ \A i \in 1..Len(l) : \E c \in Nat : o[i] = CountedTo(l[i], c)
        BY <1>1, <1>7, <1>8, <4>1, <4>2 DEF PInv, CountsKept, OpsCounted
      <4>5. a \in 0..Len(l)
        <5>1. Len(l) \in Nat /\ (l # <<>> => Len(l) # 0)
          BY <1>7, <4>1, SequenceFacts
        <5>2. Applicable(given, Len(given), Counting, Applied)
          BY WhatApplies DEF PInv
        <5> QED
          BY <4>1, <4>3, <5>1, <5>2 DEF Applicable
      <4>6. AfterOps(o, NewToken(text), a).selects
        BY <2>1, <4>2, <4>3 DEF r, AfterAll
      <4> QED
        BY <4>1, <4>4, <4>5, <4>6, SelectsByKind
    <3>2. args.tui
      BY <3>1 DEF PInv, IsKind
    <3>3. CP!StoreToken(CP!Arrival(k, u))
      BY <1>4, <3>2 DEF CP!ForwardToken, CP!IsDirectOutput
    <3>4. output' # <<>>
      BY <3>3, Assumptions, CP!StoringLeavesOne DEF CollectorAssumptions
    <3>5. IsSequence(output')
      BY DEF CP!Inv, CP!TypeOK, IsSequence
    <3>6. PICK s : s = output'
      OBVIOUS
    <3>7. Last(s) = s[Len(s)] /\ Len(s) \in DOMAIN s
      BY <3>4, <3>5, <3>6, SequenceFacts
    <3>8. \A i \in DOMAIN s : s[i].id \in DOMAIN arrivals'
      BY <3>6 DEF CP!Traced, CP!TracedVector
    <3>9. Selection(s) \in DOMAIN arrivals'
      BY <3>7, <3>8 DEF Selection
    <3> QED
      BY <1>3, <1>15, <1>16, <2>1, <3>6, <3>9
  <2>2. CASE ~(r.selects /\ selected = NoToken)
    BY <1>3, <1>14, <1>15, <2>2 DEF PInv
  <2> QED
    BY <2>1, <2>2
<1>21. inputs' \in Seq(Texts) /\ Len(inputs') <= MaxInputs
  BY <1>2, MaxInputsAssumption DEF PInv
<1>22. IsKind("tui_select")' => args'.tui
  BY <1>2, <1>5 DEF PInv, IsKind
<1> QED
  BY <1>2, <1>6, <1>15, <1>16, <1>17, <1>18, <1>19, <1>20, <1>21, <1>22 DEF PInv

LEMMA RestKeeps ==
  ASSUME PInv, CP!Inv, CP!Traced,
         NEW text \in Texts, NEW k \in Keys, NEW u \in Keys,
         ProcessToken(text, k, u), AfterAll(text).verdict # "pass"
  PROVE  /\ PInv'
         /\ passed' = passed
         /\ phase' # "reading" => AfterAll(text).verdict = "done"
<1> DEFINE r == AfterAll(text)
<1>1. PICK n : n = Len(given)
  OBVIOUS
<1>2. /\ inputs' = Append(inputs, text) /\ ops' = r.ops /\ given' = given
      /\ Len(inputs) < MaxInputs /\ C!Reading
      /\ passed' = passed /\ matched' = matched /\ selected' = selected
      /\ \/ r.verdict = "done" /\ C!EndOfInput
         \/ UNCHANGED CollectorVars
  BY DEF ProcessToken, CollectorVars
<1>3. CP!EndOfInput \/ UNCHANGED CollectorVars
  BY <1>2, SameEndOfInput
<1>4. args' = args /\ arrivals' = arrivals
  BY <1>3 DEF CP!EndOfInput, CollectorVars
<1>5. phase' # "reading" => r.verdict = "done"
  BY <1>2 DEF C!Reading, CollectorVars
<1>6. Kept' \subseteq Kept
  <2>1. CP!EndOfInput => (CP!Held)' \subseteq CP!Held
    BY Assumptions, CP!NothingElseHeld DEF CollectorAssumptions
  <2>2. UNCHANGED CollectorVars => (CP!Held)' = CP!Held
    BY DEF CP!Held, CP!TokenIds, CollectorVars
  <2>3. (Kept)' = (CP!Held)'
    BY DEF Kept, CP!Held, CP!TokenIds
  <2> QED
    BY <1>3, <2>1, <2>2, <2>3, KeptIsHeld
<1>7. CountsKept'
  BY <1>2, <1>4, CountsKeep
<1>8. IsSequence(given) /\ \A i \in DOMAIN given : Legal(given[i]) /\ Replaces(given[i])
  BY GivenLegal DEF PInv
<1>9. PICK v : Lists(v, given, inputs, n) /\ Composed(given, inputs) = v[n]
  BY <1>1, ComposedNow
<1>10. PICK w : Lists(w, given, inputs', n) /\ Composed(given', inputs') = w[n]
  BY <1>1, <1>2, <1>8, ListsOf
<1>11. w[n] = v[n]
  BY <1>1, <1>2, <1>9, <1>10, MoreComposed DEF Extended
<1>12. IsSequence(v[n])
  <2>1. n \in 0..n /\ IsSequence(inputs)
    BY <1>1, <1>8, SequenceFacts DEF PInv, IsSequence
  <2> QED
    BY <1>1, <1>8, <1>9, <2>1, ListsBounded
<1>13. OutputAsComposed'
  BY <1>2, <1>4, <1>6, <1>9, <1>10, <1>11, <1>12, NothingMoreKept
<1>14. PassedShaped' /\ matched' \subseteq DOMAIN passed' /\ selected' \in {NoToken} \cup DOMAIN passed'
  BY <1>2 DEF PInv, PassedShaped
<1>15. inputs' \in Seq(Texts) /\ Len(inputs') <= MaxInputs
  BY <1>2, MaxInputsAssumption DEF PInv
<1>16. IsKind("tui_select")' => args'.tui
  BY <1>2, <1>4 DEF PInv, IsKind
<1>17. Len(passed') = Len(arrivals')
  BY <1>2, <1>4 DEF PInv
<1>18. PInv'
  BY <1>2, <1>7, <1>13, <1>14, <1>15, <1>16, <1>17 DEF PInv
<1> QED
  BY <1>2, <1>5, <1>18

LEMMA OtherStepsKeep ==
  ASSUME PInv, CP!Inv, CP!Traced, EndOfInput \/ Conclude \/ UNCHANGED vars
  PROVE  PInv'
<1>1. /\ given' = given /\ ops' = ops /\ inputs' = inputs /\ passed' = passed
      /\ selected' = selected /\ matched' = matched
  BY DEF EndOfInput, Conclude, vars, pvars
<1>2. \/ CP!EndOfInput \/ CP!Finalise \/ CP!WriteNext \/ CP!Finish \/ UNCHANGED CollectorVars
  BY SameEndOfInput, SameFinalise, SameWriteNext, SameFinish
     DEF EndOfInput, Conclude, vars, CollectorVars
<1>3. args' = args /\ arrivals' = arrivals
  BY <1>2 DEF CP!EndOfInput, CP!Finalise, CP!WriteNext, CP!Finish, CollectorVars
<1>4. Kept' \subseteq Kept
  <2>1. CP!EndOfInput \/ CP!Finalise \/ CP!WriteNext \/ CP!Finish => (CP!Held)' \subseteq CP!Held
    BY Assumptions, CP!NothingElseHeld DEF CollectorAssumptions
  <2>2. UNCHANGED CollectorVars => (CP!Held)' = CP!Held
    BY DEF CP!Held, CP!TokenIds, CollectorVars
  <2>3. (Kept)' = (CP!Held)'
    BY DEF Kept, CP!Held, CP!TokenIds
  <2> QED
    BY <1>2, <2>1, <2>2, <2>3, KeptIsHeld
<1>5. IndexesWritten' = IndexesWritten /\ Counting' = Counting
  BY <1>1, <1>3 DEF Counting, IndexesWritten, EditsOnOutput, C!TokensNotStored, C!IsDirectOutput,
     C!NoLimit
<1>6. OutputAsComposed'
  BY <1>1, <1>4, <1>5 DEF PInv, OutputAsComposed
<1>7. CountsKept'
  BY <1>1, <1>5 DEF PInv, CountsKept
<1>8. PassedShaped' /\ (IsKind("tui_select")' => args'.tui)
  BY <1>1, <1>3 DEF PInv, PassedShaped, IsKind
<1> QED
  BY <1>1, <1>3, <1>6, <1>7, <1>8 DEF PInv

(* The counts, the tokens that passed and what became of them always are   *)
(* what the operations make of the input one after the other.              *)
LEMMA PInvHolds == Spec => [](CP!Inv /\ CP!Traced /\ PInv)
<1>1. CP!Inv /\ CP!Traced /\ (CP!Inv /\ CP!Traced)' /\ PInv /\ [Next]_vars => PInv'
  <2> SUFFICES ASSUME CP!Inv, CP!Traced, (CP!Inv)', (CP!Traced)', PInv, [Next]_vars PROVE PInv'
    OBVIOUS
  <2>1. ASSUME NEW text \in Texts, NEW k \in Keys, NEW u \in Keys, ProcessToken(text, k, u)
        PROVE  PInv'
    <3>1. CASE AfterAll(text).verdict = "pass"
      BY <2>1, <3>1, PassKeeps
    <3>2. CASE AfterAll(text).verdict # "pass"
      BY <2>1, <3>2, RestKeeps
    <3> QED
      BY <3>1, <3>2
  <2>2. EndOfInput \/ Conclude \/ UNCHANGED vars => PInv'
    BY OtherStepsKeep
  <2> QED
    BY <2>1, <2>2 DEF Next, Terminated
<1> QED
  BY <1>1, CollectorInvariance, PInitHolds, PTL DEF Spec

(* For all operations, options and numbers of tokens, passing the tokens   *)
(* one by one through the operations makes of the input what the           *)
(* operations make of it one after the other.                              *)
THEOREM ComposedHolds == Spec => []OutputAsComposed
<1>1. PInv => OutputAsComposed
  BY DEF PInv
<1> QED
  BY <1>1, PInvHolds, PTL

(* The variables of the pipeline keep their types: no --head counts more   *)
(* tokens than there were, and the token --tui-select puts the cursor at   *)
(* is one that reached the collector.                                      *)
THEOREM TypeCorrect == Spec => []TypeOK
<1>1. PInv => TypeOK
  <2> SUFFICES ASSUME PInv PROVE TypeOK
    OBVIOUS
  <2>1. PICK n : n = Len(given)
    OBVIOUS
  <2>2. PICK v : Lists(v, given, inputs, n) /\ OpsCounted(ops, given, v, Counting)
    BY <2>1, ComposedNow
  <2>3. IsSequence(given) /\ \A i \in DOMAIN given : Legal(given[i]) /\ Replaces(given[i])
    BY GivenLegal DEF PInv
  <2>4. n \in Nat /\ DOMAIN given = 1..n /\ IsSequence(inputs) /\ Len(inputs) \in Nat
    BY <2>1, <2>3, SequenceFacts DEF PInv, IsSequence
  <2>5. \A j \in 0..n : Len(v[j]) \in 0..Len(inputs)
    BY <2>1, <2>2, <2>3, <2>4, ListsBounded
  <2>6. /\ DOMAIN ops = 1..n
        /\ \A i \in 1..Counting : ops[i] = CountedTo(given[i], Len(v[i - 1]))
        /\ \A i \in 1..n : \E c \in Nat : ops[i] = CountedTo(given[i], c)
    BY <2>1, <2>2 DEF OpsCounted, CountsOf
  <2>7. \A i \in 1..n : ops[i].kind = given[i].kind
    <3> SUFFICES ASSUME NEW i \in 1..n PROVE ops[i].kind = given[i].kind
      OBVIOUS
    <3>1. PICK c \in Nat : ops[i] = CountedTo(given[i], c)
      BY <2>6
    <3> QED
      BY <3>1, <2>3, <2>4 DEF CountedTo, Legal, Uncounted, InLimitOp, IndexOp
  <2>8. ASSUME NEW i \in 1..n, ops[i].kind = "head"
        PROVE  ops[i].in_count \in 0..Len(inputs)
    <3>1. given[i].kind = "head" /\ Legal(given[i])
      BY <2>3, <2>4, <2>7, <2>8
    <3>2. i \in 1..Counting
      <4>1. IndexesWritten => given[n].kind = "index"
        BY <2>1, <2>3, SequenceFacts DEF IndexesWritten, EditsOnOutput
      <4> QED
        BY <2>1, <2>4, <3>1, <4>1 DEF Counting
    <3>3. PICK op : op = given[i]
      OBVIOUS
    <3>4. op = InLimitOp(op.low, op.high) /\ op.kind = "head"
      BY <3>1, <3>3 DEF Legal, Uncounted
    <3>5. PICK c : c = Len(v[i - 1])
      OBVIOUS
    <3>6. c \in 0..Len(inputs)
      BY <2>4, <2>5, <3>5
    <3>7. CountedTo(op, c).in_count = c
      BY <3>4 DEF CountedTo, InLimitOp
    <3> QED
      BY <2>6, <3>2, <3>3, <3>5, <3>6, <3>7
  <2>9. Len(ops) = n
    BY <2>4, <2>6
  <2>10. \A i \in DOMAIN passed : passed[i].text \in Texts
    BY DEF PInv, PassedShaped, Shaped
  <2> QED
    BY <2>1, <2>4, <2>6, <2>7, <2>8, <2>9, <2>10 DEF PInv, TypeOK
<1> QED
  BY <1>1, PInvHolds, PTL

(* When --head ends the input, whatever is left of it would not have       *)
(* reached the collector.                                                  *)
THEOREM NothingLostByHead == Spec => LosesNoToken
<1>1. CP!Inv /\ CP!Traced /\ PInv /\ [Next]_vars =>
        [inputs' # inputs /\ passed' = passed /\ phase' # "reading"
           => \A text \in Texts :
                Composed(given, Append(inputs', text)) = Composed(given, inputs')]_vars
  <2> SUFFICES ASSUME CP!Inv, CP!Traced, PInv, Next, inputs' # inputs, passed' = passed,
                      phase' # "reading", NEW more \in Texts
               PROVE  Composed(given, Append(inputs', more)) = Composed(given, inputs')
    OBVIOUS
  <2>1. PICK text \in Texts, k \in Keys, u \in Keys : ProcessToken(text, k, u)
    BY DEF Next, EndOfInput, Conclude, Terminated, vars, pvars
  <2>2. AfterAll(text).verdict # "pass"
    <3>1. AfterAll(text).verdict = "pass" => passed' = Append(passed, AfterAll(text).token)
      BY <2>1 DEF ProcessToken, Pass
    <3>2. IsSequence(passed)
      BY DEF PInv, PassedShaped
    <3>3. PICK e : e = AfterAll(text).token
      OBVIOUS
    <3>4. Len(Append(passed, e)) = Len(passed) + 1 /\ Len(passed) \in Nat
      BY <3>2, AppendedSequence, SequenceFacts
    <3>5. Append(passed, e) # passed
      BY <3>4
    <3> QED
      BY <3>1, <3>3, <3>5
  <2>3. AfterAll(text).verdict = "done" /\ inputs' = Append(inputs, text)
    BY <2>1, <2>2, RestKeeps DEF ProcessToken
  <2>4. PICK n : n = Len(given)
    OBVIOUS
  <2>5. IsSequence(given) /\ \A i \in DOMAIN given : Legal(given[i]) /\ Replaces(given[i])
    BY GivenLegal DEF PInv
  <2>6. PICK v : Lists(v, given, inputs, n) /\ Composed(given, inputs) = v[n]
    BY <2>4, ComposedNow
  <2>7. PICK w : Lists(w, given, inputs', n) /\ Composed(given, inputs') = w[n]
    BY <2>4, <2>5, ListsOf
  <2>8. PICK x : Lists(x, given, Append(inputs', more), n)
                 /\ Composed(given, Append(inputs', more)) = x[n]
    BY <2>4, <2>5, ListsOf
  <2>9. Full(given, w, n)
    BY <2>3, <2>4, <2>6, <2>7, MoreComposed DEF Extended
  <2>10. IsSequence(inputs')
    BY <2>3, AppendedSequence DEF PInv, IsSequence
  <2>11. x[n] = w[n]
    BY <2>4, <2>5, <2>7, <2>8, <2>9, <2>10, NothingPassesFull
  <2> QED
    BY <2>7, <2>8, <2>11
<1> QED
  BY <1>1, PInvHolds, PTL DEF Spec, LosesNoToken

===============================================================================
