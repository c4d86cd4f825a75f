---------------------------- MODULE CollectorProofs ---------------------------
(***************************************************************************)
(* Theorems about Collector, for every set of keys, every set of options   *)
(* and any number of tokens.                                               *)
(***************************************************************************)
EXTENDS Collector, SequenceLemmas

-------------------------------------------------------------------------------
(* The vector in memory bounded by a sort.                                 *)

InOrder(a, s) == \A i, j \in DOMAIN s : i < j => ~Before(a, s[j], s[i])

OneClass(a, s) == a.same_type => \A i \in DOMAIN s : s[i].unique = s[i].sort

LEMMA TokenFields == \A t \in Tokens : t.sort \in Int /\ t.unique \in Int /\ t.id \in Nat
  BY KeysAssumption DEF Tokens

(* In a vector that is in order, the place upper_bound looks for exists:   *)
(* nothing ahead of it comes after t, everything from it on does.          *)
LEMMA UpperBoundSplits ==
  ASSUME NEW a, a.sort_reverse \in BOOLEAN,
         NEW s \in Seq(Tokens), NEW t \in Tokens, InOrder(a, s)
  PROVE  /\ UpperBound(a, s, t) \in 1..Len(s) + 1
         /\ \A i \in 1..UpperBound(a, s, t) - 1 : ~Before(a, t, s[i])
         /\ \A i \in UpperBound(a, s, t)..Len(s) : Before(a, t, s[i])
<1> DEFINE P(p) == /\ \A i \in 1..p - 1 : ~Before(a, t, s[i])
                   /\ \A i \in p..Len(s) : Before(a, t, s[i])
           after == {i \in 1..Len(s) : Before(a, t, s[i])}
<1>1. \A i \in 1..Len(s) : s[i] \in Tokens /\ s[i].sort \in Int
  BY TokenFields
<1>2. t.sort \in Int
  BY TokenFields
<1>3. \E p \in 1..Len(s) + 1 : P(p)
  <2>1. CASE after = {}
    <3>1. P(Len(s) + 1)
      BY <2>1
    <3> QED
      BY <3>1
  <2>2. CASE after # {}
    <3>1. PICK p \in after : \A i \in after : p <= i
      <4>1. after \subseteq Nat
        OBVIOUS
      <4> HIDE DEF after
      <4> QED
        BY <4>1, <2>2, LeastElement
    <3>2. p \in 1..Len(s) /\ Before(a, t, s[p])
      BY <3>1
    <3>3. ASSUME NEW i \in 1..p - 1 PROVE ~Before(a, t, s[i])
      BY <3>1, <3>2
    <3>4. ASSUME NEW i \in p..Len(s) PROVE Before(a, t, s[i])
      <4>1. CASE i = p
        BY <4>1, <3>2
      <4>2. CASE i # p
        <5>1. ~Before(a, s[i], s[p])
          BY <4>2, <3>2 DEF InOrder
        <5> QED
          BY <5>1, <3>2, <1>1, <1>2 DEF Before
      <4> QED
        BY <4>1, <4>2
    <3> QED
      BY <3>2, <3>3, <3>4
  <2> QED
    BY <2>1, <2>2
<1>4. UpperBound(a, s, t) = CHOOSE p \in 1..Len(s) + 1 : P(p)
  BY DEF UpperBound
<1> HIDE DEF P
<1>5. UpperBound(a, s, t) \in 1..Len(s) + 1 /\ P(UpperBound(a, s, t))
  BY <1>3, <1>4
<1> QED
  BY <1>5 DEF P
(* Inserting there keeps the order, and the classes apart if t is not of   *)
(* the class of the element in front.                                      *)
LEMMA InsertionInOrder ==
  ASSUME NEW a, a.sort_reverse \in BOOLEAN,
         NEW s \in Seq(Tokens), NEW t \in Tokens, InOrder(a, s)
  PROVE  InOrder(a, InsertAt(s, UpperBound(a, s, t), t))
<1> DEFINE p == UpperBound(a, s, t)
           r == InsertAt(s, p, t)
<1>1. /\ p \in 1..Len(s) + 1
      /\ \A i \in 1..p - 1 : ~Before(a, t, s[i])
      /\ \A i \in p..Len(s) : Before(a, t, s[i])
  BY UpperBoundSplits
<1> HIDE DEF p
<1>2. /\ r \in Seq(Tokens) /\ Len(r) = Len(s) + 1
      /\ \A i \in 1..Len(s) + 1 :
           r[i] = IF i < p THEN s[i] ELSE IF i = p THEN t ELSE s[i - 1]
  BY <1>1, InsertAtElements
<1> HIDE DEF r
<1>3. t.sort \in Int /\ \A i \in 1..Len(s) : s[i].sort \in Int
  BY TokenFields
<1>4. ASSUME NEW i \in 1..Len(s) + 1, NEW j \in 1..Len(s) + 1, i < j
      PROVE  ~Before(a, r[j], r[i])
  <2>1. CASE j < p
    <3>1. r[i] = s[i] /\ r[j] = s[j] /\ i \in 1..Len(s) /\ j \in 1..Len(s)
      BY <2>1, <1>1, <1>2, <1>4
    <3> QED
      BY <3>1, <1>4 DEF InOrder
  <2>2. CASE j = p
    BY <2>2, <1>1, <1>2, <1>4
  <2>3. CASE p < j /\ i = p
    <3>1. r[i] = t /\ r[j] = s[j - 1] /\ j - 1 \in p..Len(s)
      BY <2>3, <1>2
    <3>2. Before(a, t, s[j - 1])
      BY <3>1, <1>1
    <3>3. j - 1 \in 1..Len(s)
      BY <1>1, <3>1
    <3> QED
      BY <3>1, <3>2, <3>3, <1>3 DEF Before
  <2>4. CASE p < j /\ i < p
    <3>1. r[i] = s[i] /\ r[j] = s[j - 1] /\ (i = j - 1 \/ (i < j - 1 /\ j - 1 \in 1..Len(s)))
      BY <2>4, <1>1, <1>2
    <3>2. i # j - 1 /\ i \in 1..Len(s)
      BY <2>4, <1>1
    <3> QED
      BY <3>1, <3>2 DEF InOrder
  <2>5. CASE p < j /\ p < i
    <3>1. r[i] = s[i - 1] /\ r[j] = s[j - 1]
      BY <2>5, <1>1, <1>2
    <3>2. i - 1 \in 1..Len(s) /\ j - 1 \in 1..Len(s) /\ i - 1 < j - 1
      BY <2>5, <1>1, <1>4
    <3> QED
      BY <3>1, <3>2 DEF InOrder
  <2> QED
    BY <2>1, <2>2, <2>3, <2>4, <2>5, <1>1
<1>5. DOMAIN r = 1..Len(s) + 1
  BY <1>2
<1>6. InOrder(a, r)
  BY <1>4, <1>5 DEF InOrder
<1> QED
  BY <1>6 DEF r, p

(* If t is not of the class of the element in front of its place, it is of *)
(* none in the vector.                                                     *)
LEMMA InsertionOfOther ==
  ASSUME NEW a, NEW s \in Seq(Tokens), NEW t \in Tokens,
         a.sort_reverse \in BOOLEAN, InOrder(a, s),
         a.same_type, OneClass(a, s), t.unique = t.sort,
         UpperBound(a, s, t) # 1 => ~SameUnique(s[UpperBound(a, s, t) - 1], t)
  PROVE  \A i \in 1..Len(s) : ~SameUnique(s[i], t)
<1> DEFINE p == UpperBound(a, s, t)
<1>1. /\ p \in 1..Len(s) + 1
      /\ \A i \in 1..p - 1 : ~Before(a, t, s[i])
      /\ \A i \in p..Len(s) : Before(a, t, s[i])
      /\ p # 1 => ~SameUnique(s[p - 1], t)
  BY UpperBoundSplits
<1> HIDE DEF p
<1>2. t.sort \in Int /\ \A i \in 1..Len(s) : s[i].sort \in Int /\ s[i].unique = s[i].sort
  BY TokenFields DEF OneClass
<1>3. \A i \in 1..Len(s) : ~SameUnique(s[i], t)
  <2> SUFFICES ASSUME NEW i \in 1..Len(s) PROVE s[i].sort # t.sort
    BY <1>2 DEF SameUnique
  <2>1. CASE i >= p
    <3>1. Before(a, t, s[i])
      BY <2>1, <1>1
    <3> QED
      BY <3>1, <1>2 DEF Before
  <2>2. CASE i = p - 1
    <3>1. ~SameUnique(s[i], t)
      BY <2>2, <1>1
    <3> QED
      BY <3>1, <1>2 DEF SameUnique
  <2>3. CASE i < p - 1
    <3>1. p - 1 \in 1..Len(s) /\ i < p - 1
      BY <2>3, <1>1
    <3>2. ~Before(a, s[p - 1], s[i])
      BY <3>1 DEF InOrder
    <3>3. ~Before(a, t, s[p - 1])
      BY <3>1, <1>1
    <3>4. s[p - 1].sort # t.sort
      BY <3>1, <1>1, <1>2 DEF SameUnique
    <3> QED
      BY <3>1, <3>2, <3>3, <3>4, <1>2 DEF Before
  <2> QED
    BY <2>1, <2>2, <2>3, <1>1
<1> QED
  BY <1>3

LEMMA InsertionDistinct ==
  ASSUME NEW a, NEW s \in Seq(Tokens), NEW t \in Tokens,
         a.sort_reverse \in BOOLEAN, a.unique = TRUE, InOrder(a, s), Distinct(a, s),
         a.same_type, OneClass(a, s), t.unique = t.sort,
         UpperBound(a, s, t) # 1 => ~SameUnique(s[UpperBound(a, s, t) - 1], t)
  PROVE  Distinct(a, InsertAt(s, UpperBound(a, s, t), t))
<1> DEFINE p == UpperBound(a, s, t)
           r == InsertAt(s, p, t)
<1>1. /\ p \in 1..Len(s) + 1
      /\ \A i \in 1..p - 1 : ~Before(a, t, s[i])
      /\ \A i \in p..Len(s) : Before(a, t, s[i])
      /\ p # 1 => ~SameUnique(s[p - 1], t)
  BY UpperBoundSplits
<1> HIDE DEF p
<1>2. /\ r \in Seq(Tokens) /\ Len(r) = Len(s) + 1
      /\ \A i \in 1..Len(s) + 1 :
           r[i] = IF i < p THEN s[i] ELSE IF i = p THEN t ELSE s[i - 1]
  BY <1>1, InsertAtElements
<1> HIDE DEF r
<1>3. t.sort \in Int /\ \A i \in 1..Len(s) : s[i].sort \in Int /\ s[i].unique = s[i].sort
  BY TokenFields DEF OneClass
<1>4. \A i \in 1..Len(s) : ~SameUnique(s[i], t)
  BY InsertionOfOther
<1>5. ASSUME NEW i \in 1..Len(s) + 1, NEW j \in 1..Len(s) + 1, i # j
      PROVE  ~SameUnique(r[i], r[j])
  <2> DEFINE old(k) == IF k < p THEN k ELSE k - 1
  <2>1. \A k \in 1..Len(s) + 1 : k # p => old(k) \in 1..Len(s) /\ r[k] = s[old(k)]
    BY <1>1, <1>2
  <2>2. r[p] = t
    BY <1>1, <1>2
  <2>3. CASE i = p
    BY <2>1, <2>2, <2>3, <1>4, <1>5 DEF SameUnique
  <2>4. CASE j = p
    BY <2>1, <2>2, <2>4, <1>4, <1>5 DEF SameUnique
  <2>5. CASE i # p /\ j # p
    <3>1. old(i) # old(j)
      BY <2>5, <1>1, <1>5
    <3> QED
      BY <2>1, <2>5, <3>1 DEF Distinct
  <2> QED
    BY <2>3, <2>4, <2>5
<1>6. Distinct(a, r)
  BY <1>2, <1>5 DEF Distinct
<1> QED
  BY <1>6 DEF r, p

(* The hypotheses under which a token meets the sorted, bounded vector.    *)
BoundedVector(a, s, all) ==
  /\ a.sort_reverse \in BOOLEAN /\ a.unique \in BOOLEAN
  /\ a.unique => a.same_type = TRUE
  /\ a.out_end \in Nat \ {0}
  /\ s \in Seq(Tokens) /\ all \in Seq(Tokens)
  /\ Len(s) <= a.out_end
  /\ InOrder(a, s)
  /\ Distinct(a, s)
  /\ OneClass(a, s) /\ OneClass(a, all)
  /\ OnlyWorseLost(a, s, all)

(* Tokens of one rank are in the same relation to every other.             *)
LEMMA BeforeOfRank ==
  ASSUME NEW a, NEW x, NEW y, NEW z, x.sort = y.sort
  PROVE  Before(a, x, z) <=> Before(a, y, z)
  BY DEF Before

(* What was accounted for before an arrival still is after it, if every    *)
(* token that was accounted for by the old vector is by the new one.       *)
LEMMA LostAfterArrival ==
  ASSUME NEW a, NEW s, NEW r, NEW all \in Seq(Tokens), NEW t \in Tokens,
         OnlyWorseLost(a, s, all),
         KeptIn(a, r, t) \/ KeptOut(a, r, t),
         \A n \in DOMAIN all : KeptIn(a, s, all[n]) \/ KeptOut(a, s, all[n]) =>
                               KeptIn(a, r, all[n]) \/ KeptOut(a, r, all[n])
  PROVE  OnlyWorseLost(a, r, Append(all, t))
<1> SUFFICES ASSUME NEW n \in DOMAIN Append(all, t)
             PROVE  KeptIn(a, r, Append(all, t)[n]) \/ KeptOut(a, r, Append(all, t)[n])
  BY DEF OnlyWorseLost
<1>1. n \in 1..Len(all) + 1
  BY AppendProperties
<1>2. CASE n = Len(all) + 1
  <2>1. Append(all, t)[n] = t
    BY <1>2, AppendProperties
  <2> QED
    BY <2>1
<1>3. CASE n \in 1..Len(all)
  <2>1. Append(all, t)[n] = all[n] /\ n \in DOMAIN all
    BY <1>3, AppendProperties
  <2> QED
    BY <2>1 DEF OnlyWorseLost
<1> QED
  BY <1>1, <1>2, <1>3

LEMMA AppendOneClass ==
  ASSUME NEW a, NEW s \in Seq(Tokens), NEW t \in Tokens, OneClass(a, s),
         a.same_type => t.unique = t.sort
  PROVE  OneClass(a, Append(s, t))
  BY AppendProperties DEF OneClass

(* The head of a vector inherits what holds of the vector.                 *)
LEMMA HeadOfVector ==
  ASSUME NEW a, NEW s \in Seq(Tokens), NEW n \in 0..Len(s)
  PROVE  /\ SubSeq(s, 1, n) \in Seq(Tokens)
         /\ Len(SubSeq(s, 1, n)) = n
         /\ \A i \in 1..n : SubSeq(s, 1, n)[i] = s[i]
         /\ InOrder(a, s) => InOrder(a, SubSeq(s, 1, n))
         /\ Distinct(a, s) => Distinct(a, SubSeq(s, 1, n))
         /\ OneClass(a, s) => OneClass(a, SubSeq(s, 1, n))
<1> DEFINE r == SubSeq(s, 1, n)
<1>1. r \in Seq(Tokens) /\ Len(r) = n /\ \A i \in 1..n : r[i] = s[i]
  BY SubSeqProperties
<1> HIDE DEF r
<1>2. DOMAIN r = 1..n /\ 1..n \subseteq DOMAIN s
  BY <1>1
<1>3. InOrder(a, s) => InOrder(a, r)
  BY <1>1, <1>2 DEF InOrder
<1>4. Distinct(a, s) => Distinct(a, r)
  BY <1>1, <1>2 DEF Distinct
<1>5. OneClass(a, s) => OneClass(a, r)
  BY <1>1, <1>2 DEF OneClass
<1> QED
  BY <1>1, <1>3, <1>4, <1>5 DEF r

(* InsertBounded keeps the vector what it is.                              *)
LEMMA InsertBoundedKeeps ==
  ASSUME BoundedVector(args, output, arrivals), NEW t \in Tokens,
         args.same_type => t.unique = t.sort
  PROVE  BoundedVector(args, InsertBounded(t), Append(arrivals, t))
<1> DEFINE a == args
           s == output
           p == UpperBound(args, output, t)
           l == InsertAt(s, p, t)
           dup == a.unique /\ p # 1 /\ SameUnique(s[p - 1], t)
<1> USE DEF BoundedVector
<1>1. /\ p \in 1..Len(s) + 1
      /\ \A i \in 1..p - 1 : ~Before(a, t, s[i])
      /\ \A i \in p..Len(s) : Before(a, t, s[i])
  BY UpperBoundSplits
<1>2. InOrder(a, l)
  BY InsertionInOrder
<1>3. ~dup => Distinct(a, l)
  <2> SUFFICES ASSUME ~dup PROVE Distinct(a, l)
    OBVIOUS
  <2>1. CASE a.unique = TRUE
    <3>1. args.unique = TRUE /\ args.same_type /\ t.unique = t.sort
      BY <2>1
    <3>2. UpperBound(args, output, t) # 1 =>
            ~SameUnique(output[UpperBound(args, output, t) - 1], t)
      BY <2>1
    <3>3. /\ args.sort_reverse \in BOOLEAN /\ output \in Seq(Tokens)
          /\ InOrder(args, output) /\ Distinct(args, output) /\ OneClass(args, output)
      OBVIOUS
    <3>4. Distinct(args, InsertAt(output, UpperBound(args, output, t), t))
      BY <3>1, <3>2, <3>3, InsertionDistinct
    <3> QED
      BY <3>4
  <2>2. CASE a.unique = FALSE
    BY <2>2 DEF Distinct
  <2> QED
    BY <2>1, <2>2
<1> HIDE DEF p
<1>4. /\ l \in Seq(Tokens) /\ Len(l) = Len(s) + 1
      /\ \A i \in 1..Len(s) + 1 :
           l[i] = IF i < p THEN s[i] ELSE IF i = p THEN t ELSE s[i - 1]
  BY <1>1, InsertAtElements
<1>5. OneClass(a, Append(arrivals, t)) /\ Append(arrivals, t) \in Seq(Tokens)
  BY AppendOneClass, AppendProperties
<1>6. InsertBounded(t) = IF dup THEN s
                         ELSE IF Len(s) = a.out_end THEN SubSeq(l, 1, a.out_end) ELSE l
  BY DEF InsertBounded, AtInsertion, AtLimit, WithoutExcess, p
<1> HIDE DEF l
<1>7. OneClass(a, l)
  <2> SUFFICES ASSUME a.same_type, NEW i \in DOMAIN l PROVE l[i].unique = l[i].sort
    BY DEF OneClass
  <2>1. i \in 1..Len(s) + 1
    BY <1>4
  <2>2. CASE i < p
    <3>1. l[i] = s[i] /\ i \in DOMAIN s
      BY <2>1, <2>2, <1>1, <1>4
    <3> QED
      BY <3>1 DEF OneClass
  <2>3. CASE i = p
    BY <2>1, <2>3, <1>4
  <2>4. CASE i > p
    <3>1. l[i] = s[i - 1] /\ i - 1 \in DOMAIN s
      BY <2>1, <2>4, <1>1, <1>4
    <3> QED
      BY <3>1 DEF OneClass
  <2> QED
    BY <2>1, <2>2, <2>3, <2>4, <1>1
(* Where the elements of s are in l.                                       *)
<1> DEFINE new(i) == IF i < p THEN i ELSE i + 1
<1>8. \A i \in DOMAIN s : new(i) \in 1..Len(s) + 1 /\ l[new(i)] = s[i]
  BY <1>1, <1>4
<1>9. l[p] = t
  BY <1>1, <1>4
<1>10. CASE dup
  <2>1. KeptIn(a, s, t)
    BY <1>10, <1>1 DEF KeptIn
  <2>2. OnlyWorseLost(a, s, Append(arrivals, t))
    BY <2>1, LostAfterArrival
  <2> QED
    BY <2>2, <1>5, <1>6, <1>10
<1>11. CASE ~dup /\ Len(s) # a.out_end
  <2>1. KeptIn(a, l, t)
    BY <1>1, <1>4, <1>9 DEF KeptIn
  <2>2. ASSUME NEW n \in DOMAIN arrivals,
               KeptIn(a, s, arrivals[n]) \/ KeptOut(a, s, arrivals[n])
        PROVE  KeptIn(a, l, arrivals[n])
    <3>1. KeptIn(a, s, arrivals[n])
      BY <2>2, <1>11 DEF KeptOut
    <3>2. PICK i \in DOMAIN s : s[i] = arrivals[n] \/ (a.unique /\ SameUnique(s[i], arrivals[n]))
      BY <3>1 DEF KeptIn
    <3>3. new(i) \in DOMAIN l /\ l[new(i)] = s[i]
      BY <1>4, <1>8
    <3> QED
      BY <3>2, <3>3 DEF KeptIn
  <2>3. OnlyWorseLost(a, l, Append(arrivals, t))
    BY <2>1, <2>2, LostAfterArrival
  <2>4. InsertBounded(t) = l /\ Len(l) <= a.out_end
    BY <1>4, <1>6, <1>11
  <2> QED
    BY <2>3, <2>4, <1>4, <1>2, <1>3, <1>5, <1>7, <1>11
<1>12. CASE ~dup /\ Len(s) = a.out_end
  <2> DEFINE r == SubSeq(l, 1, a.out_end)
             e == a.out_end
  <2>1. /\ r \in Seq(Tokens) /\ Len(r) = e
        /\ \A i \in 1..e : r[i] = l[i]
        /\ InOrder(a, r) /\ Distinct(a, r) /\ OneClass(a, r)
    BY <1>4, <1>2, <1>3, <1>7, <1>12, HeadOfVector
  <2> HIDE DEF r
  <2>2. DOMAIN r = 1..e /\ DOMAIN l = 1..e + 1 /\ DOMAIN s = 1..e
    BY <2>1, <1>4, <1>12
  <2>3. t.sort \in Int /\ \A i \in 1..e + 1 : l[i].sort \in Int
    BY <1>4, <2>2, TokenFields
  (* What falls off the end is before none of what stays.                  *)
  <2>4. \A i \in DOMAIN r : ~Before(a, l[e + 1], r[i])
    BY <1>2, <2>1, <2>2 DEF InOrder
  <2>5. ASSUME NEW x, \E i \in DOMAIN l : x.sort = l[i].sort /\
                        (l[i] = x \/ (a.unique /\ SameUnique(l[i], x)))
        PROVE  KeptIn(a, r, x) \/ KeptOut(a, r, x)
    <3>1. PICK i \in 1..e + 1 : x.sort = l[i].sort /\
                        (l[i] = x \/ (a.unique /\ SameUnique(l[i], x)))
      BY <2>2, <2>5
    <3>2. CASE i = e + 1
      <4>1. \A j \in DOMAIN r : ~Before(a, x, r[j])
        BY <2>4, <3>1, <3>2, BeforeOfRank
      <4> QED
        BY <4>1, <2>1 DEF KeptOut
    <3>3. CASE i \in 1..e
      <4>1. r[i] = l[i] /\ i \in DOMAIN r
        BY <3>3, <2>1, <2>2
      <4> QED
        BY <4>1, <3>1 DEF KeptIn
    <3> QED
      BY <3>2, <3>3
  <2>6. KeptIn(a, r, t) \/ KeptOut(a, r, t)
    <3>1. p \in DOMAIN l /\ l[p] = t
      BY <1>1, <1>4, <1>9
    <3> QED
      BY <3>1, <2>5
  <2>7. ASSUME NEW n \in DOMAIN arrivals,
               KeptIn(a, s, arrivals[n]) \/ KeptOut(a, s, arrivals[n])
        PROVE  KeptIn(a, r, arrivals[n]) \/ KeptOut(a, r, arrivals[n])
    <3> DEFINE x == arrivals[n]
    <3>1. x \in Tokens /\ x.sort \in Int
      BY TokenFields
    <3>2. CASE KeptIn(a, s, x)
      <4>1. PICK i \in DOMAIN s : s[i] = x \/ (a.unique /\ SameUnique(s[i], x))
        BY <3>2 DEF KeptIn
      <4>2. s[i].sort = x.sort
        BY <4>1 DEF OneClass, SameUnique
      <4>3. new(i) \in DOMAIN l /\ l[new(i)] = s[i]
        BY <1>4, <1>8
      <4> HIDE DEF new
      <4> QED
        BY <4>1, <4>2, <4>3, <2>5
    <3>3. CASE KeptOut(a, s, x)
      <4>1. \A i \in 1..e : ~Before(a, x, s[i])
        BY <3>3, <2>2 DEF KeptOut
      <4>2. ASSUME NEW j \in 1..e PROVE ~Before(a, x, r[j])
        <5>1. CASE j < p
          <6>1. r[j] = s[j]
            BY <5>1, <1>4, <1>12, <2>1
          <6> QED
            BY <6>1, <4>1
        <5>2. CASE j > p
          <6>1. j - 1 \in 1..e /\ ~(j < p) /\ j # p
            BY <5>2, <1>1
          <6>2. j \in 1..Len(s) + 1 /\ r[j] = l[j]
            BY <1>12, <2>1
          <6>3. r[j] = s[j - 1]
            BY <6>1, <6>2, <1>4
          <6> QED
            BY <6>1, <6>3, <4>1
        <5>3. CASE j = p
          <6>1. r[j] = t /\ s[p].sort \in Int
            BY <5>3, <1>9, <2>1, TokenFields, <2>2
          <6>2. Before(a, t, s[p]) /\ ~Before(a, x, s[p])
            BY <5>3, <1>1, <4>1, <1>12
          <6> QED
            BY <6>1, <6>2, <2>3, <3>1 DEF Before
        <5> QED
          BY <5>1, <5>2, <5>3, <1>1
      <4> QED
        BY <4>2, <2>1, <2>2 DEF KeptOut
    <3> QED
      BY <2>7, <3>2, <3>3
  <2>8. OnlyWorseLost(a, r, Append(arrivals, t))
    BY <2>6, <2>7, LostAfterArrival
  <2>9. InsertBounded(t) = r
    BY <1>6, <1>12 DEF r
  <2> QED
    BY <2>1, <2>8, <2>9, <1>5
<1> QED
  BY <1>10, <1>11, <1>12

-------------------------------------------------------------------------------
(* The inductive invariant.  SizeBound is not inductive by itself: it needs *)
(* that an unsorted vector that is not a tail has room while input is read *)
(* (the read loop ends when it is full), that a limit of 0 reads nothing,  *)
(* and that a sorted one is in order, so that the upper bound is a place   *)
(* in it and a duplicate can only be in front of it.                       *)
HasRoom ==
  (phase = "reading" /\ MemIsBounded(args) /\ ~args.sort /\ ~args.tail
    /\ ~IsDirectOutput(args)) => Len(output) < args.out_end

SortedInMemory ==
  (phase = "reading" /\ MemIsBounded(args) /\ args.sort) =>
    BoundedVector(args, output, arrivals)

Inv ==
  /\ TypeOK
  /\ SizeBound
  /\ NoDuplicates
  /\ phase = "reading" => args.out_end # 0
  /\ HasRoom
  /\ SortedInMemory

ArgsType ==
  /\ args.sort \in BOOLEAN /\ args.sort_reverse \in BOOLEAN
  /\ args.sort_stable \in BOOLEAN /\ args.unique \in BOOLEAN
  /\ args.same_type \in BOOLEAN /\ args.flip \in BOOLEAN /\ args.tui \in BOOLEAN
  /\ args.sed \in BOOLEAN /\ args.tail \in BOOLEAN
  /\ args.out_start \in Limits /\ args.out_end \in Limits

LEMMA ArgsTyped == TypeOK => ArgsType
  BY DEF TypeOK, Compile, OptionType, ArgsType, Turned

LEMMA MemIsBoundedFacts ==
  ASSUME TypeOK, MemIsBounded(args)
  PROVE  args.out_end \in Nat /\ (args.unique => args.sort /\ args.same_type)
  BY ArgsTyped DEF MemIsBounded, ArgsType, Limits

LEMMA DistinctAfterAppend ==
  ASSUME NEW a, NEW s \in Seq(Tokens), NEW t \in Tokens, Distinct(a, s),
         a.unique => \A i \in DOMAIN s : ~SameUnique(s[i], t)
  PROVE  Distinct(a, Append(s, t))
<1> SUFFICES ASSUME a.unique, NEW i \in DOMAIN Append(s, t),
                    NEW j \in DOMAIN Append(s, t), i # j
             PROVE  ~SameUnique(Append(s, t)[i], Append(s, t)[j])
  BY DEF Distinct
<1>1. i \in 1..Len(s) + 1 /\ j \in 1..Len(s) + 1
  BY AppendProperties
<1>2. \A k \in 1..Len(s) : Append(s, t)[k] = s[k]
  BY AppendProperties
<1>3. Append(s, t)[Len(s) + 1] = t
  BY AppendProperties
<1>4. CASE i \in 1..Len(s) /\ j \in 1..Len(s)
  BY <1>2, <1>4 DEF Distinct
<1>5. CASE i \in 1..Len(s) /\ j = Len(s) + 1
  <2>1. ~SameUnique(s[i], t)
    BY <1>5
  <2> QED
    BY <2>1, <1>2, <1>3, <1>5
<1>6. CASE i = Len(s) + 1 /\ j \in 1..Len(s)
  <2>1. ~SameUnique(s[j], t)
    BY <1>6
  <2> QED
    BY <2>1, <1>2, <1>3, <1>6 DEF SameUnique
<1> QED
  BY <1>1, <1>4, <1>5, <1>6

(* A token that is stored leaves the vector as the invariant wants it.     *)
LEMMA StoringKeeps ==
  ASSUME Inv, phase = "reading", ~TokensNotStored(args), NEW t \in Tokens,
         args.same_type => t.unique = t.sort
  PROVE  LET after == CheckUniqueThenAppend(t)
         IN /\ after \in Seq(Tokens)
            /\ Distinct(args, after)
            /\ MemIsBounded(args) => Len(after) <= args.out_end
            /\ MemIsBounded(args) /\ args.sort =>
                 BoundedVector(args, after, Append(arrivals, t))
<1> DEFINE after == CheckUniqueThenAppend(t)
<1>1. output \in Seq(Tokens) /\ Distinct(args, output) /\ arrivals \in Seq(Tokens)
  BY DEF Inv, TypeOK, NoDuplicates
<1>2. CASE ~MemIsBounded(args)
  <2>1. after = IF IsDuplicate(t) THEN output ELSE Append(output, t)
    BY <1>2 DEF CheckUniqueThenAppend, AppendUnbounded
  <2>2. ~IsDuplicate(t) => Distinct(args, Append(output, t))
    BY <1>1, DistinctAfterAppend DEF IsDuplicate
  <2> HIDE DEF after
  <2>3. after \in Seq(Tokens) /\ Distinct(args, after)
    BY <1>1, <2>1, <2>2, AppendProperties
  <2> QED
    BY <1>2, <2>3 DEF after
<1>3. CASE MemIsBounded(args) /\ args.sort
  <2>1. BoundedVector(args, output, arrivals)
    BY <1>3 DEF Inv, SortedInMemory
  <2>2. BoundedVector(args, InsertBounded(t), Append(arrivals, t))
    BY <2>1, InsertBoundedKeeps
  <2>3. after = InsertBounded(t)
    BY <1>3 DEF CheckUniqueThenAppend
  <2> HIDE DEF after
  <2> QED
    BY <2>2, <2>3 DEF BoundedVector, after
<1>4. CASE MemIsBounded(args) /\ ~args.sort
  <2>1. after = IF args.tail /\ Len(output) = args.out_end
                THEN Append(Tail(output), t) ELSE Append(output, t)
    BY <1>4 DEF CheckUniqueThenAppend, ShiftBounded, AtLimit
  <2>2. ~args.unique /\ ~IsDirectOutput(args) /\ args.out_end \in Nat
    BY <1>4, MemIsBoundedFacts DEF Inv, TokensNotStored
  <2>3. Len(output) <= args.out_end /\ args.out_end # 0
    BY <1>4 DEF Inv, SizeBound
  <2>4. ~args.tail => Len(output) < args.out_end
    BY <1>4, <2>2 DEF Inv, HasRoom
  <2> HIDE DEF after
  <2>5. after \in Seq(Tokens) /\ Len(after) <= args.out_end
    <3>1. CASE args.tail /\ Len(output) = args.out_end
      <4>1. Tail(output) \in Seq(Tokens) /\ Len(Tail(output)) = Len(output) - 1
        BY <1>1, <2>2, <2>3, <3>1
      <4> QED
        BY <4>1, <2>1, <2>2, <3>1, AppendProperties
    <3>2. CASE ~(args.tail /\ Len(output) = args.out_end)
      BY <1>1, <2>1, <2>2, <2>3, <2>4, <3>2, AppendProperties
    <3> QED
      BY <3>1, <3>2
  <2> QED
    BY <1>4, <2>2, <2>5 DEF Distinct, after
<1> QED
  BY <1>2, <1>3, <1>4

-------------------------------------------------------------------------------
(* The output stream stays a stream.                                       *)

LEMMA ItemTyped == ASSUME NEW k \in ItemKinds, NEW n \in Nat PROVE Item(k, n) \in Items
  BY DEF Item, Items

LEMMA SeparatorTyped == ASSUME NEW s, NEW a PROVE Separator(s, a) \in Seq(Items)
<1>1. Item("delimiter", 0) \in Items
  BY ItemTyped DEF ItemKinds
<1> QED
  BY <1>1 DEF Separator

LEMMA StreamTyped ==
  ASSUME NEW s \in Streams, NEW a, NEW n \in Nat
  PROVE  /\ WriteOutputFragment(s, a, n) \in Streams
         /\ WriteOutputNoTruncate(s, a, n) \in Streams
         /\ WriteOutput(s, a, n) \in Streams
         /\ WriteBetween(s) \in Streams
         /\ FinishOutput(s, a) \in Streams
<1>1. /\ Item("fragment", n) \in Items /\ Item("token", n) \in Items
      /\ Item("between", 0) \in Items /\ Item("batch", 0) \in Items
  BY ItemTyped DEF ItemKinds
<1>2. Separator(s, a) \in Seq(Items)
  BY SeparatorTyped
<1>3. s.out \in Seq(Items) /\ s.out_count \in Nat
  BY DEF Streams
<1>4. /\ s.out \o <<Item("fragment", n)>> \in Seq(Items)
      /\ s.out \o Separator(s, a) \o <<Item("fragment", n)>> \in Seq(Items)
      /\ s.out \o Separator(s, a) \o <<Item("token", n)>> \in Seq(Items)
      /\ s.out \o <<Item("between", 0)>> \in Seq(Items)
      /\ Append(s.out, Item("batch", 0)) \in Seq(Items)
  <2>1. \A i \in Items : <<i>> \in Seq(Items)
    OBVIOUS
  <2>2. \A x, y \in Seq(Items) : x \o y \in Seq(Items)
    BY ConcatProperties
  <2>3. s.out \o Separator(s, a) \in Seq(Items)
    BY <2>2, <1>2, <1>3
  <2> QED
    BY <2>1, <2>2, <2>3, <1>1, <1>3, AppendProperties
<1>5. WriteOutputFragment(s, a, n) \in Streams
  BY <1>4 DEF WriteOutputFragment, Streams
<1>6. WriteOutputNoTruncate(s, a, n) \in Streams
  BY <1>3, <1>4 DEF WriteOutputNoTruncate, Streams
<1>7. WriteOutput(s, a, n) \in Streams
  BY <1>6 DEF WriteOutput, Streams
<1>8. WriteBetween(s) \in Streams
  BY <1>4 DEF WriteBetween, Streams
<1>9. FinishOutput(s, a) \in Streams
  BY <1>3, <1>4 DEF FinishOutput, Streams
<1> QED
  BY <1>5, <1>6, <1>7, <1>8, <1>9

-------------------------------------------------------------------------------
(* Truncating and flipping.                                                *)

LEMMA ArrivalTyped ==
  ASSUME TypeOK, NEW k \in Keys, NEW u \in Keys
  PROVE  /\ Arrival(k, u) \in Tokens
         /\ args.same_type => Arrival(k, u).unique = Arrival(k, u).sort
<1>1. Len(arrivals) + 1 \in Nat
  BY DEF TypeOK
<1> QED
  BY <1>1 DEF Arrival, Tokens

(* The elements of r are elements of s, from different places.             *)
Picks(r, s) ==
  \E from \in [DOMAIN r -> DOMAIN s] :
    /\ \A i \in DOMAIN r : r[i] = s[from[i]]
    /\ \A i, j \in DOMAIN r : i # j => from[i] # from[j]

LEMMA PicksItself == ASSUME NEW s PROVE Picks(s, s)
<1> DEFINE from == [i \in DOMAIN s |-> i]
<1>1. from \in [DOMAIN s -> DOMAIN s] /\ \A i \in DOMAIN s : from[i] = i
  OBVIOUS
<1> HIDE DEF from
<1> QED
  BY <1>1 DEF Picks

LEMMA PicksOfPicks ==
  ASSUME NEW r, NEW s, NEW t, Picks(r, s), Picks(s, t)
  PROVE  Picks(r, t)
<1>1. PICK f \in [DOMAIN r -> DOMAIN s] :
        /\ \A i \in DOMAIN r : r[i] = s[f[i]]
        /\ \A i, j \in DOMAIN r : i # j => f[i] # f[j]
  BY DEF Picks
<1>2. PICK g \in [DOMAIN s -> DOMAIN t] :
        /\ \A i \in DOMAIN s : s[i] = t[g[i]]
        /\ \A i, j \in DOMAIN s : i # j => g[i] # g[j]
  BY DEF Picks
<1> DEFINE h == [i \in DOMAIN r |-> g[f[i]]]
<1>3. \A i \in DOMAIN r : h[i] = g[f[i]] /\ f[i] \in DOMAIN s
  BY <1>1
<1>4. h \in [DOMAIN r -> DOMAIN t]
  BY <1>2, <1>3
<1> HIDE DEF h
<1>5. \A i \in DOMAIN r : r[i] = t[h[i]]
  BY <1>1, <1>2, <1>3
<1>6. \A i, j \in DOMAIN r : i # j => h[i] # h[j]
  BY <1>1, <1>2, <1>3
<1> QED
  BY <1>4, <1>5, <1>6 DEF Picks

LEMMA PicksDistinct ==
  ASSUME NEW a, NEW s, NEW r, Picks(r, s), Distinct(a, s)
  PROVE  Distinct(a, r)
  BY DEF Picks, Distinct

LEMMA SubSeqPicks ==
  ASSUME NEW s \in Seq(Tokens), NEW m \in Nat \ {0}, NEW n \in 0..Len(s)
  PROVE  /\ SubSeq(s, m, n) \in Seq(Tokens)
         /\ Len(SubSeq(s, m, n)) <= Len(s)
         /\ Picks(SubSeq(s, m, n), s)
<1> DEFINE r == SubSeq(s, m, n)
           from == [i \in DOMAIN r |-> m + i - 1]
<1>1. /\ r \in Seq(Tokens)
      /\ Len(r) = IF m <= n THEN n - m + 1 ELSE 0
      /\ \A i \in 1..Len(r) : r[i] = s[m + i - 1]
  BY SubSeqProperties
<1> HIDE DEF r
<1>2. ASSUME NEW i \in DOMAIN r PROVE from[i] \in DOMAIN s /\ r[i] = s[from[i]]
  <2>1. i \in 1..Len(r) /\ from[i] = m + i - 1
    BY <1>1
  <2>2. m + i - 1 \in 1..Len(s)
    BY <2>1, <1>1
  <2> QED
    BY <2>1, <2>2, <1>1
<1>3. \A i, j \in DOMAIN r : i # j => from[i] # from[j]
  BY <1>1
<1>4. from \in [DOMAIN r -> DOMAIN s]
  BY <1>2
<1> HIDE DEF from
<1>5. Picks(r, s)
  BY <1>2, <1>3, <1>4 DEF Picks
<1> QED
  BY <1>1, <1>5 DEF r

LEMMA ReversePicks ==
  ASSUME NEW s \in Seq(Tokens)
  PROVE  Reverse(s) \in Seq(Tokens) /\ Len(Reverse(s)) = Len(s) /\ Picks(Reverse(s), s)
<1> DEFINE r == Reverse(s)
           from == [i \in 1..Len(s) |-> (Len(s) - i) + 1]
<1>1. r = [i \in 1..Len(s) |-> s[(Len(s) - i) + 1]]
  BY DEF Reverse
<1> HIDE DEF r
<1>2. \A i \in 1..Len(s) : from[i] \in 1..Len(s) /\ r[i] = s[from[i]] /\ r[i] \in Tokens
  BY <1>1
<1>3. r \in Seq(Tokens) /\ DOMAIN r = 1..Len(s) /\ Len(r) = Len(s)
  BY <1>1, <1>2
<1>4. \A i, j \in DOMAIN r : i # j => from[i] # from[j]
  BY <1>3
<1>5. from \in [DOMAIN r -> DOMAIN s]
  BY <1>2, <1>3
<1> HIDE DEF from
<1>6. Picks(r, s)
  BY <1>2, <1>3, <1>4, <1>5 DEF Picks
<1> QED
  BY <1>3, <1>6 DEF r

LEMMA ArrangementPicks ==
  ASSUME NEW a, NEW s \in Seq(Tokens), NEW n \in 0..Len(s), NEW r \in Arrangements(a, s, n)
  PROVE  r \in Seq(Tokens) /\ Len(r) <= Len(s) /\ Picks(r, s)
<1>1. PICK f \in Injection(1..n, DOMAIN s) : r = [i \in 1..n |-> s[f[i]]]
  BY DEF Arrangements
<1>2. f \in [1..n -> DOMAIN s] /\ \A i, j \in 1..n : f[i] = f[j] => i = j
  BY <1>1 DEF Injection, IsInjective
<1>3. \A i \in 1..n : f[i] \in DOMAIN s /\ r[i] = s[f[i]] /\ r[i] \in Tokens
  BY <1>1, <1>2
<1>4. r \in Seq(Tokens) /\ DOMAIN r = 1..n /\ Len(r) = n
  BY <1>1, <1>3
<1>5. f \in [DOMAIN r -> DOMAIN s] /\ \A i, j \in DOMAIN r : i # j => f[i] # f[j]
  BY <1>2, <1>4
<1>6. \A i \in DOMAIN r : r[i] = s[f[i]]
  BY ONLY <1>3, <1>4
<1>7. Picks(r, s)
  BY ONLY <1>5, <1>6 DEF Picks
<1> QED
  BY <1>4, <1>7

(* The end truncation, the start truncation and the flip pick from the  *)
(* vector.                                                                 *)
LEMMA FinaliseKeeps ==
  ASSUME TypeOK, NEW truncated \in EndTruncations(args, output)
  PROVE  LET after == Flipped(args, StartTruncated(args, truncated))
         IN /\ after \in Seq(Tokens)
            /\ Len(after) <= Len(output)
            /\ Picks(after, output)
<1> DEFINE middle == IF args.out_end = NoLimit THEN Len(output)
                     ELSE Smaller(args.out_end, Len(output))
           begun == StartTruncated(args, truncated)
<1>1. output \in Seq(Tokens) /\ ArgsType
  BY ArgsTyped DEF TypeOK
<1>2. middle \in 0..Len(output)
  BY <1>1 DEF ArgsType, Limits, NoLimit, Smaller
<1>3. truncated \in Seq(Tokens) /\ Len(truncated) <= Len(output) /\ Picks(truncated, output)
  <2>1. CASE MemIsBounded(args)
    <3>1. truncated = output
      BY <2>1 DEF EndTruncations
    <3> QED
      BY <1>1, <3>1, PicksItself
  <2>2. CASE ~MemIsBounded(args) /\ args.sort
    <3>1. truncated \in Arrangements(args, output, middle)
      BY <2>2 DEF EndTruncations
    <3> HIDE DEF middle
    <3> QED
      BY <1>1, <1>2, <3>1, ArrangementPicks
  <2>3. CASE ~MemIsBounded(args) /\ ~args.sort
    <3>1. truncated = IF CountsFromBack(args)
                      THEN SubSeq(output, Len(output) - middle + 1, Len(output))
                      ELSE SubSeq(output, 1, middle)
      BY <2>3 DEF EndTruncations
    <3>2. Len(output) - middle + 1 \in Nat \ {0} /\ Len(output) \in 0..Len(output)
      BY <1>1, <1>2
    <3> HIDE DEF middle
    <3>3. CASE CountsFromBack(args)
      <4>1. truncated = SubSeq(output, Len(output) - middle + 1, Len(output))
        BY <3>1, <3>3
      <4> QED
        BY <1>1, <3>2, <4>1, SubSeqPicks
    <3>4. CASE ~CountsFromBack(args)
      <4>1. truncated = SubSeq(output, 1, middle)
        BY <3>1, <3>4
      <4>2. 1 \in Nat \ {0}
        OBVIOUS
      <4> QED
        BY <1>1, <1>2, <4>1, <4>2, SubSeqPicks
    <3> QED
      BY <3>3, <3>4
  <2> QED
    BY <2>1, <2>2, <2>3
<1>4. begun \in Seq(Tokens) /\ Len(begun) <= Len(truncated) /\ Picks(begun, truncated)
  <2>1. CASE args.out_start = NoLimit
    BY <2>1, <1>3, PicksItself DEF StartTruncated
  <2>2. CASE args.out_start # NoLimit /\ args.out_start >= Len(truncated)
    <3>1. begun = <<>>
      BY <2>2 DEF StartTruncated
    <3>2. <<>> \in Seq(Tokens) /\ Len(<<>>) = 0 /\ DOMAIN <<>> = {}
      OBVIOUS
    <3>3. <<>> \in [DOMAIN <<>> -> DOMAIN truncated]
      BY <3>2
    <3>4. Picks(<<>>, truncated)
      BY <3>2, <3>3 DEF Picks
    <3> HIDE DEF begun
    <3> QED
      BY <3>1, <3>2, <3>4, <1>3
  <2>3. CASE args.out_start # NoLimit /\ args.out_start < Len(truncated)
    <3>1. args.out_start \in Nat
      BY <2>3, <1>1 DEF ArgsType, Limits
    <3>2. /\ Len(truncated) - args.out_start \in 0..Len(truncated)
          /\ args.out_start + 1 \in Nat \ {0} /\ Len(truncated) \in 0..Len(truncated)
      BY <1>3, <2>3, <3>1
    <3>3. begun = IF CountsFromBack(args)
                  THEN SubSeq(truncated, 1, Len(truncated) - args.out_start)
                  ELSE SubSeq(truncated, args.out_start + 1, Len(truncated))
      <4>1. ~(args.out_start >= Len(truncated))
        BY <2>3, <1>3, <3>1
      <4> QED
        BY <2>3, <4>1 DEF StartTruncated
    <3> HIDE DEF begun
    <3>4. CASE CountsFromBack(args)
      <4>1. begun = SubSeq(truncated, 1, Len(truncated) - args.out_start)
        BY <3>3, <3>4
      <4>2. 1 \in Nat \ {0}
        OBVIOUS
      <4> QED
        BY <1>3, <3>2, <4>1, <4>2, SubSeqPicks
    <3>5. CASE ~CountsFromBack(args)
      <4>1. begun = SubSeq(truncated, args.out_start + 1, Len(truncated))
        BY <3>3, <3>5
      <4> QED
        BY <1>3, <3>2, <4>1, SubSeqPicks
    <3> QED
      BY <3>4, <3>5
  <2> QED
    BY <2>1, <2>2, <2>3, <1>1, <1>3 DEF ArgsType, Limits, NoLimit
<1> HIDE DEF begun
<1>7. Picks(begun, output)
  BY <1>3, <1>4, PicksOfPicks
<1>5. CASE args.flip
  <2>1. Flipped(args, begun) = Reverse(begun)
    BY <1>5 DEF Flipped
  <2> QED
    <3>1. /\ Reverse(begun) \in Seq(Tokens) /\ Len(Reverse(begun)) = Len(begun)
          /\ Picks(Reverse(begun), begun)
      BY <1>4, ReversePicks
    <3>2. Picks(Reverse(begun), output)
      BY <3>1, <1>7, PicksOfPicks
    <3> QED
      BY <2>1, <3>1, <3>2, <1>1, <1>3, <1>4 DEF begun
<1>6. CASE ~args.flip
  <2>1. Flipped(args, begun) = begun
    BY <1>6 DEF Flipped
  <2> QED
    BY <2>1, <1>1, <1>3, <1>4, <1>7 DEF begun
<1> QED
  BY <1>5, <1>6

-------------------------------------------------------------------------------
(* The invariant holds initially and in every step.                        *)

LEMMA InitInv == Init => Inv
<1> SUFFICES ASSUME Init PROVE Inv
  OBVIOUS
<1>1. options \in OptionType
  BY OptionsAssumption DEF Init
<1>2. TypeOK
  <2>1. NewStream \in Streams
    BY DEF NewStream, Streams
  <2> QED
    BY <1>1, <2>1 DEF Init, TypeOK, Phases
<1>3. ArgsType
  BY <1>2, ArgsTyped
<1>4. output = <<>> /\ arrivals = <<>> /\ (phase = "reading" => args.out_end # 0)
  BY DEF Init
<1>5. MemIsBounded(args) => args.out_end \in Nat /\ (args.unique => args.same_type)
  BY <1>2, MemIsBoundedFacts
<1>6. SizeBound /\ HasRoom /\ NoDuplicates
  BY <1>4, <1>5 DEF SizeBound, HasRoom, NoDuplicates, Distinct
<1>7. SortedInMemory
  <2> SUFFICES ASSUME phase = "reading", MemIsBounded(args)
               PROVE  BoundedVector(args, output, arrivals)
    BY DEF SortedInMemory
  <2>1. args.out_end \in Nat \ {0} /\ (args.unique => args.same_type = TRUE)
    BY <1>3, <1>4, <1>5 DEF ArgsType
  <2>2. DOMAIN output = {} /\ DOMAIN arrivals = {} /\ Len(output) = 0
    BY <1>4
  <2>3. InOrder(args, output) /\ Distinct(args, output) /\ OneClass(args, output)
    BY <2>2 DEF InOrder, Distinct, OneClass
  <2>4. OneClass(args, arrivals) /\ OnlyWorseLost(args, output, arrivals)
    BY <2>2 DEF OneClass, OnlyWorseLost
  <2> QED
    BY <1>3, <1>4, <2>1, <2>2, <2>3, <2>4 DEF BoundedVector, ArgsType
<1> QED
  BY <1>2, <1>4, <1>6, <1>7 DEF Inv

(* What a step that leaves the vector and the history alone cannot break.  *)
LEMMA UntouchedKeeps ==
  ASSUME Inv, TypeOK', UNCHANGED <<args, arrivals, output>>,
         phase' = "reading" => phase = "reading"
  PROVE  Inv'
<1>1. SizeBound' /\ NoDuplicates'
  BY DEF Inv, SizeBound, NoDuplicates
<1>2. phase' = "reading" => args'.out_end # 0
  BY DEF Inv
<1>3. HasRoom' /\ SortedInMemory'
  BY DEF Inv, HasRoom, SortedInMemory
<1> QED
  BY <1>1, <1>2, <1>3 DEF Inv

LEMMA WriteFragmentKeeps == Inv /\ WriteFragment => Inv'
<1> SUFFICES ASSUME Inv, WriteFragment PROVE Inv'
  OBVIOUS
<1>1. TypeOK'
  <2>1. Len(arrivals) + 1 \in Nat /\ stream \in Streams /\ fragments \in Nat
    BY DEF Inv, TypeOK
  <2>2. stream' \in Streams /\ fragments' \in Nat
    BY <2>1, StreamTyped DEF WriteFragment
  <2> QED
    BY <2>2 DEF Inv, TypeOK, WriteFragment
<1> QED
  BY <1>1, UntouchedKeeps DEF WriteFragment

LEMMA CopyBetweenKeeps == Inv /\ CopyBetween => Inv'
<1> SUFFICES ASSUME Inv, CopyBetween PROVE Inv'
  OBVIOUS
<1>1. TypeOK'
  <2>1. stream' \in Streams
    BY StreamTyped, 0 \in Nat DEF Inv, TypeOK, CopyBetween
  <2> QED
    BY <2>1 DEF Inv, TypeOK, CopyBetween
<1> QED
  BY <1>1, UntouchedKeeps DEF CopyBetween

LEMMA EndOfInputKeeps == Inv /\ EndOfInput => Inv'
<1> SUFFICES ASSUME Inv, EndOfInput PROVE Inv'
  OBVIOUS
<1>1. TypeOK'
  <2>1. stream' \in Streams
    BY StreamTyped, 0 \in Nat DEF Inv, TypeOK, EndOfInput
  <2>2. phase' \in Phases
    BY DEF EndOfInput, Phases
  <2> QED
    BY <2>1, <2>2 DEF Inv, TypeOK, EndOfInput
<1> QED
  BY <1>1, UntouchedKeeps DEF EndOfInput

LEMMA WriteNextKeeps == Inv /\ WriteNext => Inv'
<1> SUFFICES ASSUME Inv, WriteNext PROVE Inv'
  OBVIOUS
<1>1. TypeOK'
  <2>1. next \in DOMAIN output /\ output \in Seq(Tokens) /\ next \in Nat \ {0}
    BY DEF Inv, TypeOK, WriteNext
  <2>2. output[next] \in Tokens
    BY <2>1
  <2>3. output[next].id \in Nat
    BY <2>2, TokenFields
  <2>4. stream' \in Streams
    BY <2>3, StreamTyped DEF Inv, TypeOK, WriteNext
  <2>5. next' \in Nat \ {0}
    BY <2>1 DEF WriteNext
  <2> QED
    BY <2>4, <2>5 DEF Inv, TypeOK, WriteNext
<1> QED
  BY <1>1, UntouchedKeeps DEF WriteNext

LEMMA FinishKeeps == Inv /\ Finish => Inv'
<1> SUFFICES ASSUME Inv, Finish PROVE Inv'
  OBVIOUS
<1>1. TypeOK'
  <2>1. stream' \in Streams
    BY StreamTyped, 0 \in Nat DEF Inv, TypeOK, Finish
  <2>2. phase' \in Phases
    BY DEF Finish, Phases
  <2> QED
    BY <2>1, <2>2 DEF Inv, TypeOK, Finish
<1> QED
  BY <1>1, UntouchedKeeps DEF Finish

LEMMA FinaliseStepKeeps == Inv /\ Finalise => Inv'
<1> SUFFICES ASSUME Inv, Finalise PROVE Inv'
  OBVIOUS
<1>1. PICK truncated \in EndTruncations(args, output) :
        output' = Flipped(args, StartTruncated(args, truncated))
  BY DEF Finalise
<1>2. /\ output' \in Seq(Tokens)
      /\ Len(output') <= Len(output)
      /\ Distinct(args, output')
  BY <1>1, FinaliseKeeps, PicksDistinct DEF Inv, NoDuplicates
<1>3. TypeOK'
  BY <1>2 DEF Inv, TypeOK, Finalise, Phases
<1>4. SizeBound'
  <2> SUFFICES ASSUME MemIsBounded(args) PROVE Len(output') <= args.out_end
    BY DEF SizeBound, Finalise
  <2>1. args.out_end \in Nat /\ Len(output) <= args.out_end /\ output \in Seq(Tokens)
    BY MemIsBoundedFacts DEF Inv, SizeBound, TypeOK
  <2> QED
    BY <1>2, <2>1
<1>5. NoDuplicates'
  BY <1>2 DEF NoDuplicates, Finalise
<1>6. phase' # "reading"
  BY DEF Finalise
<1> QED
  BY <1>3, <1>4, <1>5, <1>6 DEF Inv, HasRoom, SortedInMemory

LEMMA ForwardTokenKeeps ==
  ASSUME Inv, NEW k \in Keys, NEW u \in Keys, ForwardToken(Arrival(k, u)) PROVE Inv'
<1> DEFINE t == Arrival(k, u)
<1>1. t \in Tokens /\ (args.same_type => t.unique = t.sort) /\ t.id \in Nat
  BY ArrivalTyped, TokenFields DEF Inv
<1> HIDE DEF t
<1>2. /\ IsDirectOutput(args) /\ phase = "reading"
      /\ arrivals' = Append(arrivals, t) /\ fragments' = 0
      /\ UNCHANGED <<options, args, next>>
      /\ output' = IF TokensNotStored(args) THEN output ELSE CheckUniqueThenAppend(t)
  BY DEF ForwardToken, Arrive, Reading, t
<1>3. /\ stream' \in Streams /\ phase' \in Phases
  <2>1. stream \in Streams
    BY DEF Inv, TypeOK
  <2>2. WriteOutput(stream, args, t.id) \in Streams
    BY <2>1, <1>1, StreamTyped
  <2>3. FinishOutput(WriteOutput(stream, args, t.id), args) \in Streams
    BY <2>2, StreamTyped, 0 \in Nat
  <2>4. phase' = phase \/ phase' = "done"
    BY DEF ForwardToken, t
  <2>5. \/ stream' = stream \/ stream' = WriteOutput(stream, args, t.id)
        \/ stream' = FinishOutput(WriteOutput(stream, args, t.id), args)
    BY DEF ForwardToken, t
  <2> QED
    BY <2>1, <2>2, <2>3, <2>4, <2>5, <1>2 DEF Phases
<1>4. /\ output' \in Seq(Tokens) /\ Distinct(args, output')
      /\ MemIsBounded(args) => Len(output') <= args.out_end
  <2>1. CASE TokensNotStored(args)
    BY <2>1, <1>2 DEF Inv, TypeOK, NoDuplicates, SizeBound
  <2>2. CASE ~TokensNotStored(args)
    BY <2>2, <1>1, <1>2, StoringKeeps
  <2> QED
    BY <2>1, <2>2
<1>5. TypeOK'
  <2>1. arrivals' \in Seq(Tokens)
    BY <1>1, <1>2, AppendProperties DEF Inv, TypeOK
  <2> QED
    BY <2>1, <1>2, <1>3, <1>4 DEF Inv, TypeOK
<1>6. HasRoom' /\ SortedInMemory'
  BY <1>2 DEF HasRoom, SortedInMemory, IsDirectOutput
<1>7. SizeBound' /\ NoDuplicates' /\ args'.out_end # 0
  BY <1>2, <1>4 DEF SizeBound, NoDuplicates, Inv
<1> QED
  BY <1>5, <1>6, <1>7 DEF Inv

LEMMA StoreTokenKeeps ==
  ASSUME Inv, NEW k \in Keys, NEW u \in Keys, StoreToken(Arrival(k, u)) PROVE Inv'
<1> DEFINE t == Arrival(k, u)
<1>1. t \in Tokens /\ (args.same_type => t.unique = t.sort)
  BY ArrivalTyped DEF Inv
<1> HIDE DEF t
<1>2. /\ ~IsDirectOutput(args) /\ ~TokensNotStored(args) /\ phase = "reading"
      /\ arrivals' = Append(arrivals, t) /\ fragments' = 0
      /\ UNCHANGED <<options, args, next, stream>>
      /\ output' = CheckUniqueThenAppend(t)
      /\ phase' = IF /\ MemIsBounded(args) /\ ~args.sort /\ ~args.tail
                     /\ Len(output') = args.out_end
                  THEN "finalising" ELSE phase
  BY DEF StoreToken, Arrive, Reading, TokensNotStored, t
<1>3. /\ output' \in Seq(Tokens) /\ Distinct(args, output')
      /\ MemIsBounded(args) => Len(output') <= args.out_end
      /\ MemIsBounded(args) /\ args.sort => BoundedVector(args, output', arrivals')
  BY <1>1, <1>2, StoringKeeps
<1>4. TypeOK'
  <2>1. arrivals' \in Seq(Tokens)
    BY <1>1, <1>2, AppendProperties DEF Inv, TypeOK
  <2> QED
    BY <2>1, <1>2, <1>3 DEF Inv, TypeOK, Phases
<1>5. HasRoom'
  <2> SUFFICES ASSUME phase' = "reading", MemIsBounded(args), ~args.sort, ~args.tail
               PROVE  Len(output') < args.out_end
    BY <1>2 DEF HasRoom
  <2>1. args.out_end \in Nat /\ Len(output') \in Nat /\ Len(output') <= args.out_end
    BY <1>3, MemIsBoundedFacts DEF Inv
  <2>2. Len(output') # args.out_end
    BY <1>2
  <2> QED
    BY <2>1, <2>2
<1>6. SortedInMemory'
  BY <1>2, <1>3 DEF SortedInMemory
<1>7. SizeBound' /\ NoDuplicates' /\ args'.out_end # 0
  BY <1>2, <1>3 DEF SizeBound, NoDuplicates, Inv
<1> QED
  BY <1>4, <1>5, <1>6, <1>7 DEF Inv

LEMMA NextInv == Inv /\ [Next]_vars => Inv'
<1> SUFFICES ASSUME Inv, [Next]_vars PROVE Inv'
  OBVIOUS
<1>1. CASE WriteFragment
  BY <1>1, WriteFragmentKeeps
<1>2. CASE CopyBetween
  BY <1>2, CopyBetweenKeeps
<1>3. CASE \E k, u \in Keys : ForwardToken(Arrival(k, u)) \/ StoreToken(Arrival(k, u))
  BY <1>3, ForwardTokenKeeps, StoreTokenKeeps
<1>4. CASE EndOfInput
  BY <1>4, EndOfInputKeeps
<1>5. CASE Finalise
  BY <1>5, FinaliseStepKeeps
<1>6. CASE WriteNext
  BY <1>6, WriteNextKeeps
<1>7. CASE Finish
  BY <1>7, FinishKeeps
<1>8. CASE UNCHANGED vars
  <2>1. TypeOK'
    BY <1>8 DEF Inv, TypeOK, vars
  <2> QED
    BY <1>8, <2>1, UntouchedKeeps DEF vars
<1> QED
  BY <1>1, <1>2, <1>3, <1>4, <1>5, <1>6, <1>7, <1>8 DEF Next, Terminated

THEOREM Invariance == Spec => []Inv
  BY InitInv, NextInv, PTL DEF Spec

(* For all options, keys and numbers of tokens: the variables of the       *)
(* collector keep their types.  In particular the vector holds only tokens *)
(* that arrived, through every sort, truncation and flip.                  *)
THEOREM TypeCorrect == Spec => []TypeOK
<1>1. Inv => TypeOK
  BY DEF Inv
<1> QED
  BY <1>1, Invariance, PTL

(* Whenever mem_is_bounded, the vector never outgrows its limit: what a    *)
(* build with OUTPUT_SIZE_BOUND_TESTING looks for after every token.       *)
THEOREM BoundHolds == Spec => []SizeBound
<1>1. Inv => SizeBound
  BY DEF Inv
<1> QED
  BY <1>1, Invariance, PTL

(* --unique holds in every way of storing tokens: with the hash set or     *)
(* tree, and with the sorted vector that only looks at one neighbour.      *)
THEOREM UniqueHolds == Spec => []NoDuplicates
<1>1. Inv => NoDuplicates
  BY DEF Inv
<1> QED
  BY <1>1, Invariance, PTL

(* A sorted vector in bounded memory loses no token that its limit would   *)
(* have let in.                                                            *)
THEOREM NothingBetterLost == Spec => []LosesOnlyWorse
<1>1. Inv => LosesOnlyWorse
  BY DEF Inv, SortedInMemory, LosesOnlyWorse, BoundedVector
<1> QED
  BY <1>1, Invariance, PTL

-------------------------------------------------------------------------------
(* What is written, one item after the other.                              *)
WithDelimiter(s, a) ==
  IF s.delimit_required /\ ~a.sed THEN Append(s.out, Item("delimiter", 0)) ELSE s.out

LEMMA ItemsWritten ==
  ASSUME NEW s \in Streams, NEW a, NEW n \in Nat
  PROVE  /\ s.out \in Seq(Items) /\ WithDelimiter(s, a) \in Seq(Items)
         /\ \A k \in ItemKinds : Item(k, n) \in Items
         /\ WriteOutputNoTruncate(s, a, n).out = Append(WithDelimiter(s, a), Item("token", n))
         /\ WriteOutputFragment(s, a, n).out =
              IF BeginDiscard(s, a) THEN Append(s.out, Item("fragment", n))
              ELSE Append(WithDelimiter(s, a), Item("fragment", n))
         /\ WriteOutput(s, a, n).out =
              IF BeginDiscard(s, a) THEN s.out ELSE Append(WithDelimiter(s, a), Item("token", n))
         /\ WriteBetween(s).out = Append(s.out, Item("between", 0))
         /\ FinishOutput(s, a).out =
              IF BatchRequired(s, a) THEN Append(s.out, Item("batch", 0)) ELSE s.out
<1>1. s.out \in Seq(Items) /\ DOMAIN s = {"out", "out_count", "has_written", "delimit_required"}
  BY DEF Streams
<1>2. \A k \in ItemKinds, m \in Nat : Item(k, m) \in Items
  BY ItemTyped
<1>3. Item("delimiter", 0) \in Items /\ Item("between", 0) \in Items
  BY <1>2 DEF ItemKinds
<1>4. WithDelimiter(s, a) \in Seq(Items)
  BY <1>1, <1>3 DEF WithDelimiter
<1>5. ASSUME NEW l \in Seq(Items), NEW x \in Items PROVE l \o <<x>> = Append(l, x)
  OBVIOUS
<1>6. s.out \o Separator(s, a) = WithDelimiter(s, a)
  BY <1>1, <1>3, <1>5 DEF Separator, WithDelimiter
<1>7. ASSUME NEW x \in Items
      PROVE  s.out \o Separator(s, a) \o <<x>> = Append(WithDelimiter(s, a), x)
  BY <1>4, <1>5, <1>6
<1>8. Item("token", n) \in Items /\ Item("fragment", n) \in Items
  BY <1>2 DEF ItemKinds
<1>9. WriteOutputNoTruncate(s, a, n).out = Append(WithDelimiter(s, a), Item("token", n))
  BY <1>7, <1>8 DEF WriteOutputNoTruncate
<1>10. WriteOutputFragment(s, a, n).out =
         IF BeginDiscard(s, a) THEN Append(s.out, Item("fragment", n))
         ELSE Append(WithDelimiter(s, a), Item("fragment", n))
  <2>1. CASE BeginDiscard(s, a)
    <3>1. WriteOutputFragment(s, a, n) = [s EXCEPT !.out = s.out \o <<Item("fragment", n)>>]
      BY <2>1 DEF WriteOutputFragment
    <3> QED
      BY <1>1, <1>5, <1>8, <2>1, <3>1
  <2>2. CASE ~BeginDiscard(s, a)
    <3>1. WriteOutputFragment(s, a, n).out = s.out \o Separator(s, a) \o <<Item("fragment", n)>>
      BY <1>1, <2>2 DEF WriteOutputFragment
    <3> QED
      BY <1>7, <1>8, <2>2, <3>1
  <2> QED
    BY <2>1, <2>2
<1>11. WriteOutput(s, a, n).out =
         IF BeginDiscard(s, a) THEN s.out ELSE Append(WithDelimiter(s, a), Item("token", n))
  BY <1>1, <1>9 DEF WriteOutput
<1>12. WriteBetween(s).out = Append(s.out, Item("between", 0))
  BY <1>1, <1>3, <1>5 DEF WriteBetween
<1>13. FinishOutput(s, a).out =
         IF BatchRequired(s, a) THEN Append(s.out, Item("batch", 0)) ELSE s.out
  BY DEF FinishOutput
<1> QED
  BY <1>1, <1>2, <1>4, <1>9, <1>10, <1>11, <1>12, <1>13

(* The tokens whose last part is written.                                  *)
TokenIds(items) == {items[i].id : i \in {j \in DOMAIN items : items[j].kind = "token"}}

LEMMA TokenIdsAppend ==
  ASSUME NEW l \in Seq(Items), NEW k, NEW n
  PROVE  TokenIds(Append(l, Item(k, n))) =
           IF k = "token" THEN TokenIds(l) \cup {n} ELSE TokenIds(l)
<1> DEFINE m == Append(l, Item(k, n))
<1>1. /\ DOMAIN l = 1..Len(l) /\ DOMAIN m = 1..Len(l) + 1 /\ Len(l) \in Nat
      /\ m[Len(l) + 1] = Item(k, n) /\ \A i \in 1..Len(l) : m[i] = l[i]
  <2>1. IsSequence(l)
    BY DEF IsSequence
  <2> QED
    BY <2>1, AppendedSequence
<1>2. Item(k, n).kind = k /\ Item(k, n).id = n
  BY DEF Item
<1>3. \A i \in DOMAIN m : i \in 1..Len(l) \/ i = Len(l) + 1
  BY <1>1
<1>4. \A i \in 1..Len(l) : i \in DOMAIN m
  BY <1>1
<1>5. Len(l) + 1 \in DOMAIN m
  BY <1>1
<1> HIDE DEF m
<1>6. CASE k = "token"
  BY <1>1, <1>2, <1>3, <1>4, <1>5, <1>6 DEF TokenIds, m
<1>7. CASE k # "token"
  BY <1>1, <1>2, <1>3, <1>4, <1>7 DEF TokenIds, m
<1> QED
  BY <1>6, <1>7

LEMMA IdsWithDelimiter ==
  ASSUME NEW s \in Streams, NEW a
  PROVE  /\ WithDelimiter(s, a) \in Seq(Items)
         /\ TokenIds(WithDelimiter(s, a)) = TokenIds(s.out)
<1>1. s.out \in Seq(Items) /\ WithDelimiter(s, a) \in Seq(Items)
  BY 0 \in Nat, ItemsWritten
<1>2. TokenIds(Append(s.out, Item("delimiter", 0))) = TokenIds(s.out)
  BY <1>1, TokenIdsAppend
<1> QED
  BY <1>1, <1>2 DEF WithDelimiter

LEMMA IdsWriteOutputNoTruncate ==
  ASSUME NEW s \in Streams, NEW a, NEW n \in Nat
  PROVE  TokenIds(WriteOutputNoTruncate(s, a, n).out) = TokenIds(s.out) \cup {n}
<1>1. TokenIds(Append(WithDelimiter(s, a), Item("token", n))) = TokenIds(s.out) \cup {n}
  BY IdsWithDelimiter, TokenIdsAppend
<1> QED
  BY <1>1, ItemsWritten

LEMMA IdsWriteOutputFragment ==
  ASSUME NEW s \in Streams, NEW a, NEW n \in Nat
  PROVE  TokenIds(WriteOutputFragment(s, a, n).out) = TokenIds(s.out)
<1>1. TokenIds(Append(WithDelimiter(s, a), Item("fragment", n))) = TokenIds(s.out)
  BY IdsWithDelimiter, TokenIdsAppend
<1>2. TokenIds(Append(s.out, Item("fragment", n))) = TokenIds(s.out)
  BY ItemsWritten, TokenIdsAppend
<1>3. \/ WriteOutputFragment(s, a, n).out = Append(s.out, Item("fragment", n))
      \/ WriteOutputFragment(s, a, n).out = Append(WithDelimiter(s, a), Item("fragment", n))
  BY ItemsWritten
<1> QED
  BY <1>1, <1>2, <1>3

LEMMA IdsWriteOutput ==
  ASSUME NEW s \in Streams, NEW a, NEW n \in Nat
  PROVE  TokenIds(WriteOutput(s, a, n).out) =
           IF BeginDiscard(s, a) THEN TokenIds(s.out) ELSE TokenIds(s.out) \cup {n}
<1>1. TokenIds(Append(WithDelimiter(s, a), Item("token", n))) = TokenIds(s.out) \cup {n}
  BY IdsWithDelimiter, TokenIdsAppend
<1>2. WriteOutput(s, a, n).out =
        IF BeginDiscard(s, a) THEN s.out ELSE Append(WithDelimiter(s, a), Item("token", n))
  BY ItemsWritten
<1> QED
  BY <1>1, <1>2

LEMMA IdsWriteBetween ==
  ASSUME NEW s \in Streams
  PROVE  TokenIds(WriteBetween(s).out) = TokenIds(s.out)
<1>1. s.out \in Seq(Items) /\ WriteBetween(s).out = Append(s.out, Item("between", 0))
  BY 0 \in Nat, ItemsWritten
<1> QED
  BY <1>1, TokenIdsAppend

LEMMA IdsFinishOutput ==
  ASSUME NEW s \in Streams, NEW a
  PROVE  TokenIds(FinishOutput(s, a).out) = TokenIds(s.out)
<1>1. /\ s.out \in Seq(Items)
      /\ FinishOutput(s, a).out = Append(s.out, Item("batch", 0)) \/ FinishOutput(s, a).out = s.out
  BY 0 \in Nat, ItemsWritten
<1>2. TokenIds(Append(s.out, Item("batch", 0))) = TokenIds(s.out)
  BY <1>1, TokenIdsAppend
<1> QED
  BY <1>1, <1>2

(* Every token of the vector is one that arrived, and is there once; only  *)
(* tokens that arrived are written.                                        *)
Numbered(all) == \A n \in DOMAIN all : all[n].id = n

TracedVector(s, all) ==
  /\ \A i \in DOMAIN s : s[i].id \in DOMAIN all /\ s[i] = all[s[i].id]
  /\ \A i, j \in DOMAIN s : i # j => s[i].id # s[j].id

Traced ==
  /\ Numbered(arrivals)
  /\ TracedVector(output, arrivals)
  /\ TokenIds(stream.out) \subseteq DOMAIN arrivals

(* The tokens that are in the output or may come to be.                    *)
Held == TokenIds(stream.out) \cup {output[i].id : i \in DOMAIN output}

LEMMA PicksTraced ==
  ASSUME NEW s, NEW r, NEW all, Picks(r, s), TracedVector(s, all)
  PROVE  TracedVector(r, all)
<1>1. PICK from \in [DOMAIN r -> DOMAIN s] :
        /\ \A i \in DOMAIN r : r[i] = s[from[i]]
        /\ \A i, j \in DOMAIN r : i # j => from[i] # from[j]
  BY DEF Picks
<1> QED
  BY <1>1 DEF TracedVector

LEMMA ArrivalTraced ==
  ASSUME NEW s \in Seq(Tokens), NEW all \in Seq(Tokens), NEW t \in Tokens,
         Numbered(all), TracedVector(s, all), t.id = Len(all) + 1
  PROVE  /\ Numbered(Append(all, t))
         /\ TracedVector(s, Append(all, t))
         /\ TracedVector(Append(s, t), Append(all, t))
<1> DEFINE more == Append(all, t)
           l == Append(s, t)
<1>1. /\ DOMAIN all = 1..Len(all) /\ DOMAIN more = 1..Len(all) + 1 /\ Len(all) \in Nat
      /\ more[Len(all) + 1] = t /\ \A n \in 1..Len(all) : more[n] = all[n]
  BY AppendProperties
<1>2. /\ DOMAIN s = 1..Len(s) /\ DOMAIN l = 1..Len(s) + 1 /\ Len(s) \in Nat
      /\ l[Len(s) + 1] = t /\ \A i \in 1..Len(s) : l[i] = s[i]
  BY AppendProperties
<1> HIDE DEF more, l
<1>3. Numbered(more)
  BY <1>1 DEF Numbered
<1>4. TracedVector(s, more)
  BY <1>1 DEF TracedVector
<1>5. \A i \in DOMAIN l : l[i].id \in DOMAIN more /\ l[i] = more[l[i].id]
  BY <1>1, <1>2, <1>4 DEF TracedVector
<1>6. \A i \in 1..Len(s) : l[i].id # l[Len(s) + 1].id
  BY <1>1, <1>2 DEF TracedVector
<1>7. \A i, j \in 1..Len(s) : i # j => l[i].id # l[j].id
  BY <1>2 DEF TracedVector
<1>8. \A i \in DOMAIN l : i \in 1..Len(s) \/ i = Len(s) + 1
  BY <1>2
<1>9. \A i, j \in DOMAIN l : i # j => l[i].id # l[j].id
  BY <1>6, <1>7, <1>8
<1> QED
  BY <1>3, <1>4, <1>5, <1>9 DEF TracedVector, more, l

LEMMA InsertionPicks ==
  ASSUME NEW s \in Seq(Tokens), NEW t \in Tokens, NEW p \in 1..Len(s) + 1
  PROVE  Picks(InsertAt(s, p, t), Append(s, t))
<1> DEFINE r == InsertAt(s, p, t)
           l == Append(s, t)
           from == [i \in 1..Len(s) + 1 |->
                     IF i < p THEN i ELSE IF i = p THEN Len(s) + 1 ELSE i - 1]
<1>1. /\ r \in Seq(Tokens) /\ Len(r) = Len(s) + 1 /\ Len(s) \in Nat
      /\ \A i \in 1..Len(s) + 1 :
           r[i] = IF i < p THEN s[i] ELSE IF i = p THEN t ELSE s[i - 1]
  BY InsertAtElements
<1>2. /\ DOMAIN l = 1..Len(s) + 1 /\ l[Len(s) + 1] = t
      /\ \A i \in 1..Len(s) : l[i] = s[i]
  BY AppendProperties
<1> HIDE DEF r, l
<1>3. DOMAIN r = 1..Len(s) + 1
  BY <1>1
<1>4. from \in [1..Len(s) + 1 -> 1..Len(s) + 1]
  BY <1>1
<1>5. \A i \in 1..Len(s) + 1 :
        from[i] = IF i < p THEN i ELSE IF i = p THEN Len(s) + 1 ELSE i - 1
  OBVIOUS
<1> HIDE DEF from
<1>6. ASSUME NEW i \in 1..Len(s) + 1 PROVE r[i] = l[from[i]]
  <2>1. CASE i < p
    <3>1. i \in 1..Len(s)
      BY <1>1, <2>1
    <3> QED
      BY <1>1, <1>2, <1>5, <2>1, <3>1
  <2>2. CASE i = p
    BY <1>1, <1>2, <1>5, <2>2
  <2>3. CASE i > p
    <3>1. i - 1 \in 1..Len(s) /\ ~(i < p) /\ i # p
      BY <1>1, <2>3
    <3> QED
      BY <1>1, <1>2, <1>5, <3>1
  <2> QED
    BY <1>1, <2>1, <2>2, <2>3
<1>7. \A i, j \in 1..Len(s) + 1 : i # j => from[i] # from[j]
  BY <1>1, <1>5
<1>8. Picks(r, l)
  BY <1>2, <1>3, <1>4, <1>6, <1>7 DEF Picks
<1> QED
  BY <1>8 DEF r, l

(* However a token is stored, the vector is picked from what it was and    *)
(* the token.                                                              *)
LEMMA StoringPicks ==
  ASSUME Inv, phase = "reading", ~TokensNotStored(args), NEW t \in Tokens,
         args.same_type => t.unique = t.sort
  PROVE  Picks(CheckUniqueThenAppend(t), Append(output, t))
<1> DEFINE after == CheckUniqueThenAppend(t)
           all == Append(output, t)
<1>1. /\ output \in Seq(Tokens) /\ all \in Seq(Tokens) /\ Len(all) = Len(output) + 1
      /\ Len(output) \in Nat
  BY AppendProperties DEF Inv, TypeOK
<1>2. Picks(output, all)
  <2>1. Picks(SubSeq(all, 1, Len(output)), all)
    <3>1. 1 \in Nat \ {0} /\ Len(output) \in 0..Len(all)
      BY <1>1
    <3> HIDE DEF all
    <3> QED
      BY <1>1, <3>1, SubSeqPicks
  <2>2. SubSeq(all, 1, Len(output)) = output
    BY <1>1
  <2> QED
    BY <2>1, <2>2
<1>3. CASE ~MemIsBounded(args)
  <2>1. after = output \/ after = all
    BY <1>3 DEF CheckUniqueThenAppend, AppendUnbounded
  <2> QED
    BY <1>2, <2>1, PicksItself
<1>4. CASE MemIsBounded(args) /\ args.sort
  <2> DEFINE p == UpperBound(args, output, t)
             longer == InsertAt(output, p, t)
  <2>1. BoundedVector(args, output, arrivals)
    BY <1>4 DEF Inv, SortedInMemory
  <2>2. p \in 1..Len(output) + 1
    BY <1>1, <2>1, UpperBoundSplits DEF BoundedVector
  <2>3. \/ after = output \/ after = longer
        \/ AtLimit /\ after = SubSeq(longer, 1, args.out_end)
    BY <1>4 DEF CheckUniqueThenAppend, InsertBounded, WithoutExcess
  <2> HIDE DEF p
  <2>4. longer \in Seq(Tokens) /\ Len(longer) = Len(output) + 1
    BY <1>1, <2>2, InsertAtElements
  <2>5. Picks(longer, all)
    BY <1>1, <2>2, InsertionPicks
  <2> HIDE DEF longer, after, all
  <2>6. ASSUME AtLimit PROVE Picks(SubSeq(longer, 1, args.out_end), all)
    <3>1. args.out_end \in 0..Len(longer) /\ 1 \in Nat \ {0}
      BY <1>1, <2>4, <2>6 DEF AtLimit
    <3>2. Picks(SubSeq(longer, 1, args.out_end), longer)
      BY <2>4, <3>1, SubSeqPicks
    <3> QED
      BY <2>5, <3>2, PicksOfPicks
  <2>7. Picks(after, all)
    BY <1>2, <2>3, <2>5, <2>6
  <2> QED
    BY <2>7 DEF after, all
<1>5. CASE MemIsBounded(args) /\ ~args.sort
  <2>1. after = all \/ (args.tail /\ AtLimit /\ after = Append(Tail(output), t))
    BY <1>5 DEF CheckUniqueThenAppend, ShiftBounded
  <2>2. ASSUME args.tail, AtLimit, after = Append(Tail(output), t)
        PROVE  Picks(after, all)
    <3>1. Len(output) # 0
      BY <2>2, <1>1 DEF AtLimit, Inv
    <3>2. Append(Tail(output), t) = SubSeq(all, 2, Len(all))
      BY <1>1, <3>1
    <3>3. 2 \in Nat \ {0} /\ Len(all) \in 0..Len(all)
      BY <1>1
    <3>4. Picks(SubSeq(all, 2, Len(all)), all)
      BY <1>1, <3>3, SubSeqPicks
    <3> QED
      BY <2>2, <3>2, <3>4
  <2> QED
    BY <2>1, <2>2, PicksItself
<1> QED
  BY <1>3, <1>4, <1>5

(* After a token was stored there is one at the end of the vector.         *)
LEMMA StoringLeavesOne ==
  ASSUME Inv, NEW k \in Keys, NEW u \in Keys, StoreToken(Arrival(k, u))
  PROVE  output' # <<>>
<1> DEFINE t == Arrival(k, u)
<1>1. t \in Tokens /\ (args.same_type => t.unique = t.sort)
  BY ArrivalTyped DEF Inv
<1>2. phase = "reading" /\ ~TokensNotStored(args) /\ output' = CheckUniqueThenAppend(t)
  BY DEF StoreToken, Arrive, Reading, TokensNotStored
<1> HIDE DEF t
<1>3. output \in Seq(Tokens) /\ Append(output, t) # <<>> /\ arrivals \in Seq(Tokens)
  BY <1>1 DEF Inv, TypeOK
<1>4. CASE ~MemIsBounded(args)
  <2>1. IsDuplicate(t) => output # <<>>
    BY DEF IsDuplicate
  <2> QED
    BY <1>2, <1>3, <1>4, <2>1 DEF CheckUniqueThenAppend, AppendUnbounded
<1>5. CASE MemIsBounded(args) /\ ~args.sort
  <2>1. Append(Tail(output), t) # <<>> \/ output = <<>>
    BY <1>1, <1>3
  <2>2. AtLimit => output # <<>>
    BY <1>2, <1>3 DEF AtLimit, Inv
  <2> QED
    BY <1>2, <1>3, <1>5, <2>1, <2>2 DEF CheckUniqueThenAppend, ShiftBounded
<1>6. CASE MemIsBounded(args) /\ args.sort
  <2>1. BoundedVector(args, output', Append(arrivals, t))
    BY <1>1, <1>2, <1>6, StoringKeeps
  <2>2. Len(arrivals) + 1 \in DOMAIN Append(arrivals, t)
    BY <1>1, <1>3
  <2>3. args.out_end # 0
    BY <1>2 DEF Inv
  <2> QED
    BY <2>1, <2>2, <2>3 DEF BoundedVector, OnlyWorseLost, KeptIn, KeptOut
<1> QED
  BY <1>4, <1>5, <1>6

LEMMA InitTraced == Init => Traced
<1>1. TokenIds(<<>>) = {}
  BY DEF TokenIds
<1> QED
  BY <1>1 DEF Init, Traced, Numbered, TracedVector, NewStream

(* A token that arrives may be held, unless it is discarded before the     *)
(* start of --out; no other step holds more.                               *)
LEMMA ArrivalHeld ==
  ASSUME Inv, NEW k \in Keys, NEW u \in Keys,
         ForwardToken(Arrival(k, u)) \/ StoreToken(Arrival(k, u))
  PROVE  /\ Held' \subseteq Held \cup {Len(arrivals) + 1}
         /\ TokenIds(stream'.out) \subseteq TokenIds(stream.out) \cup {Len(arrivals) + 1}
         /\ TokensNotStored(args) /\ BeginDiscard(stream, args) => Held' = Held
<1> DEFINE t == Arrival(k, u)
<1>1. /\ t \in Tokens /\ (args.same_type => t.unique = t.sort) /\ t.id \in Nat
      /\ t.id = Len(arrivals) + 1 /\ stream \in Streams
  BY ArrivalTyped, TokenFields DEF Inv, TypeOK, Arrival
<1>2. /\ phase = "reading"
      /\ \/ TokensNotStored(args) /\ output' = output
         \/ ~TokensNotStored(args) /\ output' = CheckUniqueThenAppend(t)
      /\ \/ stream' = stream /\ (~IsDirectOutput(args) \/ IsDuplicate(t))
         \/ stream' = WriteOutput(stream, args, t.id)
         \/ stream' = FinishOutput(WriteOutput(stream, args, t.id), args)
  BY DEF ForwardToken, StoreToken, Arrive, Reading, TokensNotStored
<1>3. WriteOutput(stream, args, t.id) \in Streams
  BY <1>1, StreamTyped
<1>4. /\ TokenIds(stream'.out) \subseteq TokenIds(stream.out) \cup {t.id}
      /\ BeginDiscard(stream, args) => TokenIds(stream'.out) = TokenIds(stream.out)
  <2>1. TokenIds(WriteOutput(stream, args, t.id).out) =
          IF BeginDiscard(stream, args) THEN TokenIds(stream.out)
          ELSE TokenIds(stream.out) \cup {t.id}
    <3>1. stream \in Streams /\ t.id \in Nat
      BY <1>1
    <3> QED
      BY ONLY <3>1, IdsWriteOutput
  <2>2. TokenIds(FinishOutput(WriteOutput(stream, args, t.id), args).out) =
          TokenIds(WriteOutput(stream, args, t.id).out)
    BY ONLY <1>3, IdsFinishOutput
  <2> QED
    BY <1>2, <2>1, <2>2
<1>5. \A i \in DOMAIN output' : output'[i].id \in {output[j].id : j \in DOMAIN output} \cup {t.id}
  <2>1. CASE TokensNotStored(args)
    BY <1>2, <2>1
  <2>2. CASE ~TokensNotStored(args)
    <3>1. Picks(output', Append(output, t))
      BY <1>1, <1>2, <2>2, StoringPicks
    <3>2. IsSequence(output)
      BY DEF Inv, TypeOK, IsSequence
    <3>3. PICK l : l = Append(output, t)
      OBVIOUS
    <3>4. \A i \in DOMAIN l : l[i] = t \/ \E j \in DOMAIN output : l[i] = output[j]
      <4>1. /\ DOMAIN l = 1..Len(output) + 1 /\ DOMAIN output = 1..Len(output)
            /\ Len(output) \in Nat /\ l[Len(output) + 1] = t
            /\ \A i \in 1..Len(output) : l[i] = output[i]
        BY <3>2, <3>3, AppendedSequence
      <4>2. \A i \in DOMAIN l : i \in 1..Len(output) \/ i = Len(output) + 1
        BY <4>1
      <4> QED
        BY <4>1, <4>2
    <3>5. \A i \in DOMAIN output' : \E j \in DOMAIN l : output'[i] = l[j]
      BY <3>1, <3>3 DEF Picks
    <3> QED
      BY <3>4, <3>5
  <2> QED
    BY <2>1, <2>2
<1>6. Held' \subseteq Held \cup {t.id}
  BY <1>4, <1>5 DEF Held
<1>7. TokensNotStored(args) => output' = output
  BY <1>2
<1> QED
  BY <1>1, <1>4, <1>6, <1>7 DEF Held

LEMMA NothingElseHeld ==
  ASSUME Inv, Finalise \/ WriteNext \/ Finish \/ EndOfInput
  PROVE  Held' \subseteq Held
<1>1. stream \in Streams
  BY DEF Inv, TypeOK
<1>2. CASE Finalise
  <2>1. PICK truncated \in EndTruncations(args, output) :
          output' = Flipped(args, StartTruncated(args, truncated))
    BY <1>2 DEF Finalise
  <2>2. Picks(output', output)
    BY <2>1, FinaliseKeeps DEF Inv
  <2>3. \A i \in DOMAIN output' : \E j \in DOMAIN output : output'[i] = output[j]
    BY <2>2 DEF Picks
  <2> QED
    BY <1>2, <2>3 DEF Held, Finalise
<1>3. CASE WriteNext
  <2>1. next \in DOMAIN output /\ output[next].id \in Nat
    BY <1>3, TokenFields DEF Inv, TypeOK, WriteNext
  <2>2. TokenIds(stream'.out) = TokenIds(stream.out) \cup {output[next].id}
    BY <1>1, <1>3, <2>1, IdsWriteOutputNoTruncate DEF WriteNext
  <2> QED
    BY <1>3, <2>1, <2>2 DEF Held, WriteNext
<1>4. CASE Finish \/ EndOfInput
  <2>1. stream' = stream \/ stream' = FinishOutput(stream, args)
    BY <1>4 DEF Finish, EndOfInput
  <2>2. TokenIds(stream'.out) = TokenIds(stream.out)
    BY <1>1, <2>1, IdsFinishOutput
  <2> QED
    BY <1>4, <2>2 DEF Held, Finish, EndOfInput
<1> QED
  BY <1>2, <1>3, <1>4

LEMMA HeldArrived == Traced => Held \subseteq DOMAIN arrivals
  BY DEF Traced, Held, TracedVector

LEMMA NextTraced == Inv /\ Traced /\ [Next]_vars => Traced'
<1> SUFFICES ASSUME Inv, Traced, [Next]_vars PROVE Traced'
  OBVIOUS
<1>1. ASSUME NEW k \in Keys, NEW u \in Keys,
             ForwardToken(Arrival(k, u)) \/ StoreToken(Arrival(k, u))
      PROVE  Traced'
  <2> DEFINE t == Arrival(k, u)
  <2>1. /\ t \in Tokens /\ (args.same_type => t.unique = t.sort)
        /\ t.id = Len(arrivals) + 1
    BY ArrivalTyped DEF Inv, Arrival
  <2>2. /\ phase = "reading" /\ arrivals' = Append(arrivals, t)
        /\ \/ TokensNotStored(args) /\ output' = output
           \/ ~TokensNotStored(args) /\ output' = CheckUniqueThenAppend(t)
    BY <1>1 DEF ForwardToken, StoreToken, Arrive, Reading, TokensNotStored
  <2> HIDE DEF t
  <2>3. /\ output \in Seq(Tokens) /\ arrivals \in Seq(Tokens)
        /\ Numbered(arrivals) /\ TracedVector(output, arrivals)
    BY DEF Inv, TypeOK, Traced
  <2>4. /\ Numbered(Append(arrivals, t))
        /\ TracedVector(output, Append(arrivals, t))
        /\ TracedVector(Append(output, t), Append(arrivals, t))
    BY <2>1, <2>3, ArrivalTraced
  <2>5. ~TokensNotStored(args) => Picks(CheckUniqueThenAppend(t), Append(output, t))
    BY <2>1, <2>2, StoringPicks
  <2>6. ~TokensNotStored(args) =>
          TracedVector(CheckUniqueThenAppend(t), Append(arrivals, t))
    BY <2>4, <2>5, PicksTraced
  <2>7. TokenIds(stream'.out) \subseteq DOMAIN arrivals'
    <3>1. TokenIds(stream'.out) \subseteq TokenIds(stream.out) \cup {Len(arrivals) + 1}
      BY <1>1, ArrivalHeld
    <3>2. DOMAIN Append(arrivals, t) = 1..Len(arrivals) + 1 /\ DOMAIN arrivals = 1..Len(arrivals)
          /\ Len(arrivals) \in Nat
      BY <2>1, <2>3
    <3>3. DOMAIN arrivals \cup {Len(arrivals) + 1} \subseteq DOMAIN arrivals'
      BY <2>2, <3>2
    <3> QED
      BY <3>1, <3>3 DEF Traced
  <2> QED
    BY <2>2, <2>4, <2>6, <2>7 DEF Traced
<1>2. ASSUME Finalise \/ WriteNext \/ Finish \/ EndOfInput PROVE Traced'
  <2>1. arrivals' = arrivals
    BY <1>2 DEF Finalise, WriteNext, Finish, EndOfInput
  <2>2. TokenIds(stream'.out) \subseteq DOMAIN arrivals
    BY <1>2, NothingElseHeld, HeldArrived DEF Held
  <2>3. CASE ~Finalise
    <3>1. output' = output
      BY <1>2, <2>3 DEF WriteNext, Finish, EndOfInput
    <3> QED
      BY <2>1, <2>2, <3>1 DEF Traced
  <2>4. CASE Finalise
    <3>1. PICK truncated \in EndTruncations(args, output) :
            output' = Flipped(args, StartTruncated(args, truncated))
      BY <2>4 DEF Finalise
    <3>2. Picks(output', output)
      BY <3>1, FinaliseKeeps DEF Inv
    <3>3. TracedVector(output', arrivals)
      BY <3>2, PicksTraced DEF Traced
    <3> QED
      BY <2>1, <2>2, <3>3 DEF Traced
  <2> QED
    BY <2>3, <2>4
<1>3. ASSUME WriteFragment \/ CopyBetween PROVE Traced'
  <2>1. stream \in Streams /\ Len(arrivals) + 1 \in Nat
    BY DEF Inv, TypeOK
  <2>2. TokenIds(stream'.out) = TokenIds(stream.out)
    BY <1>3, <2>1, IdsWriteOutputFragment, IdsWriteBetween DEF WriteFragment, CopyBetween
  <2> QED
    BY <1>3, <2>2 DEF Traced, WriteFragment, CopyBetween
<1>4. ASSUME UNCHANGED vars PROVE Traced'
  BY <1>4 DEF Traced, vars
<1> QED
  BY <1>1, <1>2, <1>3, <1>4 DEF Next, Terminated

(* No token comes out that did not arrive, and none is twice in the vector *)
(* of create_tokens, by whatever sort, truncation and flip.                *)
THEOREM NothingInvented == Spec => []Traced
<1>1. Spec => []Inv
  BY Invariance
<1> QED
  BY <1>1, InitTraced, NextTraced, PTL DEF Spec

-------------------------------------------------------------------------------
(* The delimiters between tokens, and the one at the end.                  *)

K == INSTANCE FoldLemmas WITH Op <- WithUndiscarded

UndiscardedOf(items, start) == K!Fold(<<>>, items, start)

LEMMA UndiscardedIs == Undiscarded = UndiscardedOf(stream.out, args.out_start)
  BY DEF Undiscarded, UndiscardedOf, K!Fold, FoldLeft, K!FoldLeft, MapThenFoldSet,
         K!MapThenFoldSet, Max, K!Max

LEMMA UndiscardedThen == (Undiscarded)' = UndiscardedOf(stream'.out, args'.out_start)
  BY DEF Undiscarded, UndiscardedOf, K!Fold, FoldLeft, K!FoldLeft, MapThenFoldSet,
         K!MapThenFoldSet, Max, K!Max

LEMMA UndiscardedNone == ASSUME NEW start PROVE UndiscardedOf(<<>>, start) = <<>>
  BY K!FoldEmpty DEF UndiscardedOf

LEMMA UndiscardedAppend ==
  ASSUME NEW l \in Seq(Items), NEW x \in Items, NEW start
  PROVE  UndiscardedOf(Append(l, x), start) = WithUndiscarded(UndiscardedOf(l, start), x, start)
<1>1. PICK n \in Nat : n = Len(l) /\ DOMAIN l = 1..n
  BY LenProperties
<1>2. PICK t : t = Append(l, x)
  OBVIOUS
<1>3. DOMAIN t = 1..n + 1 /\ t[n + 1] = x /\ \A i \in 1..n : l[i] = t[i]
  BY <1>1, <1>2
<1>4. K!Fold(<<>>, t, start) = WithUndiscarded(K!Fold(<<>>, l, start), t[n + 1], start)
  BY <1>1, <1>3, K!FoldLast
<1> QED
  BY <1>2, <1>3, <1>4 DEF UndiscardedOf

(* DelimitersSeparate, of any items.                                       *)
Separated(u, sed) ==
  /\ \A i \in DOMAIN u :
       u[i].kind = "delimiter" =>
         /\ ~sed
         /\ i > 1 /\ u[i - 1].kind = "token"
         /\ i < Len(u) /\ u[i + 1].kind \in Pieces
         /\ u[i - 1].id # u[i + 1].id
  /\ \A i \in 1..Len(u) - 1 :
       u[i].kind \in Pieces /\ u[i + 1].kind \in Pieces =>
         sed \/ (u[i].kind = "fragment" /\ u[i].id = u[i + 1].id)

HasPiece(u) == \E i \in DOMAIN u : u[i].kind \in Pieces

Unended(u) == \A i \in DOMAIN u : u[i].kind # "batch"

LEMMA ItemAppended ==
  ASSUME NEW u \in Seq(Items), NEW x \in Items
  PROVE  /\ Append(u, x) \in Seq(Items) /\ Append(u, x) # <<>>
         /\ Len(u) \in Nat /\ DOMAIN u = 1..Len(u) /\ (u # <<>> => Len(u) # 0)
         /\ Len(Append(u, x)) = Len(u) + 1 /\ DOMAIN Append(u, x) = 1..Len(u) + 1
         /\ \A i \in 1..Len(u) : Append(u, x)[i] = u[i]
         /\ Append(u, x)[Len(u) + 1] = x
  BY AppendProperties, LenProperties

(* Something other than a delimiter comes after a part of the same token,  *)
(* after what is no part of one, or with --sed.                            *)
LEMMA SeparatedAppend ==
  ASSUME NEW u \in Seq(Items), NEW x \in Items, NEW sed, Separated(u, sed),
         x.kind # "delimiter",
         x.kind \in Pieces => \/ sed
                              \/ u = <<>>
                              \/ u[Len(u)].kind = "fragment" /\ u[Len(u)].id = x.id
  PROVE  Separated(Append(u, x), sed)
<1>1. PICK t : t = Append(u, x)
  OBVIOUS
<1>2. PICK n \in Nat : n = Len(u)
  BY ItemAppended
<1>3. /\ DOMAIN u = 1..n /\ (u # <<>> => n # 0) /\ Len(t) = n + 1 /\ DOMAIN t = 1..n + 1
      /\ \A i \in 1..n : t[i] = u[i]
      /\ t[n + 1] = x
  BY <1>1, <1>2, ItemAppended
<1>4. ASSUME NEW i \in DOMAIN t, t[i].kind = "delimiter"
      PROVE  /\ ~sed
             /\ i > 1 /\ t[i - 1].kind = "token"
             /\ i < Len(t) /\ t[i + 1].kind \in Pieces
             /\ t[i - 1].id # t[i + 1].id
  <2>1. i \in 1..n /\ u[i].kind = "delimiter"
    <3>1. i \in 1..n \/ i = n + 1
      BY <1>3
    <3> QED
      BY <1>3, <1>4, <3>1
  <2>2. /\ ~sed
        /\ i > 1 /\ u[i - 1].kind = "token"
        /\ i < n /\ u[i + 1].kind \in Pieces
        /\ u[i - 1].id # u[i + 1].id
    BY <1>2, <1>3, <2>1 DEF Separated
  <2>3. i - 1 \in 1..n /\ i + 1 \in 1..n
    BY <2>1, <2>2
  <2> QED
    BY <1>3, <2>1, <2>2, <2>3
<1>5. ASSUME NEW i \in 1..Len(t) - 1, t[i].kind \in Pieces, t[i + 1].kind \in Pieces
      PROVE  sed \/ (t[i].kind = "fragment" /\ t[i].id = t[i + 1].id)
  <2>1. i \in 1..n /\ t[i] = u[i]
    BY <1>3
  <2>2. CASE i = n
    <3>1. t[i + 1] = x
      BY <1>3, <2>2
    <3>2. u # <<>>
      BY <1>3, <2>1
    <3> QED
      BY <1>2, <1>5, <2>1, <2>2, <3>1, <3>2
  <2>3. CASE i # n
    <3>1. i \in 1..n - 1 /\ i + 1 \in 1..n
      BY <2>1, <2>3
    <3>2. t[i + 1] = u[i + 1]
      BY <1>3, <3>1
    <3> QED
      BY <1>2, <1>5, <2>1, <3>1, <3>2 DEF Separated
  <2> QED
    BY <2>2, <2>3
<1> QED
  BY <1>1, <1>4, <1>5 DEF Separated

(* A delimiter goes between two tokens.                                    *)
LEMMA SeparatedDelimit ==
  ASSUME NEW u \in Seq(Items), NEW d \in Items, NEW x \in Items, Separated(u, FALSE),
         d.kind = "delimiter", x.kind \in Pieces,
         u # <<>>, u[Len(u)].kind = "token", u[Len(u)].id # x.id
  PROVE  Separated(Append(Append(u, d), x), FALSE)
<1>1. PICK v : v = Append(u, d)
  OBVIOUS
<1>2. PICK t : t = Append(v, x)
  OBVIOUS
<1>3. PICK n \in Nat : n = Len(u)
  BY ItemAppended
<1>4. /\ v \in Seq(Items) /\ DOMAIN u = 1..n /\ n # 0 /\ Len(v) = n + 1
      /\ DOMAIN v = 1..n + 1 /\ v[n + 1] = d
      /\ \A i \in 1..n : v[i] = u[i]
  BY <1>1, <1>3, ItemAppended
<1>5. Len(t) = n + 2 /\ DOMAIN t = 1..n + 2 /\ t[n + 2] = x /\ \A i \in 1..n + 1 : t[i] = v[i]
  <2>1. Len(t) = Len(v) + 1 /\ DOMAIN t = 1..Len(v) + 1 /\ t[Len(v) + 1] = x
        /\ \A i \in 1..Len(v) : t[i] = v[i]
    BY <1>2, <1>4, ItemAppended
  <2>2. Len(v) + 1 = n + 2
    BY <1>4
  <2> QED
    BY <1>4, <2>1, <2>2
<1>6. t[n + 1] = d /\ \A i \in 1..n : t[i] = u[i]
  BY <1>4, <1>5
<1>7. d.kind \notin Pieces /\ x.kind # "delimiter"
  BY DEF Pieces
<1>8. ASSUME NEW i \in DOMAIN t, t[i].kind = "delimiter"
      PROVE  /\ i > 1 /\ t[i - 1].kind = "token"
             /\ i < Len(t) /\ t[i + 1].kind \in Pieces
             /\ t[i - 1].id # t[i + 1].id
  <2>1. i \in 1..n \/ i = n + 1 \/ i = n + 2
    BY <1>5
  <2>2. CASE i \in 1..n
    <3>1. u[i].kind = "delimiter"
      BY <1>6, <1>8, <2>2
    <3>2. /\ i > 1 /\ u[i - 1].kind = "token"
          /\ i < n /\ u[i + 1].kind \in Pieces
          /\ u[i - 1].id # u[i + 1].id
      BY <1>3, <1>4, <2>2, <3>1 DEF Separated
    <3>3. i - 1 \in 1..n /\ i + 1 \in 1..n /\ i < n + 2
      BY <2>2, <3>2
    <3> QED
      BY <1>5, <1>6, <3>2, <3>3
  <2>3. CASE i = n + 1
    <3>1. i > 1 /\ i - 1 = n /\ i + 1 = n + 2 /\ i < n + 2 /\ n \in 1..n
      BY <1>4, <2>3
    <3>2. t[i - 1] = u[n] /\ t[i + 1] = x
      BY <1>5, <1>6, <3>1
    <3> QED
      BY <1>3, <1>5, <3>1, <3>2
  <2>4. CASE i = n + 2
    BY <1>5, <1>7, <1>8, <2>4
  <2> QED
    BY <2>1, <2>2, <2>3, <2>4
<1>9. ASSUME NEW i \in 1..Len(t) - 1, t[i].kind \in Pieces, t[i + 1].kind \in Pieces
      PROVE  t[i].kind = "fragment" /\ t[i].id = t[i + 1].id
  <2>1. i # n + 1 /\ i # n
    <3>1. i = n => t[i + 1] = d
      BY <1>6
    <3>2. i = n + 1 => t[i] = d
      BY <1>6
    <3> QED
      BY <1>7, <1>9, <3>1, <3>2
  <2>2. i \in 1..n - 1 /\ i \in 1..n /\ i + 1 \in 1..n
    BY <1>5, <2>1
  <2>3. t[i] = u[i] /\ t[i + 1] = u[i + 1]
    BY <1>6, <2>2
  <2> QED
    BY <1>3, <1>9, <2>2, <2>3 DEF Separated
<1> QED
  BY <1>1, <1>2, <1>8, <1>9 DEF Separated

(* What the stream knows of the output so far, and what it may not end in. *)
Written(u, s, a) ==
  /\ u \in Seq(Items)
  /\ Separated(u, a.sed)
  /\ Unended(u)
  /\ s.has_written <=> HasPiece(u)
  /\ ~a.sed => /\ s.delimit_required => /\ u # <<>> /\ u[Len(u)].kind = "token"
                                        /\ u[Len(u)].id \in TokenIds(s.out)
               /\ u # <<>> => HasPiece(u)

(* A part of token n may follow.                                           *)
MayFollow(n, u, s, a) ==
  ~a.sed => IF s.delimit_required THEN u[Len(u)].id # n
            ELSE u = <<>> \/ (u[Len(u)].kind = "fragment" /\ u[Len(u)].id = n)

Delimited(u, s, a) ==
  IF s.delimit_required /\ ~a.sed THEN Append(u, Item("delimiter", 0)) ELSE u

LEMMA ItemsOfKinds ==
  /\ \A n \in Nat : Item("token", n) \in Items /\ Item("fragment", n) \in Items
  /\ Item("delimiter", 0) \in Items /\ Item("between", 0) \in Items /\ Item("batch", 0) \in Items
  BY DEF Item, Items, ItemKinds

LEMMA UnendedAppend ==
  ASSUME NEW u \in Seq(Items), NEW x \in Items, x.kind # "batch", Unended(u)
  PROVE  Unended(Append(u, x))
<1>1. PICK t : t = Append(u, x)
  OBVIOUS
<1>2. PICK n : n = Len(u)
  OBVIOUS
<1>3. \A i \in DOMAIN t : t[i] = x \/ (i \in DOMAIN u /\ t[i] = u[i])
  <2>1. /\ n \in Nat /\ DOMAIN t = 1..n + 1 /\ DOMAIN u = 1..n /\ t[n + 1] = x
        /\ \A i \in 1..n : t[i] = u[i]
    BY <1>1, <1>2, ItemAppended
  <2>2. \A i \in 1..n + 1 : i \in 1..n \/ i = n + 1
    BY <2>1
  <2> QED
    BY <2>1, <2>2
<1> QED
  BY <1>1, <1>3 DEF Unended

LEMMA HasPieceAppend ==
  ASSUME NEW u \in Seq(Items), NEW x \in Items
  PROVE  HasPiece(Append(u, x)) <=> HasPiece(u) \/ x.kind \in Pieces
<1>1. PICK t : t = Append(u, x)
  OBVIOUS
<1>2. PICK n : n = Len(u)
  OBVIOUS
<1>3. /\ n \in Nat /\ DOMAIN t = 1..n + 1 /\ DOMAIN u = 1..n /\ t[n + 1] = x
      /\ \A i \in 1..n : t[i] = u[i]
  BY <1>1, <1>2, ItemAppended
<1>4. \A i \in 1..n + 1 : i \in 1..n \/ i = n + 1
  BY <1>3
<1>5. n + 1 \in 1..n + 1 /\ \A i \in 1..n : i \in 1..n + 1
  BY <1>3
<1>6. (\E i \in DOMAIN t : t[i].kind \in Pieces)
        <=> (\E i \in DOMAIN u : u[i].kind \in Pieces) \/ x.kind \in Pieces
  BY <1>3, <1>4, <1>5
<1> QED
  BY <1>1, <1>6 DEF HasPiece

EndsWith(t, x, sed) ==
  /\ t \in Seq(Items) /\ Separated(t, sed) /\ Unended(t) /\ HasPiece(t)
  /\ t # <<>> /\ t[Len(t)] = x

LEMMA PieceWritten ==
  ASSUME NEW u, NEW s, NEW a, Written(u, s, a), NEW x \in Items, x.kind \in Pieces,
         MayFollow(x.id, u, s, a)
  PROVE  EndsWith(Append(Delimited(u, s, a), x), x, a.sed)
<1>0. PICK t : t = Append(Delimited(u, s, a), x)
  OBVIOUS
<1>1. PICK d : d = Item("delimiter", 0)
  OBVIOUS
<1>2. d \in Items /\ d.kind = "delimiter"
  BY <1>1, ItemsOfKinds DEF Item
<1>3. x.kind # "delimiter" /\ x.kind # "batch"
  BY DEF Pieces
<1>4. u \in Seq(Items) /\ Separated(u, a.sed) /\ Unended(u)
  BY DEF Written
<1>5. PICK v : v = Delimited(u, s, a)
  OBVIOUS
<1>6. v \in Seq(Items) /\ Unended(v)
  <2>1. v = u \/ v = Append(u, d)
    BY <1>1, <1>5 DEF Delimited
  <2>2. Append(u, d) \in Seq(Items) /\ Unended(Append(u, d))
    BY <1>2, <1>4, ItemAppended, UnendedAppend
  <2> QED
    BY <1>4, <2>1, <2>2
<1>7. t = Append(v, x)
  BY <1>0, <1>5
<1>8. t \in Seq(Items) /\ Unended(t) /\ HasPiece(t)
  BY <1>3, <1>6, <1>7, ItemAppended, UnendedAppend, HasPieceAppend
<1>9. t # <<>> /\ t[Len(t)] = x
  BY <1>6, <1>7, ItemAppended
<1>10. Separated(t, a.sed)
  <2>1. CASE s.delimit_required /\ ~a.sed
    <3>1. t = Append(Append(u, d), x)
      BY <1>0, <1>1, <2>1 DEF Delimited
    <3>2. u # <<>> /\ u[Len(u)].kind = "token" /\ u[Len(u)].id # x.id
      BY <2>1 DEF Written, MayFollow
    <3>3. Separated(u, FALSE)
      BY <1>4, <2>1 DEF Separated
    <3>4. Separated(Append(Append(u, d), x), FALSE)
      BY <1>2, <1>4, <3>2, <3>3, SeparatedDelimit
    <3>5. Separated(t, FALSE)
      BY ONLY <3>1, <3>4
    <3>6. PICK sed : sed = a.sed
      OBVIOUS
    <3>7. ~sed
      BY <2>1, <3>6
    <3>8. Separated(t, sed)
      BY ONLY <3>5, <3>7 DEF Separated
    <3> QED
      BY <3>6, <3>8
  <2>2. CASE ~(s.delimit_required /\ ~a.sed)
    <3>1. t = Append(u, x)
      BY <1>0, <2>2 DEF Delimited
    <3>2. \/ a.sed
          \/ u = <<>>
          \/ u[Len(u)].kind = "fragment" /\ u[Len(u)].id = x.id
      BY <2>2 DEF MayFollow
    <3> QED
      BY <1>3, <1>4, <3>1, <3>2, SeparatedAppend
  <2> QED
    BY <2>1, <2>2
<1> QED
  BY <1>0, <1>8, <1>9, <1>10 DEF EndsWith

LEMMA UndiscardedDelimiter ==
  ASSUME NEW s \in Streams, NEW a
  PROVE  UndiscardedOf(WithDelimiter(s, a), a.out_start)
           = Delimited(UndiscardedOf(s.out, a.out_start), s, a)
<1>1. s.out \in Seq(Items)
  BY 0 \in Nat, ItemsWritten
<1>2. PICK d : d = Item("delimiter", 0)
  OBVIOUS
<1>3. d \in Items /\ d.kind # "fragment"
  BY <1>2, ItemsOfKinds DEF Item
<1>4. UndiscardedOf(Append(s.out, d), a.out_start) = Append(UndiscardedOf(s.out, a.out_start), d)
  BY <1>1, <1>3, UndiscardedAppend DEF WithUndiscarded
<1> QED
  BY <1>2, <1>4 DEF WithDelimiter, Delimited

LEMMA UndiscardedToken ==
  ASSUME NEW s \in Streams, NEW a, NEW n \in Nat
  PROVE  UndiscardedOf(WriteOutputNoTruncate(s, a, n).out, a.out_start)
           = Append(Delimited(UndiscardedOf(s.out, a.out_start), s, a), Item("token", n))
<1>1. PICK w : w = WithDelimiter(s, a)
  OBVIOUS
<1>2. PICK x : x = Item("token", n)
  OBVIOUS
<1>3. w \in Seq(Items) /\ x \in Items /\ x.kind # "fragment"
  BY <1>1, <1>2, IdsWithDelimiter, ItemsOfKinds DEF Item
<1>4. UndiscardedOf(Append(w, x), a.out_start) = Append(UndiscardedOf(w, a.out_start), x)
  BY <1>3, UndiscardedAppend DEF WithUndiscarded
<1>5. WriteOutputNoTruncate(s, a, n).out = Append(w, x)
  BY <1>1, <1>2, ItemsWritten
<1>6. UndiscardedOf(w, a.out_start) = Delimited(UndiscardedOf(s.out, a.out_start), s, a)
  BY <1>1, UndiscardedDelimiter
<1> QED
  BY <1>2, <1>4, <1>5, <1>6

LEMMA UndiscardedFragment ==
  ASSUME NEW s \in Streams, NEW a, NEW n \in Nat, BeginDiscard(s, a) <=> n <= a.out_start
  PROVE  UndiscardedOf(WriteOutputFragment(s, a, n).out, a.out_start)
           = IF BeginDiscard(s, a) THEN UndiscardedOf(s.out, a.out_start)
             ELSE Append(Delimited(UndiscardedOf(s.out, a.out_start), s, a), Item("fragment", n))
<1>1. PICK w : w = WithDelimiter(s, a)
  OBVIOUS
<1>2. PICK x : x = Item("fragment", n)
  OBVIOUS
<1>3. w \in Seq(Items) /\ x \in Items /\ x.kind = "fragment" /\ x.id = n /\ s.out \in Seq(Items)
  BY <1>1, <1>2, IdsWithDelimiter, ItemsOfKinds, ItemsWritten DEF Item
<1>4. CASE BeginDiscard(s, a)
  <2>1. WriteOutputFragment(s, a, n).out = Append(s.out, x)
    BY <1>2, <1>4, ItemsWritten
  <2>2. UndiscardedOf(Append(s.out, x), a.out_start) = UndiscardedOf(s.out, a.out_start)
    BY <1>3, <1>4, UndiscardedAppend DEF WithUndiscarded
  <2> QED
    BY <1>4, <2>1, <2>2
<1>5. CASE ~BeginDiscard(s, a)
  <2>1. WriteOutputFragment(s, a, n).out = Append(w, x)
    BY <1>1, <1>2, <1>5, ItemsWritten
  <2>2. UndiscardedOf(Append(w, x), a.out_start) = Append(UndiscardedOf(w, a.out_start), x)
    BY <1>3, <1>5, UndiscardedAppend DEF WithUndiscarded
  <2>3. UndiscardedOf(w, a.out_start) = Delimited(UndiscardedOf(s.out, a.out_start), s, a)
    BY <1>1, UndiscardedDelimiter
  <2> QED
    BY <1>2, <1>5, <2>1, <2>2, <2>3
<1> QED
  BY <1>4, <1>5

LEMMA UndiscardedOther ==
  ASSUME NEW s \in Streams, NEW a, NEW k \in {"between", "batch"}
  PROVE  UndiscardedOf(Append(s.out, Item(k, 0)), a.out_start)
           = Append(UndiscardedOf(s.out, a.out_start), Item(k, 0))
<1>1. PICK x : x = Item(k, 0)
  OBVIOUS
<1>2. x \in Items /\ x.kind # "fragment" /\ s.out \in Seq(Items)
  BY <1>1, ItemsOfKinds, 0 \in Nat, ItemsWritten DEF Item
<1>3. UndiscardedOf(Append(s.out, x), a.out_start) = Append(UndiscardedOf(s.out, a.out_start), x)
  BY <1>2, UndiscardedAppend DEF WithUndiscarded
<1> QED
  BY <1>1, <1>3

LEMMA TokenWritten ==
  ASSUME NEW s \in Streams, NEW a, NEW n \in Nat,
         NEW u, u = UndiscardedOf(s.out, a.out_start), Written(u, s, a), MayFollow(n, u, s, a),
         NEW w, w = WriteOutputNoTruncate(s, a, n),
         NEW t, t = UndiscardedOf(w.out, a.out_start)
  PROVE  /\ Written(t, w, a) /\ t # <<>> /\ t[Len(t)] = Item("token", n)
         /\ w.out_count = s.out_count + 1 /\ w.delimit_required /\ w \in Streams
<1>1. PICK x : x = Item("token", n)
  OBVIOUS
<1>2. x \in Items /\ x.kind = "token" /\ x.id = n /\ x.kind \in Pieces
  BY <1>1, ItemsOfKinds DEF Item, Pieces
<1>3. t = Append(Delimited(u, s, a), x)
  BY <1>1, UndiscardedToken
<1>4. /\ t \in Seq(Items) /\ Separated(t, a.sed) /\ Unended(t) /\ HasPiece(t)
      /\ t # <<>> /\ t[Len(t)] = x
  <2>1. EndsWith(Append(Delimited(u, s, a), x), x, a.sed)
    BY <1>2, PieceWritten
  <2> QED
    BY ONLY <1>3, <2>1 DEF EndsWith
<1>5. n \in TokenIds(w.out)
  BY IdsWriteOutputNoTruncate
<1>6. w.has_written = TRUE /\ w.delimit_required = TRUE /\ w.out_count = s.out_count + 1
  BY DEF WriteOutputNoTruncate
<1>7. Written(t, w, a)
  BY <1>2, <1>4, <1>5, <1>6 DEF Written
<1> QED
  BY <1>1, <1>4, <1>6, <1>7, StreamTyped

LEMMA FragmentWritten ==
  ASSUME NEW s \in Streams, NEW a, NEW n \in Nat, BeginDiscard(s, a) <=> n <= a.out_start,
         NEW u, u = UndiscardedOf(s.out, a.out_start), Written(u, s, a), MayFollow(n, u, s, a),
         NEW w, w = WriteOutputFragment(s, a, n),
         NEW t, t = UndiscardedOf(w.out, a.out_start)
  PROVE  /\ Written(t, w, a) /\ w.out_count = s.out_count
         /\ BeginDiscard(s, a) => t = u /\ w.delimit_required = s.delimit_required
         /\ ~BeginDiscard(s, a) => /\ t # <<>> /\ t[Len(t)] = Item("fragment", n)
                                   /\ ~w.delimit_required
<1>1. PICK x : x = Item("fragment", n)
  OBVIOUS
<1>2. x \in Items /\ x.kind = "fragment" /\ x.id = n /\ x.kind \in Pieces
  BY <1>1, ItemsOfKinds DEF Item, Pieces
<1>3. t = IF BeginDiscard(s, a) THEN u ELSE Append(Delimited(u, s, a), x)
  BY <1>1, UndiscardedFragment
<1>4. TokenIds(w.out) = TokenIds(s.out)
  BY IdsWriteOutputFragment
<1>5. s = [out |-> s.out, out_count |-> s.out_count, has_written |-> s.has_written,
           delimit_required |-> s.delimit_required]
  BY DEF Streams
<1>6. CASE BeginDiscard(s, a)
  <2>1. w = [s EXCEPT !.out = @ \o <<Item("fragment", n)>>]
    BY <1>6 DEF WriteOutputFragment
  <2>2. /\ w.out_count = s.out_count /\ w.has_written = s.has_written
        /\ w.delimit_required = s.delimit_required
    BY <1>5, <2>1
  <2>3. Written(t, w, a)
    BY <1>3, <1>4, <1>6, <2>2 DEF Written
  <2> QED
    BY <1>3, <1>6, <2>2, <2>3
<1>7. CASE ~BeginDiscard(s, a)
  <2>1. w = [s EXCEPT !.out = @ \o Separator(s, a) \o <<Item("fragment", n)>>,
                      !.delimit_required = FALSE, !.has_written = TRUE]
    BY <1>7 DEF WriteOutputFragment
  <2>2. w.out_count = s.out_count /\ w.has_written = TRUE /\ w.delimit_required = FALSE
    BY <1>5, <2>1
  <2>3. /\ t \in Seq(Items) /\ Separated(t, a.sed) /\ Unended(t) /\ HasPiece(t)
        /\ t # <<>> /\ t[Len(t)] = x
    <3>1. EndsWith(Append(Delimited(u, s, a), x), x, a.sed)
      BY <1>2, PieceWritten
    <3>2. t = Append(Delimited(u, s, a), x)
      BY <1>3, <1>7
    <3> QED
      BY ONLY <3>1, <3>2 DEF EndsWith
  <2>4. Written(t, w, a)
    BY <2>2, <2>3 DEF Written
  <2> QED
    BY <1>1, <1>7, <2>2, <2>3, <2>4
<1> QED
  BY <1>6, <1>7

LEMMA BetweenWritten ==
  ASSUME NEW s \in Streams, NEW a, a.sed,
         NEW u, u = UndiscardedOf(s.out, a.out_start), Written(u, s, a),
         NEW w, w = WriteBetween(s),
         NEW t, t = UndiscardedOf(w.out, a.out_start)
  PROVE  Written(t, w, a) /\ w.out_count = s.out_count
<1>1. PICK x : x = Item("between", 0)
  OBVIOUS
<1>2. /\ x \in Items /\ x.kind = "between" /\ x.kind \notin Pieces
  BY <1>1, ItemsOfKinds DEF Item, Pieces
<1>3. w.out = Append(s.out, x)
  BY <1>1, 0 \in Nat, ItemsWritten
<1>4. t = Append(u, x)
  BY <1>1, <1>3, UndiscardedOther
<1>5. u \in Seq(Items) /\ Separated(u, a.sed) /\ Unended(u)
  BY DEF Written
<1>6. t \in Seq(Items) /\ Unended(t)
  BY <1>2, <1>4, <1>5, ItemAppended, UnendedAppend
<1>7. HasPiece(t) <=> HasPiece(u)
  BY <1>2, <1>4, <1>5, HasPieceAppend
<1>8. Separated(t, a.sed)
  BY <1>2, <1>4, <1>5, SeparatedAppend
<1>9. w.out_count = s.out_count /\ w.has_written = s.has_written
  BY DEF WriteBetween, Streams
<1> QED
  BY <1>6, <1>7, <1>8, <1>9 DEF Written

(* BatchAtEnd, of an output that is complete.                              *)
EndsAsAsked(u, a) ==
  /\ \A i \in DOMAIN u : u[i].kind = "batch" => i = Len(u)
  /\ (u # <<>> /\ Last(u).kind = "batch")
       <=> /\ ~a.delimit_not_at_end /\ ~a.sed
           /\ HasPiece(u) \/ a.delimit_on_empty

LEMMA FinishWritten ==
  ASSUME NEW s \in Streams, NEW a,
         NEW u, u = UndiscardedOf(s.out, a.out_start), Written(u, s, a),
         NEW t, t = UndiscardedOf(FinishOutput(s, a).out, a.out_start)
  PROVE  Separated(t, a.sed) /\ EndsAsAsked(t, a)
<1>1. PICK x : x = Item("batch", 0)
  OBVIOUS
<1>2. x \in Items /\ x.kind = "batch" /\ x.kind \notin Pieces
  BY <1>1, ItemsOfKinds DEF Item, Pieces
<1>3. FinishOutput(s, a).out = IF BatchRequired(s, a) THEN Append(s.out, x) ELSE s.out
  BY <1>1, 0 \in Nat, ItemsWritten
<1>4. t = IF BatchRequired(s, a) THEN Append(u, x) ELSE u
  BY <1>1, <1>3, UndiscardedOther
<1>5. /\ u \in Seq(Items) /\ Separated(u, a.sed) /\ Unended(u)
      /\ (s.has_written <=> HasPiece(u))
  BY DEF Written
<1>6. BatchRequired(s, a) <=> /\ ~a.delimit_not_at_end /\ ~a.sed
                              /\ HasPiece(u) \/ a.delimit_on_empty
  BY <1>5 DEF BatchRequired
<1>7. CASE BatchRequired(s, a)
  <2>1. t = Append(u, x)
    BY <1>4, <1>7
  <2>2. Separated(t, a.sed)
    BY <1>2, <1>5, <2>1, SeparatedAppend
  <2>3. /\ t # <<>> /\ Len(u) \in Nat /\ Len(t) = Len(u) + 1 /\ DOMAIN t = 1..Len(u) + 1
        /\ DOMAIN u = 1..Len(u) /\ t[Len(u) + 1] = x /\ \A i \in 1..Len(u) : t[i] = u[i]
    BY <1>2, <1>5, <2>1, ItemAppended
  <2>4. Last(t) = x
    BY <2>3 DEF Last
  <2>5. \A i \in DOMAIN t : t[i].kind = "batch" => i = Len(t)
    <3>1. \A i \in DOMAIN t : i \in DOMAIN u \/ i = Len(t)
      BY <2>3
    <3> QED
      BY <1>5, <2>3, <3>1 DEF Unended
  <2>6. HasPiece(t) <=> HasPiece(u)
    BY <1>2, <1>5, <2>1, HasPieceAppend
  <2> QED
    BY <1>2, <1>6, <1>7, <2>2, <2>3, <2>4, <2>5, <2>6 DEF EndsAsAsked
<1>8. CASE ~BatchRequired(s, a)
  <2>1. t = u
    BY <1>4, <1>8
  <2>2. u # <<>> => Last(u).kind # "batch"
    <3>1. u # <<>> => Len(u) \in DOMAIN u
      BY <1>5
    <3> QED
      BY <1>5, <3>1 DEF Unended, Last
  <2> QED
    BY <1>5, <1>6, <1>8, <2>1, <2>2 DEF EndsAsAsked, Unended
<1> QED
  BY <1>7, <1>8

(* What the output is made of when it comes to the phase it is in.         *)
LeftOpen ==
  ~args.sed /\ ~stream.delimit_required /\ Undiscarded # <<>> =>
    /\ TokensNotStored(args)
    /\ Undiscarded[Len(Undiscarded)].kind = "fragment"
    /\ Undiscarded[Len(Undiscarded)].id = Len(arrivals) + 1

ReadingWrites ==
  IF IsDirectOutput(args)
  THEN /\ LeftOpen
       /\ ~args.sed /\ BeginDiscard(stream, args) => Undiscarded = <<>>
       /\ TokensNotStored(args) => stream.out_count = Len(arrivals)
  ELSE stream = NewStream /\ next = 1

WritesOne ==
  IF IsDirectOutput(args) \/ args.tui
  THEN (args.tui \/ output = <<>>) /\ stream = NewStream
  ELSE /\ ~args.sed
       /\ TokenIds(stream.out) \subseteq {output[j].id : j \in 1..next - 1}
       /\ ~stream.delimit_required => Undiscarded = <<>>

OutputInv ==
  /\ Consistent(options)
  /\ phase # "done" => Written(Undiscarded, stream, args)
  /\ phase = "reading" => ReadingWrites
  /\ phase = "finalising" => ~IsDirectOutput(args) /\ stream = NewStream /\ next = 1
  /\ phase = "writing" => WritesOne
  /\ phase = "done" =>
       /\ Separated(Undiscarded, args.sed)
       /\ IF args.tui THEN Undiscarded = <<>> ELSE EndsAsAsked(Undiscarded, args)

LEMMA NewStreamWritten ==
  ASSUME NEW a, NEW u, u = UndiscardedOf(NewStream.out, a.out_start)
  PROVE  Written(u, NewStream, a) /\ u = <<>>
<1>1. u = <<>>
  BY UndiscardedNone DEF NewStream
<1>2. u \in Seq(Items) /\ DOMAIN u = {} /\ Len(u) = 0
  BY <1>1
<1> QED
  BY <1>1, <1>2 DEF Written, NewStream, Separated, Unended, HasPiece

LEMMA SedIsDirect == TypeOK /\ Consistent(options) /\ args.sed => IsDirectOutput(args)
  BY DEF TypeOK, OptionType, Compile, Consistent, Turned, IsDirectOutput, NoLimit

LEMMA InitOutput == Init => OutputInv
<1> SUFFICES ASSUME Init PROVE OutputInv
  OBVIOUS
<1>1. /\ Consistent(options) /\ stream = NewStream /\ next = 1 /\ output = <<>>
      /\ arrivals = <<>>
      /\ phase = IF args.out_end = 0 THEN "writing" ELSE "reading"
  BY OptionsAssumption DEF Init
<1>2. Undiscarded = UndiscardedOf(NewStream.out, args.out_start)
  BY <1>1, UndiscardedIs
<1>3. Written(Undiscarded, stream, args) /\ Undiscarded = <<>>
  BY <1>1, <1>2, NewStreamWritten
<1>4. args.sed => IsDirectOutput(args)
  BY <1>1, InitInv, SedIsDirect DEF Inv
<1>5. TokenIds(NewStream.out) = {} /\ NewStream.out_count = 0
  BY DEF NewStream, TokenIds
<1>6. ReadingWrites
  BY <1>1, <1>3, <1>5 DEF ReadingWrites, LeftOpen
<1>7. WritesOne
  BY <1>1, <1>3, <1>4, <1>5 DEF WritesOne
<1> QED
  BY <1>1, <1>3, <1>6, <1>7 DEF OutputInv

(* The tokens ahead of the start of --out are as many as are discarded.    *)
LEMMA DiscardByNumber ==
  ASSUME Inv, OutputInv, phase = "reading", TokensNotStored(args)
  PROVE  BeginDiscard(stream, args) <=> Len(arrivals) + 1 <= args.out_start
<1>1. stream.out_count = Len(arrivals) /\ Len(arrivals) \in Nat
  BY DEF Inv, TypeOK, OutputInv, ReadingWrites, TokensNotStored
<1>2. args.out_start \in Nat \cup {-1}
  BY ArgsTyped DEF Inv, ArgsType, Limits, NoLimit
<1> QED
  BY <1>1, <1>2 DEF BeginDiscard, NoLimit

(* The token that is about to come may be written.                         *)
LEMMA ArrivalMayFollow ==
  ASSUME Inv, Traced, OutputInv, phase = "reading", IsDirectOutput(args)
  PROVE  MayFollow(Len(arrivals) + 1, Undiscarded, stream, args)
<1>1. Len(arrivals) \in Nat /\ DOMAIN arrivals = 1..Len(arrivals)
  BY DEF Inv, TypeOK
<1>2. Written(Undiscarded, stream, args) /\ LeftOpen
  BY DEF OutputInv, ReadingWrites
<1>3. ~args.sed /\ stream.delimit_required =>
        Undiscarded[Len(Undiscarded)].id \in TokenIds(stream.out)
  BY <1>2 DEF Written
<1>4. Len(arrivals) + 1 \notin TokenIds(stream.out)
  BY <1>1 DEF Traced
<1> QED
  BY <1>2, <1>3, <1>4 DEF MayFollow, LeftOpen

LEMMA WriteFragmentOutput == Inv /\ Traced /\ OutputInv /\ WriteFragment => OutputInv'
<1> SUFFICES ASSUME Inv, Traced, OutputInv, WriteFragment PROVE OutputInv'
  OBVIOUS
<1>1. /\ phase = "reading" /\ TokensNotStored(args) /\ IsDirectOutput(args) /\ ~args.sed
      /\ args' = args /\ arrivals' = arrivals /\ phase' = phase /\ options' = options
      /\ stream' = WriteOutputFragment(stream, args, Len(arrivals) + 1)
  BY DEF WriteFragment, Reading, TokensNotStored
<1>2. PICK n : n = Len(arrivals) + 1
  OBVIOUS
<1>3. n \in Nat /\ stream \in Streams
  BY <1>2 DEF Inv, TypeOK
<1>4. BeginDiscard(stream, args) <=> n <= args.out_start
  BY <1>1, <1>2, DiscardByNumber
<1>5. MayFollow(n, Undiscarded, stream, args)
  BY <1>1, <1>2, ArrivalMayFollow
<1>6. Written(Undiscarded, stream, args)
  BY <1>1 DEF OutputInv
<1>7. (Undiscarded)' = UndiscardedOf(stream'.out, args.out_start)
  BY <1>1, UndiscardedThen
<1>8. PICK w : w = stream'
  OBVIOUS
<1>9. PICK t : t = (Undiscarded)'
  OBVIOUS
<1>10. /\ Written(t, w, args) /\ w.out_count = stream.out_count
       /\ BeginDiscard(stream, args) => t = Undiscarded /\ w.delimit_required = stream.delimit_required
       /\ ~BeginDiscard(stream, args) => /\ t # <<>> /\ t[Len(t)] = Item("fragment", n)
                                         /\ ~w.delimit_required
  <2>1. PICK u : u = Undiscarded
    OBVIOUS
  <2>2. u = UndiscardedOf(stream.out, args.out_start) /\ Written(u, stream, args)
        /\ MayFollow(n, u, stream, args)
    BY <1>5, <1>6, <2>1, UndiscardedIs
  <2>3. w = WriteOutputFragment(stream, args, n) /\ t = UndiscardedOf(w.out, args.out_start)
    BY <1>1, <1>2, <1>7, <1>8, <1>9
  <2> QED
    BY ONLY <1>3, <1>4, <2>1, <2>2, <2>3, FragmentWritten
<1>11. BeginDiscard(w, args) <=> BeginDiscard(stream, args)
  BY <1>10 DEF BeginDiscard
<1>12. ReadingWrites /\ LeftOpen
  BY <1>1 DEF OutputInv, ReadingWrites
<1>13. (LeftOpen)'
  <2>1. CASE BeginDiscard(stream, args)
    BY <1>1, <1>8, <1>9, <1>10, <1>12, <2>1 DEF LeftOpen
  <2>2. CASE ~BeginDiscard(stream, args)
    <3>1. t[Len(t)].kind = "fragment" /\ t[Len(t)].id = n
      BY <1>10, <2>2 DEF Item
    <3> QED
      BY <1>1, <1>2, <1>9, <3>1 DEF LeftOpen
  <2> QED
    BY <2>1, <2>2
<1>14. BeginDiscard(stream', args') => (Undiscarded)' = <<>>
  BY <1>1, <1>8, <1>9, <1>10, <1>11, <1>12 DEF ReadingWrites
<1>15. stream'.out_count = Len(arrivals')
  BY <1>1, <1>8, <1>10, <1>12 DEF ReadingWrites
<1>16. (ReadingWrites)'
  BY <1>1, <1>13, <1>14, <1>15 DEF ReadingWrites
<1>17. (Written(Undiscarded, stream, args))'
  <2>1. Written(t, w, args)
    BY <1>10
  <2>2. args' = args
    BY <1>1
  <2> QED
    BY <1>8, <1>9, <2>1, <2>2
<1> QED
  BY <1>1, <1>16, <1>17 DEF OutputInv

LEMMA CopyBetweenOutput == Inv /\ Traced /\ OutputInv /\ CopyBetween => OutputInv'
<1> SUFFICES ASSUME Inv, Traced, OutputInv, CopyBetween PROVE OutputInv'
  OBVIOUS
<1>1. /\ phase = "reading" /\ args.sed
      /\ args' = args /\ arrivals' = arrivals /\ phase' = phase /\ options' = options
      /\ stream' = WriteBetween(stream)
  BY DEF CopyBetween, Reading
<1>2. IsDirectOutput(args) /\ stream \in Streams
  BY <1>1, SedIsDirect DEF OutputInv, Inv, TypeOK
<1>3. Written(Undiscarded, stream, args)
  BY <1>1 DEF OutputInv
<1>4. (Undiscarded)' = UndiscardedOf(stream'.out, args.out_start)
  BY <1>1, UndiscardedThen
<1>5. PICK w : w = stream'
  OBVIOUS
<1>6. PICK t : t = (Undiscarded)'
  OBVIOUS
<1>7. Written(t, w, args) /\ w.out_count = stream.out_count
  <2>1. PICK u : u = Undiscarded
    OBVIOUS
  <2>2. u = UndiscardedOf(stream.out, args.out_start) /\ Written(u, stream, args)
    BY <1>3, <2>1, UndiscardedIs
  <2>3. w = WriteBetween(stream) /\ t = UndiscardedOf(w.out, args.out_start)
    BY <1>1, <1>4, <1>5, <1>6
  <2> QED
    BY ONLY <1>1, <1>2, <2>2, <2>3, BetweenWritten
<1>8. (ReadingWrites)'
  <2>1. IsDirectOutput(args') /\ (LeftOpen)'
    BY <1>1, <1>2 DEF LeftOpen
  <2>2. TokensNotStored(args') => stream'.out_count = Len(arrivals')
    BY <1>1, <1>2, <1>5, <1>7 DEF OutputInv, ReadingWrites
  <2> QED
    BY <1>1, <2>1, <2>2 DEF ReadingWrites
<1>9. (Written(Undiscarded, stream, args))'
  <2>1. Written(t, w, args) /\ args' = args
    BY <1>1, <1>7
  <2> QED
    BY <1>5, <1>6, <2>1
<1> QED
  BY <1>1, <1>8, <1>9 DEF OutputInv

(* What comes of the output when it is finished in whatever phase.         *)
LEMMA FinishedOutput ==
  ASSUME NEW s \in Streams, Written(UndiscardedOf(s.out, args.out_start), s, args),
         args' = args, options' = options, Consistent(options), ~args.tui,
         stream' = FinishOutput(s, args), phase' = "done"
  PROVE  OutputInv'
<1>1. PICK t : t = (Undiscarded)'
  OBVIOUS
<1>2. t = UndiscardedOf(FinishOutput(s, args).out, args.out_start)
  BY <1>1, UndiscardedThen
<1>3. PICK u : u = UndiscardedOf(s.out, args.out_start)
  OBVIOUS
<1>4. Separated(t, args.sed) /\ EndsAsAsked(t, args)
  BY <1>2, <1>3, FinishWritten
<1>5. (Separated(Undiscarded, args.sed))' /\ (EndsAsAsked(Undiscarded, args))'
  BY <1>1, <1>4
<1> QED
  BY <1>5 DEF OutputInv

LEMMA EndOfInputOutput == Inv /\ OutputInv /\ EndOfInput => OutputInv'
<1> SUFFICES ASSUME Inv, OutputInv, EndOfInput PROVE OutputInv'
  OBVIOUS
<1>1. /\ phase = "reading" /\ args' = args /\ options' = options
      /\ stream \in Streams /\ Consistent(options)
      /\ Written(Undiscarded, stream, args) /\ ReadingWrites
  BY DEF EndOfInput, Inv, TypeOK, OutputInv
<1>2. CASE IsDirectOutput(args)
  <2>1. stream' = FinishOutput(stream, args) /\ phase' = "done" /\ ~args.tui
    BY <1>2 DEF EndOfInput, IsDirectOutput
  <2>2. Written(UndiscardedOf(stream.out, args.out_start), stream, args)
    BY <1>1, UndiscardedIs
  <2> QED
    BY <1>1, <2>1, <2>2, FinishedOutput
<1>3. CASE ~IsDirectOutput(args)
  <2>1. stream' = stream /\ phase' = "finalising" /\ stream = NewStream /\ next' = next /\ next = 1
    BY <1>1, <1>3 DEF EndOfInput, ReadingWrites
  <2>2. (Undiscarded)' = Undiscarded
    BY <1>1, <2>1, UndiscardedThen, UndiscardedIs
  <2>3. (Written(Undiscarded, stream, args))'
    BY <1>1, <2>1, <2>2
  <2> QED
    BY <1>1, <1>3, <2>1, <2>3 DEF OutputInv, IsDirectOutput
<1> QED
  BY <1>2, <1>3

LEMMA FinaliseOutput == Inv /\ OutputInv /\ Finalise => OutputInv'
<1> SUFFICES ASSUME Inv, OutputInv, Finalise PROVE OutputInv'
  OBVIOUS
<1>1. /\ phase = "finalising" /\ phase' = "writing" /\ args' = args /\ options' = options
      /\ stream' = stream /\ next' = next
      /\ ~IsDirectOutput(args) /\ stream = NewStream
      /\ Written(Undiscarded, stream, args) /\ Consistent(options)
  BY DEF Finalise, OutputInv
<1>2. (Undiscarded)' = Undiscarded
  BY <1>1, UndiscardedThen, UndiscardedIs
<1>3. (Written(Undiscarded, stream, args))'
  BY <1>1, <1>2
<1>4. ~args.sed
  BY <1>1, SedIsDirect DEF Inv
<1>5. TokenIds(stream.out) = {} /\ Undiscarded = <<>>
  BY <1>1, UndiscardedIs, UndiscardedNone DEF NewStream, TokenIds
<1>6. ~IsDirectOutput(args')
  BY <1>1
<1>7. (WritesOne)'
  BY <1>1, <1>2, <1>4, <1>5, <1>6 DEF WritesOne
<1> QED
  BY <1>1, <1>3, <1>7 DEF OutputInv

LEMMA WriteNextOutput == Inv /\ Traced /\ OutputInv /\ WriteNext => OutputInv'
<1> SUFFICES ASSUME Inv, Traced, OutputInv, WriteNext PROVE OutputInv'
  OBVIOUS
<1>1. /\ phase = "writing" /\ phase' = phase /\ args' = args /\ options' = options
      /\ output' = output /\ next' = next + 1 /\ ~args.tui /\ next <= Len(output)
      /\ stream' = WriteOutputNoTruncate(stream, args, output[next].id)
  BY DEF WriteNext
<1>2. /\ output \in Seq(Tokens) /\ next \in Nat \ {0} /\ stream \in Streams
      /\ Written(Undiscarded, stream, args) /\ WritesOne /\ Consistent(options)
  BY <1>1 DEF Inv, TypeOK, OutputInv
<1>3. next \in DOMAIN output /\ DOMAIN output = 1..Len(output) /\ Len(output) \in Nat
  BY <1>1, <1>2
<1>4. PICK n : n = output[next].id
  OBVIOUS
<1>5. n \in Nat
  BY <1>2, <1>3, <1>4, TokenFields
<1>6. /\ ~IsDirectOutput(args) /\ ~args.sed
      /\ TokenIds(stream.out) \subseteq {output[j].id : j \in 1..next - 1}
      /\ ~stream.delimit_required => Undiscarded = <<>>
  <2>1. output # <<>>
    BY <1>3
  <2> QED
    BY <1>1, <1>2, <2>1 DEF WritesOne
<1>7. n \notin TokenIds(stream.out)
  <2>1. \A j \in 1..next - 1 : j \in DOMAIN output /\ j # next
    BY <1>2, <1>3
  <2> QED
    BY <1>3, <1>4, <1>6, <2>1 DEF Traced, TracedVector
<1>8. MayFollow(n, Undiscarded, stream, args)
  BY <1>2, <1>6, <1>7 DEF MayFollow, Written
<1>9. PICK w : w = stream'
  OBVIOUS
<1>10. PICK t : t = (Undiscarded)'
  OBVIOUS
<1>11. Written(t, w, args) /\ w.delimit_required
  <2>1. PICK u : u = Undiscarded
    OBVIOUS
  <2>2. u = UndiscardedOf(stream.out, args.out_start) /\ Written(u, stream, args)
        /\ MayFollow(n, u, stream, args)
    BY <1>2, <1>8, <2>1, UndiscardedIs
  <2>3. w = WriteOutputNoTruncate(stream, args, n) /\ t = UndiscardedOf(w.out, args.out_start)
    BY <1>1, <1>4, <1>9, <1>10, UndiscardedThen
  <2> QED
    BY ONLY <1>2, <1>5, <2>1, <2>2, <2>3, TokenWritten
<1>12. (Written(Undiscarded, stream, args))'
  <2>1. Written(t, w, args) /\ args' = args
    BY <1>1, <1>11
  <2> QED
    BY <1>9, <1>10, <2>1
<1>13. TokenIds(stream'.out) \subseteq {output'[j].id : j \in 1..next' - 1}
  <2>1. TokenIds(WriteOutputNoTruncate(stream, args, n).out) = TokenIds(stream.out) \cup {n}
    BY <1>2, <1>5, IdsWriteOutputNoTruncate
  <2>2. next' - 1 = next /\ next \in 1..next /\ \A j \in 1..next - 1 : j \in 1..next
    BY <1>1, <1>2
  <2> QED
    BY <1>1, <1>4, <1>6, <2>1, <2>2
<1>14. ~IsDirectOutput(args') /\ ~args'.tui /\ ~args'.sed /\ stream'.delimit_required
  BY <1>1, <1>6, <1>9, <1>11
<1>15. (WritesOne)'
  BY <1>13, <1>14 DEF WritesOne
<1> QED
  BY <1>1, <1>2, <1>12, <1>15 DEF OutputInv

LEMMA FinishOutputStep == Inv /\ OutputInv /\ Finish => OutputInv'
<1> SUFFICES ASSUME Inv, OutputInv, Finish PROVE OutputInv'
  OBVIOUS
<1>1. /\ phase = "writing" /\ args' = args /\ options' = options /\ phase' = "done"
      /\ stream' = IF args.tui THEN stream ELSE FinishOutput(stream, args)
      /\ stream \in Streams /\ Consistent(options)
      /\ Written(Undiscarded, stream, args) /\ WritesOne
  BY DEF Finish, Inv, TypeOK, OutputInv
<1>2. CASE ~args.tui
  <2>1. Written(UndiscardedOf(stream.out, args.out_start), stream, args)
    BY <1>1, UndiscardedIs
  <2> QED
    BY <1>1, <1>2, <2>1, FinishedOutput
<1>3. CASE args.tui
  <2>1. stream' = NewStream
    BY <1>1, <1>3 DEF WritesOne
  <2>2. (Undiscarded)' = <<>>
    BY <2>1, UndiscardedThen, UndiscardedNone DEF NewStream
  <2>3. (Separated(Undiscarded, args.sed))'
    <3>1. DOMAIN <<>> = {} /\ Len(<<>>) = 0
      OBVIOUS
    <3> QED
      BY <2>2, <3>1 DEF Separated
  <2> QED
    BY <1>1, <1>3, <2>2, <2>3 DEF OutputInv
<1> QED
  BY <1>2, <1>3

LEMMA StoreTokenOutput ==
  ASSUME OutputInv, NEW k \in Keys, NEW u \in Keys, StoreToken(Arrival(k, u))
  PROVE  OutputInv'
<1>1. /\ phase = "reading" /\ args' = args /\ options' = options /\ stream' = stream
      /\ next' = next /\ phase' \in {"reading", "finalising"} /\ ~IsDirectOutput(args)
  BY DEF StoreToken, Arrive, Reading
<1>2. stream = NewStream /\ next = 1 /\ Consistent(options) /\ Written(Undiscarded, stream, args)
  BY <1>1 DEF OutputInv, ReadingWrites
<1>3. (Undiscarded)' = Undiscarded
  BY <1>1, UndiscardedThen, UndiscardedIs
<1>4. (Written(Undiscarded, stream, args))'
  BY <1>1, <1>2, <1>3
<1>5. ~IsDirectOutput(args')
  BY <1>1
<1> QED
  BY <1>1, <1>2, <1>4, <1>5 DEF OutputInv, ReadingWrites

(* A token that is written or passed over on its way to the output.        *)
LEMMA ForwardedWritten ==
  ASSUME Inv, Traced, OutputInv, phase = "reading", IsDirectOutput(args),
         NEW n, n = Len(arrivals) + 1,
         NEW w, w = WriteOutput(stream, args, n),
         NEW t, t = UndiscardedOf(w.out, args.out_start)
  PROVE  /\ w \in Streams
         /\ Written(t, w, args)
         /\ w.out_count = stream.out_count + 1
         /\ IF BeginDiscard(stream, args)
            THEN t = Undiscarded /\ w.delimit_required = stream.delimit_required
            ELSE w.delimit_required
<1>1. n \in Nat /\ stream \in Streams
  BY DEF Inv, TypeOK
<1>2. Written(Undiscarded, stream, args) /\ MayFollow(n, Undiscarded, stream, args)
  BY ArrivalMayFollow DEF OutputInv
<1>3. stream = [out |-> stream.out, out_count |-> stream.out_count,
                has_written |-> stream.has_written,
                delimit_required |-> stream.delimit_required]
  BY <1>1 DEF Streams
<1>4. w \in Streams
  BY <1>1, StreamTyped
<1>5. CASE BeginDiscard(stream, args)
  <2>1. w = [stream EXCEPT !.out_count = @ + 1]
    BY <1>5 DEF WriteOutput
  <2>2. /\ w.out = stream.out /\ w.out_count = stream.out_count + 1
        /\ w.has_written = stream.has_written /\ w.delimit_required = stream.delimit_required
    BY <1>3, <2>1
  <2>3. t = Undiscarded
    BY <2>2, UndiscardedIs
  <2>4. Written(t, w, args)
    BY <1>2, <2>2, <2>3 DEF Written
  <2> QED
    BY <1>4, <1>5, <2>2, <2>3, <2>4
<1>6. CASE ~BeginDiscard(stream, args)
  <2>1. w = WriteOutputNoTruncate(stream, args, n)
    BY <1>6 DEF WriteOutput
  <2>2. PICK u : u = Undiscarded
    OBVIOUS
  <2>3. u = UndiscardedOf(stream.out, args.out_start) /\ Written(u, stream, args)
        /\ MayFollow(n, u, stream, args)
    BY <1>2, <2>2, UndiscardedIs
  <2>4. t = UndiscardedOf(w.out, args.out_start)
    OBVIOUS
  <2>5. Written(t, w, args) /\ w.out_count = stream.out_count + 1 /\ w.delimit_required
    BY ONLY <1>1, <2>1, <2>3, <2>4, TokenWritten
  <2> QED
    BY <1>4, <1>6, <2>5
<1> QED
  BY <1>5, <1>6

LEMMA ForwardTokenOutput ==
  ASSUME Inv, Traced, OutputInv, NEW k \in Keys, NEW u \in Keys, ForwardToken(Arrival(k, u))
  PROVE  OutputInv'
<1> DEFINE token == Arrival(k, u)
<1>1. /\ phase = "reading" /\ args' = args /\ options' = options
      /\ IsDirectOutput(args) /\ arrivals' = Append(arrivals, token)
      /\ token.id = Len(arrivals) + 1 /\ token \in Tokens
  BY ArrivalTyped DEF ForwardToken, Arrive, Reading, Arrival, Inv
<1>2. PICK n : n = Len(arrivals) + 1
  OBVIOUS
<1>3. PICK w : w = WriteOutput(stream, args, n)
  OBVIOUS
<1>4. \/ IsDuplicate(token) /\ stream' = stream /\ phase' = phase
      \/ OutputComplete(w) /\ stream' = FinishOutput(w, args) /\ phase' = "done"
      \/ ~IsDuplicate(token) /\ stream' = w /\ phase' = phase
  BY <1>1, <1>2, <1>3 DEF ForwardToken
<1>5. IsDuplicate(token) => ~TokensNotStored(args)
  BY DEF IsDuplicate, TokensNotStored
<1> HIDE DEF token
<1>6. Len(arrivals') = Len(arrivals) + 1
  BY <1>1 DEF Inv, TypeOK
<1>7. PICK t : t = UndiscardedOf(w.out, args.out_start)
  OBVIOUS
<1>8. /\ w \in Streams
      /\ Written(t, w, args)
      /\ w.out_count = stream.out_count + 1
      /\ IF BeginDiscard(stream, args)
         THEN t = Undiscarded /\ w.delimit_required = stream.delimit_required
         ELSE w.delimit_required
  BY <1>1, <1>2, <1>3, <1>7, ForwardedWritten
<1>9. ReadingWrites /\ LeftOpen /\ Written(Undiscarded, stream, args) /\ Consistent(options)
      /\ stream \in Streams
  BY <1>1 DEF OutputInv, ReadingWrites, Inv, TypeOK
<1>10. CASE stream' = stream /\ phase' = phase /\ IsDuplicate(token)
  <2>1. (Undiscarded)' = Undiscarded
    BY <1>1, <1>10, UndiscardedThen, UndiscardedIs
  <2>2. (Written(Undiscarded, stream, args))'
    BY <1>1, <1>9, <1>10, <2>1
  <2>3. ~TokensNotStored(args') /\ IsDirectOutput(args')
    BY <1>1, <1>5, <1>10
  <2>4. (LeftOpen)'
    BY <1>1, <1>5, <1>9, <1>10, <2>1 DEF LeftOpen
  <2>5. ~args'.sed /\ BeginDiscard(stream', args') => (Undiscarded)' = <<>>
    BY <1>1, <1>9, <1>10, <2>1 DEF ReadingWrites
  <2>6. (ReadingWrites)'
    BY <2>3, <2>4, <2>5 DEF ReadingWrites
  <2> QED
    BY <1>1, <1>9, <1>10, <2>2, <2>6 DEF OutputInv
<1>11. CASE stream' = FinishOutput(w, args) /\ phase' = "done"
  <2>1. ~args.tui
    BY <1>1 DEF IsDirectOutput
  <2> QED
    BY <1>1, <1>7, <1>8, <1>9, <1>11, <2>1, FinishedOutput
<1>12. CASE stream' = w /\ phase' = phase
  <2>1. (Undiscarded)' = t
    BY <1>1, <1>7, <1>12, UndiscardedThen
  <2>2. (Written(Undiscarded, stream, args))'
    BY <1>1, <1>8, <1>12, <2>1
  <2>3. stream.out_count \in Nat /\ args.out_start \in Nat \cup {-1}
    BY <1>9, ArgsTyped DEF Streams, Inv, ArgsType, Limits, NoLimit
  <2>4. ~args.sed /\ BeginDiscard(stream, args) => Undiscarded = <<>>
    BY <1>1, <1>9 DEF ReadingWrites
  <2>5. BeginDiscard(w, args) => BeginDiscard(stream, args)
    BY <1>8, <2>3 DEF BeginDiscard
  <2>6. ~args.sed /\ BeginDiscard(stream, args) => t = <<>>
    BY <1>8, <2>4
  <2>7. (LeftOpen)'
    <3>1. CASE BeginDiscard(stream, args)
      BY <1>1, <1>12, <2>1, <2>6, <3>1 DEF LeftOpen
    <3>2. CASE ~BeginDiscard(stream, args)
      BY <1>8, <1>12, <3>2 DEF LeftOpen
    <3> QED
      BY <3>1, <3>2
  <2>8. ~args'.sed /\ BeginDiscard(stream', args') => (Undiscarded)' = <<>>
    BY <1>1, <1>12, <2>1, <2>5, <2>6
  <2>9. TokensNotStored(args') => stream'.out_count = Len(arrivals')
    BY <1>1, <1>6, <1>8, <1>9, <1>12 DEF ReadingWrites
  <2>10. IsDirectOutput(args')
    BY <1>1
  <2>11. (ReadingWrites)'
    BY <2>7, <2>8, <2>9, <2>10 DEF ReadingWrites
  <2> QED
    BY <1>1, <1>9, <1>12, <2>2, <2>11 DEF OutputInv
<1> QED
  BY <1>4, <1>10, <1>11, <1>12

LEMMA NextOutput == Inv /\ Traced /\ OutputInv /\ [Next]_vars => OutputInv'
<1>1. ASSUME OutputInv, UNCHANGED vars PROVE OutputInv'
  <2>1. /\ options' = options /\ args' = args /\ arrivals' = arrivals /\ output' = output
        /\ stream' = stream /\ next' = next /\ phase' = phase
    BY <1>1 DEF vars
  <2>2. (Undiscarded)' = Undiscarded
    BY <2>1, UndiscardedThen, UndiscardedIs
  <2>3. (Written(Undiscarded, stream, args))' <=> Written(Undiscarded, stream, args)
    BY <2>1, <2>2
  <2>4. (ReadingWrites)' <=> ReadingWrites
    BY <2>1, <2>2 DEF ReadingWrites, LeftOpen
  <2>5. (WritesOne)' <=> WritesOne
    BY <2>1, <2>2 DEF WritesOne
  <2> QED
    BY <1>1, <2>1, <2>2, <2>3, <2>4, <2>5 DEF OutputInv
<1>2. ASSUME Inv, Traced, OutputInv, NEW k \in Keys, NEW u \in Keys,
             ForwardToken(Arrival(k, u)) \/ StoreToken(Arrival(k, u))
      PROVE  OutputInv'
  BY <1>2, ForwardTokenOutput, StoreTokenOutput
<1> QED
  BY <1>1, <1>2, WriteFragmentOutput, CopyBetweenOutput, EndOfInputOutput, FinaliseOutput,
     WriteNextOutput, FinishOutputStep DEF Next, Terminated

LEMMA OutputHolds == Spec => []OutputInv
<1>1. Spec => []Inv
  BY Invariance
<1>2. Spec => []Traced
  BY NothingInvented
<1> QED
  BY <1>1, <1>2, InitOutput, NextOutput, PTL DEF Spec

(* Whatever the options, and whether tokens are written as they arrive, in *)
(* parts or at the end: delimiters come between two tokens and nowhere     *)
(* else.                                                                   *)
THEOREM DelimitersHold == Spec => []DelimitersSeparate
<1>1. OutputInv => DelimitersSeparate
  BY DEF OutputInv, Written, Separated, DelimitersSeparate
<1> QED
  BY <1>1, OutputHolds, PTL

(* The batch delimiter is the last thing written, and is written exactly   *)
(* when the options ask for it.                                            *)
THEOREM BatchHolds == Spec => []BatchAtEnd
<1>1. OutputInv => BatchAtEnd
  <2> SUFFICES ASSUME OutputInv PROVE BatchAtEnd
    OBVIOUS
  <2>1. CASE phase # "done"
    BY <2>1 DEF OutputInv, Written, Unended, BatchAtEnd
  <2>2. CASE phase = "done" /\ args.tui
    <3>1. DOMAIN <<>> = {}
      OBVIOUS
    <3> QED
      BY <2>2, <3>1 DEF OutputInv, BatchAtEnd
  <2>3. CASE phase = "done" /\ ~args.tui
    BY <2>3 DEF OutputInv, EndsAsAsked, HasPiece, BatchAtEnd
  <2> QED
    BY <2>1, <2>2, <2>3
<1> QED
  BY <1>1, OutputHolds, PTL


-------------------------------------------------------------------------------
(* The window of bounded memory, and when reading ends.                    *)

Joined(kept, t, s) == Promise!WithFirst(kept, t, s)

O == INSTANCE FoldLemmas WITH Op <- Joined

FirstOf(unique, s) == IF unique THEN O!Fold(<<>>, s, s) ELSE s

LEMMA FirstIs ==
  ASSUME NEW s PROVE Promise!FirstOccurrences(options, s) = FirstOf(options.unique, s)
  BY DEF Promise!FirstOccurrences, FirstOf, O!Fold, Promise!FoldLeft, O!FoldLeft,
         Promise!MapThenFoldSet, O!MapThenFoldSet, Promise!Max, O!Max, Joined

LEMMA FirstNone == ASSUME NEW unique PROVE FirstOf(unique, <<>>) = <<>>
<1>1. O!Fold(<<>>, <<>>, <<>>) = <<>>
  BY O!FoldEmpty
<1> QED
  BY <1>1 DEF FirstOf

(* Only what arrived before a token decides whether it is a first one.     *)
LEMMA EarlierDecide ==
  ASSUME NEW all \in Seq(Tokens), NEW t \in Tokens, Numbered(all)
  PROVE  O!Fold(<<>>, all, Append(all, t)) = O!Fold(<<>>, all, all)
<1>1. PICK n \in Nat : n = Len(all) /\ DOMAIN all = 1..n
  BY LenProperties
<1>2. PICK more : more = Append(all, t)
  OBVIOUS
<1>3. \A i \in 1..n : more[i] = all[i]
  BY <1>1, <1>2
<1>4. PICK v : O!Steps(v, <<>>, all, all, n) /\ O!Fold(<<>>, all, all) = v[n]
  BY <1>1, O!FoldValues
<1>5. PICK w : O!Steps(w, <<>>, all, more, n) /\ O!Fold(<<>>, all, more) = w[n]
  BY <1>1, O!FoldValues
<1> DEFINE T == {i \in 0..n : v[i] = w[i]}
<1>6. 0 \in T
  BY <1>4, <1>5 DEF O!Steps
<1>7. ASSUME NEW i \in 1..n, i - 1 \in T PROVE i \in T
  <2>1. all[i].id = i /\ \A j \in 1..i - 1 : more[j] = all[j]
    BY <1>1, <1>3 DEF Numbered
  <2>2. \A x : Joined(x, all[i], all) = Joined(x, all[i], more)
    BY <2>1 DEF Joined, Promise!WithFirst
  <2>3. v[i] = Joined(v[i - 1], all[i], all) /\ w[i] = Joined(w[i - 1], all[i], more)
    BY <1>4, <1>5 DEF O!Steps
  <2>4. v[i - 1] = w[i - 1]
    BY <1>7
  <2>5. v[i] = w[i]
    BY <2>2, <2>3, <2>4
  <2> QED
    BY <2>5
<1>8. n \in T
  <2> HIDE DEF T
  <2>1. 0..n \subseteq T
    BY <1>6, <1>7, StepByStep
  <2> QED
    BY <2>1
<1> QED
  BY <1>2, <1>4, <1>5, <1>8

ClassIn(s, t) == \E i \in DOMAIN s : s[i].unique = t.unique

LEMMA FirstStep ==
  ASSUME NEW unique, NEW all \in Seq(Tokens), NEW t \in Tokens, Numbered(all),
         t.id = Len(all) + 1
  PROVE  FirstOf(unique, Append(all, t)) =
           IF unique /\ ClassIn(all, t) THEN FirstOf(unique, all)
                                        ELSE Append(FirstOf(unique, all), t)
<1>1. PICK n \in Nat : n = Len(all) /\ DOMAIN all = 1..n
  BY LenProperties
<1>2. PICK more : more = Append(all, t)
  OBVIOUS
<1>3. DOMAIN more = 1..n + 1 /\ more[n + 1] = t /\ \A i \in 1..n : all[i] = more[i]
  BY <1>1, <1>2
<1>4. O!Fold(<<>>, more, more) = Joined(O!Fold(<<>>, all, more), more[n + 1], more)
  BY <1>1, <1>3, O!FoldLast
<1>5. O!Fold(<<>>, all, more) = O!Fold(<<>>, all, all)
  BY <1>2, EarlierDecide
<1>6. \A x : Joined(x, t, more) = IF ClassIn(all, t) THEN x ELSE Append(x, t)
  <2>1. t.id - 1 = n
    BY <1>1
  <2>2. (\A i \in 1..t.id - 1 : more[i].unique # t.unique) <=> ~ClassIn(all, t)
    BY <1>1, <1>3, <2>1 DEF ClassIn
  <2> QED
    BY <2>2 DEF Joined, Promise!WithFirst
<1>7. CASE unique
  BY <1>2, <1>3, <1>4, <1>5, <1>6, <1>7 DEF FirstOf
<1>8. CASE ~unique
  BY <1>8 DEF FirstOf
<1> QED
  BY <1>7, <1>8

(* The first occurrences are tokens of the history, in its order, one of   *)
(* each class.                                                             *)
FirstVector(unique, f, all) ==
  /\ f \in Seq(Tokens)
  /\ \A k \in DOMAIN f : f[k].id \in DOMAIN all /\ f[k] = all[f[k].id]
  /\ \A k, l \in DOMAIN f : k < l => f[k].id < f[l].id
  /\ unique => \A n \in DOMAIN all : ClassIn(f, all[n])
  /\ ~unique => f = all

LEMMA ClassesFirst ==
  ASSUME NEW unique, NEW f, NEW all, NEW t, FirstVector(unique, f, all), unique
  PROVE  ClassIn(all, t) <=> ClassIn(f, t)
<1>1. ASSUME ClassIn(all, t) PROVE ClassIn(f, t)
  <2>1. PICK n \in DOMAIN all : all[n].unique = t.unique
    BY <1>1 DEF ClassIn
  <2> QED
    BY <2>1 DEF FirstVector, ClassIn
<1>2. ASSUME ClassIn(f, t) PROVE ClassIn(all, t)
  BY <1>2 DEF FirstVector, ClassIn
<1> QED
  BY <1>1, <1>2

FirstWith(unique, f, t) == IF unique /\ ClassIn(f, t) THEN f ELSE Append(f, t)

LEMMA FirstVectorStep ==
  ASSUME NEW unique \in BOOLEAN, NEW f, NEW all \in Seq(Tokens), NEW t \in Tokens,
         FirstVector(unique, f, all), t.id = Len(all) + 1
  PROVE  FirstVector(unique, FirstWith(unique, f, t), Append(all, t))
<1>1. PICK n \in Nat : n = Len(all) /\ DOMAIN all = 1..n
  BY LenProperties
<1>2. PICK more \in Seq(Tokens) : more = Append(all, t)
  BY AppendProperties
<1>3. DOMAIN more = 1..n + 1 /\ more[n + 1] = t /\ \A i \in 1..n : all[i] = more[i]
  BY <1>1, <1>2
<1>4. f \in Seq(Tokens)
  BY DEF FirstVector
<1>5. PICK m \in Nat : m = Len(f) /\ DOMAIN f = 1..m
  BY <1>4, LenProperties
<1>6. /\ \A k \in 1..m : f[k].id \in 1..n /\ f[k] = all[f[k].id]
      /\ \A k, l \in 1..m : k < l => f[k].id < f[l].id
      /\ unique => \A i \in 1..n : ClassIn(f, all[i])
      /\ ~unique => f = all
  BY <1>1, <1>5 DEF FirstVector
<1>7. CASE unique /\ ClassIn(f, t)
  <2>1. \A k \in DOMAIN f : f[k].id \in DOMAIN more /\ f[k] = more[f[k].id]
    BY <1>3, <1>5, <1>6
  <2>2. \A i \in DOMAIN more : ClassIn(f, more[i])
    <3>1. \A i \in 1..n : ClassIn(f, more[i])
      BY <1>3, <1>6, <1>7
    <3>2. \A i \in DOMAIN more : i \in 1..n \/ i = n + 1
      BY <1>3
    <3> QED
      BY <1>3, <1>7, <3>1, <3>2
  <2>3. FirstVector(unique, f, more)
    BY <1>4, <1>5, <1>6, <1>7, <2>1, <2>2 DEF FirstVector
  <2> QED
    BY <1>2, <1>7, <2>3 DEF FirstWith
<1>8. CASE ~(unique /\ ClassIn(f, t))
  <2>1. PICK g \in Seq(Tokens) : g = Append(f, t)
    BY <1>4, AppendProperties
  <2>2. DOMAIN g = 1..m + 1 /\ g[m + 1] = t /\ \A i \in 1..m : g[i] = f[i]
    BY <1>4, <1>5, <2>1
  <2>3. \A k \in 1..m + 1 : k \in 1..m \/ k = m + 1
    BY <1>5
  <2>4. \A k \in DOMAIN g : g[k].id \in DOMAIN more /\ g[k] = more[g[k].id]
    <3>1. \A k \in 1..m : g[k].id \in DOMAIN more /\ g[k] = more[g[k].id]
      BY <1>3, <1>6, <2>2
    <3>2. t.id = n + 1
      BY <1>1
    <3> QED
      BY <1>3, <2>2, <2>3, <3>1, <3>2
  <2>5. \A k, l \in DOMAIN g : k < l => g[k].id < g[l].id
    <3> SUFFICES ASSUME NEW k \in 1..m + 1, NEW l \in 1..m + 1, k < l
                 PROVE  g[k].id < g[l].id
      BY <2>2
    <3>1. k \in 1..m
      BY <1>5
    <3>2. CASE l \in 1..m
      BY <1>6, <2>2, <3>1, <3>2
    <3>3. CASE l = m + 1
      <4>1. g[k].id \in 1..n /\ g[l].id = n + 1
        BY <1>1, <1>6, <2>2, <3>1, <3>3
      <4> QED
        BY <1>1, <4>1
    <3> QED
      BY <2>3, <3>2, <3>3
  <2>6. ASSUME unique PROVE \A i \in DOMAIN more : ClassIn(g, more[i])
    <3>1. \A i \in 1..n : ClassIn(g, more[i])
      <4>1. \A i \in 1..n : ClassIn(f, more[i])
        BY <1>3, <1>6, <2>6
      <4> QED
        BY <1>5, <2>2, <4>1 DEF ClassIn
    <3>2. ClassIn(g, t)
      BY <1>5, <2>2 DEF ClassIn
    <3>3. \A i \in DOMAIN more : i \in 1..n \/ i = n + 1
      BY <1>3
    <3> QED
      BY <1>3, <3>1, <3>2, <3>3
  <2>7. ~unique => g = more
    BY <1>2, <1>6, <2>1
  <2>8. FirstVector(unique, g, more)
    BY <2>1, <2>4, <2>5, <2>6, <2>7 DEF FirstVector
  <2> QED
    BY <1>2, <1>8, <2>1, <2>8 DEF FirstWith
<1> QED
  BY <1>7, <1>8

First == FirstOf(args.unique, arrivals)

LEMMA FirstAfterArrival ==
  ASSUME FirstVector(args.unique, First, arrivals), args.unique \in BOOLEAN,
         arrivals \in Seq(Tokens), Numbered(arrivals), NEW t \in Tokens,
         t.id = Len(arrivals) + 1, arrivals' = Append(arrivals, t), args' = args
  PROVE  First' = FirstWith(args.unique, First, t)
<1>1. First' = FirstOf(args.unique, Append(arrivals, t))
  BY DEF First
<1>2. FirstOf(args.unique, Append(arrivals, t)) =
        IF args.unique /\ ClassIn(arrivals, t) THEN FirstOf(args.unique, arrivals)
                                               ELSE Append(FirstOf(args.unique, arrivals), t)
  BY FirstStep
<1>3. args.unique => (ClassIn(arrivals, t) <=> ClassIn(First, t))
  BY ClassesFirst
<1> QED
  BY <1>1, <1>2, <1>3 DEF First, FirstWith

LEMMA FirstVectorThen ==
  ASSUME FirstVector(args.unique, First, arrivals), args.unique \in BOOLEAN,
         arrivals \in Seq(Tokens), Numbered(arrivals), NEW t \in Tokens,
         t.id = Len(arrivals) + 1, arrivals' = Append(arrivals, t), args' = args
  PROVE  FirstVector(args.unique, First, arrivals)'
<1>1. First' = FirstWith(args.unique, First, t)
  BY FirstAfterArrival
<1>2. FirstVector(args.unique, FirstWith(args.unique, First, t), Append(arrivals, t))
  BY FirstVectorStep
<1> QED
  BY <1>1, <1>2 DEF FirstVector

(* A stable sort tells any two tokens apart: of equals, the earlier one is *)
(* ahead.                                                                  *)
Ahead(a, x, y) == Before(a, x, y) \/ (~Before(a, y, x) /\ x.id < y.id)

LEMMA AheadIsOrder ==
  ASSUME NEW a, NEW x \in Tokens, NEW y \in Tokens, NEW z \in Tokens
  PROVE  /\ ~(Ahead(a, x, y) /\ Ahead(a, y, x))
         /\ Ahead(a, x, y) /\ Ahead(a, y, z) => Ahead(a, x, z)
<1>1. /\ x.sort \in Int /\ y.sort \in Int /\ z.sort \in Int
      /\ x.id \in Int /\ y.id \in Int /\ z.id \in Int
  BY TokenFields
<1> QED
  BY <1>1 DEF Ahead, Before

Ranked(a, s) == \A i, j \in DOMAIN s : i < j => Ahead(a, s[i], s[j])

Taken(s, t) == \E i \in DOMAIN s : s[i] = t

(* Each first occurrence is in the vector, or behind a full one.           *)
PlacedIn(a, s, f) ==
  \A k \in DOMAIN f : \/ Taken(s, f[k])
                      \/ Len(s) = a.out_end /\ \A i \in DOMAIN s : Ahead(a, s[i], f[k])

(* The vector is the head of the stable order of the first occurrences.    *)
SortedWindow(a, s, f) ==
  /\ Len(s) = Smaller(a.out_end, Len(f))
  /\ \A i \in DOMAIN s : Taken(f, s[i])
  /\ Ranked(a, s)
  /\ PlacedIn(a, s, f)

(* The vector with t where upper_bound puts it.                            *)
LEMMA InsertionRanked ==
  ASSUME NEW a, a.sort_reverse \in BOOLEAN, NEW s \in Seq(Tokens), NEW t \in Tokens,
         InOrder(a, s), Ranked(a, s), \A i \in DOMAIN s : s[i].id < t.id
  PROVE  Ranked(a, InsertAt(s, UpperBound(a, s, t), t))
<1> DEFINE p == UpperBound(a, s, t)
           r == InsertAt(s, p, t)
<1>1. /\ p \in 1..Len(s) + 1
      /\ \A i \in 1..p - 1 : ~Before(a, t, s[i])
      /\ \A i \in p..Len(s) : Before(a, t, s[i])
  BY UpperBoundSplits
<1> HIDE DEF p
<1>2. /\ r \in Seq(Tokens) /\ Len(r) = Len(s) + 1
      /\ \A i \in 1..Len(s) + 1 :
           r[i] = IF i < p THEN s[i] ELSE IF i = p THEN t ELSE s[i - 1]
  BY <1>1, InsertAtElements
<1> HIDE DEF r
<1>3. PICK n \in Nat : n = Len(s) /\ DOMAIN s = 1..n
  BY LenProperties
<1>4. \A i, j \in 1..n : i < j => Ahead(a, s[i], s[j])
  BY <1>3 DEF Ranked
<1>5. \A i \in 1..p - 1 : Ahead(a, s[i], t)
  <2>1. \A i \in 1..p - 1 : i \in 1..n /\ ~Before(a, t, s[i])
    BY <1>1, <1>3
  <2> QED
    BY <1>3, <2>1 DEF Ahead
<1>6. \A i \in p..n : Ahead(a, t, s[i])
  BY <1>1, <1>3 DEF Ahead
<1>7. ASSUME NEW i \in 1..n + 1, NEW j \in 1..n + 1, i < j
      PROVE  Ahead(a, r[i], r[j])
  <2>0. /\ p \in 1..n + 1
        /\ \A k \in 1..n + 1 : /\ k < p => r[k] = s[k]
                               /\ k = p => r[k] = t
                               /\ p < k => r[k] = s[k - 1]
    BY <1>1, <1>2, <1>3
  <2>1. CASE j < p
    <3>1. r[i] = s[i] /\ r[j] = s[j] /\ i \in 1..n /\ j \in 1..n
      BY <2>0, <2>1, <1>7
    <3> QED
      BY <3>1, <1>4, <1>7
  <2>2. CASE j = p
    <3>1. r[i] = s[i] /\ r[j] = t /\ i \in 1..p - 1
      BY <2>0, <2>2, <1>7
    <3> QED
      BY <3>1, <1>5
  <2>3. CASE p < j /\ i = p
    <3>1. r[i] = t /\ r[j] = s[j - 1] /\ j - 1 \in p..n
      BY <2>0, <2>3
    <3> QED
      BY <3>1, <1>6
  <2>4. CASE p < j /\ i < p
    <3>1. r[i] = s[i] /\ r[j] = s[j - 1] /\ i \in 1..n /\ j - 1 \in 1..n /\ i < j - 1
      BY <2>0, <2>4
    <3> QED
      BY <3>1, <1>4
  <2>5. CASE p < j /\ p < i
    <3>1. /\ r[i] = s[i - 1] /\ r[j] = s[j - 1] /\ i - 1 \in 1..n /\ j - 1 \in 1..n
          /\ i - 1 < j - 1
      BY <2>0, <2>5, <1>7
    <3> QED
      BY <3>1, <1>4
  <2> QED
    BY <2>0, <2>1, <2>2, <2>3, <2>4, <2>5
<1>8. DOMAIN r = 1..n + 1
  BY <1>2, <1>3
<1>9. Ranked(a, r)
  BY <1>7, <1>8 DEF Ranked
<1> QED
  BY <1>9 DEF r, p

(* What a token that arrives does to the sorted vector.  Its neighbours    *)
(* may be of its class, though its first occurrence was lost: then its     *)
(* place is beyond a full vector.                                          *)
LEMMA LateDuplicateLost ==
  ASSUME NEW a, NEW s \in Seq(Tokens), NEW t \in Tokens, NEW f \in Seq(Tokens),
         a.sort_reverse \in BOOLEAN, a.out_end \in Nat, InOrder(a, s),
         PlacedIn(a, s, f), \A i \in 1..Len(s) : ~SameUnique(s[i], t),
         NEW k \in DOMAIN f, f[k].unique = t.unique, f[k].sort = t.sort
  PROVE  Len(s) = a.out_end /\ UpperBound(a, s, t) = Len(s) + 1
<1>1. DOMAIN s = 1..Len(s) /\ Len(s) \in Nat
  BY LenProperties
<1>2. ~Taken(s, f[k])
  BY <1>1 DEF Taken, SameUnique
<1>3. Len(s) = a.out_end /\ \A i \in 1..Len(s) : Ahead(a, s[i], f[k])
  BY <1>1, <1>2 DEF PlacedIn
<1>4. \A i \in 1..Len(s) : ~Before(a, t, s[i])
  <2>1. \A i \in 1..Len(s) : s[i].sort \in Int /\ f[k].sort \in Int
    BY TokenFields
  <2> QED
    BY <1>3, <2>1 DEF Ahead, Before
<1>5. PICK p \in 1..Len(s) + 1 :
        p = UpperBound(a, s, t) /\ \A i \in p..Len(s) : Before(a, t, s[i])
  BY UpperBoundSplits
<1>6. p = Len(s) + 1
  <2>1. SUFFICES ASSUME p # Len(s) + 1 PROVE FALSE
    OBVIOUS
  <2>2. p \in p..Len(s) /\ p \in 1..Len(s)
    BY <1>1, <2>1
  <2> QED
    BY <1>4, <1>5, <2>2
<1> QED
  BY <1>3, <1>5, <1>6

(* At the limit, inserting after the last element changes nothing.         *)
LEMMA InsertionBeyondLost ==
  ASSUME NEW s \in Seq(Tokens), NEW t \in Tokens
  PROVE  SubSeq(InsertAt(s, Len(s) + 1, t), 1, Len(s)) = s
<1>1. PICK n \in Nat : n = Len(s) /\ DOMAIN s = 1..n
  BY LenProperties
<1>2. PICK r : r = InsertAt(s, n + 1, t)
  OBVIOUS
<1>3. r \in Seq(Tokens) /\ Len(r) = n + 1 /\ \A i \in 1..n : r[i] = s[i]
  <2>1. PICK p \in 1..Len(s) + 1 : p = n + 1
    BY <1>1
  <2>2. /\ InsertAt(s, p, t) \in Seq(Tokens) /\ Len(InsertAt(s, p, t)) = Len(s) + 1
        /\ \A i \in 1..Len(s) + 1 :
             InsertAt(s, p, t)[i] = IF i < p THEN s[i] ELSE IF i = p THEN t ELSE s[i - 1]
    <3>1. s \in Seq(Tokens) /\ t \in Tokens /\ p \in 1..Len(s) + 1
      BY <2>1
    <3> QED
      BY ONLY <3>1, InsertAtElements
  <2>3. InsertAt(s, p, t) = r
    BY <1>2, <2>1
  <2> QED
    BY <1>1, <2>1, <2>2, <2>3
<1>4. n \in 0..Len(r)
  BY <1>3
<1>5. PICK h \in Seq(Tokens) : h = SubSeq(r, 1, n) /\ Len(h) = n /\ \A i \in 1..n : h[i] = r[i]
  BY <1>3, <1>4, HeadOfVector
<1>6. h = s
  BY <1>1, <1>3, <1>5, SeqEqual
<1> QED
  BY <1>1, <1>2, <1>5, <1>6

(* A vector with t inserted, as far as the limit allows: what it holds.    *)
InsertedUpTo(a, s, t) ==
  LET longer == InsertAt(s, UpperBound(a, s, t), t)
  IN IF Len(s) = a.out_end THEN SubSeq(longer, 1, a.out_end) ELSE longer

LEMMA NewFirstPlaced ==
  ASSUME NEW a, NEW s \in Seq(Tokens), NEW t \in Tokens, NEW f \in Seq(Tokens),
         a.sort_reverse \in BOOLEAN, a.out_end \in Nat \ {0}, InOrder(a, s),
         SortedWindow(a, s, f), \A i \in DOMAIN f : f[i].id < t.id
  PROVE  SortedWindow(a, InsertedUpTo(a, s, t), Append(f, t))
<1>1. PICK n \in Nat : n = Len(s) /\ DOMAIN s = 1..n
  BY LenProperties
<1>2. PICK m \in Nat : m = Len(f) /\ DOMAIN f = 1..m
  BY LenProperties
<1>3. /\ n = Smaller(a.out_end, m)
      /\ \A i \in 1..n : \E k \in 1..m : s[i] = f[k]
      /\ Ranked(a, s)
      /\ \A k \in 1..m : \/ \E i \in 1..n : s[i] = f[k]
                         \/ n = a.out_end /\ \A i \in 1..n : Ahead(a, s[i], f[k])
  <2>1. \A i \in 1..n : \E k \in 1..m : s[i] = f[k]
    BY <1>1, <1>2 DEF SortedWindow, Taken
  <2> QED
    BY <1>1, <1>2, <2>1 DEF SortedWindow, PlacedIn, Taken
<1>4. PICK g \in Seq(Tokens) : g = Append(f, t)
  BY AppendProperties
<1>5. DOMAIN g = 1..m + 1 /\ Len(g) = m + 1 /\ g[m + 1] = t /\ \A k \in 1..m : g[k] = f[k]
  BY <1>2, <1>4
<1>6. PICK p \in 1..n + 1 :
        /\ p = UpperBound(a, s, t)
        /\ \A i \in 1..p - 1 : ~Before(a, t, s[i])
        /\ \A i \in p..n : Before(a, t, s[i])
  <2>1. PICK q : q = UpperBound(a, s, t)
    OBVIOUS
  <2>2. /\ q \in 1..Len(s) + 1
        /\ \A i \in 1..q - 1 : ~Before(a, t, s[i])
        /\ \A i \in q..Len(s) : Before(a, t, s[i])
    BY <2>1, UpperBoundSplits
  <2> QED
    BY <1>1, <2>1, <2>2
<1>7. PICK r : r = InsertAt(s, p, t)
  OBVIOUS
<1>8. /\ r \in Seq(Tokens) /\ Len(r) = n + 1
      /\ \A i \in 1..n + 1 :
           r[i] = IF i < p THEN s[i] ELSE IF i = p THEN t ELSE s[i - 1]
  <2>1. p \in 1..Len(s) + 1
    BY <1>1, <1>6
  <2>2. /\ InsertAt(s, p, t) \in Seq(Tokens) /\ Len(InsertAt(s, p, t)) = Len(s) + 1
        /\ \A i \in 1..Len(s) + 1 :
             InsertAt(s, p, t)[i] = IF i < p THEN s[i] ELSE IF i = p THEN t ELSE s[i - 1]
    BY <2>1, InsertAtElements
  <2> QED
    BY <1>1, <1>7, <2>2
<1>9. Ranked(a, r)
  <2>1. \A i \in DOMAIN s : s[i].id < t.id
    BY <1>1, <1>2, <1>3
  <2>2. Ranked(a, s)
    BY <1>3
  <2> QED
    BY <1>6, <1>7, <2>1, <2>2, InsertionRanked
<1>10. \A i \in 1..n + 1 : \E k \in 1..m + 1 : r[i] = g[k]
  <2> SUFFICES ASSUME NEW i \in 1..n + 1 PROVE \E k \in 1..m + 1 : r[i] = g[k]
    OBVIOUS
  <2>1. r[i] = t \/ \E j \in 1..n : r[i] = s[j]
    <3>1. CASE i < p
      BY <1>6, <1>8, <3>1
    <3>2. CASE i = p
      BY <1>8, <3>2
    <3>3. CASE i > p
      <4>1. i - 1 \in 1..n /\ r[i] = s[i - 1]
        BY <1>6, <1>8, <3>3
      <4> QED
        BY <4>1
    <3> QED
      BY <3>1, <3>2, <3>3, <1>6
  <2>2. CASE r[i] = t
    BY <1>2, <1>5, <2>2
  <2>3. CASE \E j \in 1..n : r[i] = s[j]
    <3>1. PICK k \in 1..m : r[i] = f[k]
      BY <2>3, <1>3
    <3> QED
      BY <3>1, <1>2, <1>5
  <2> QED
    BY <2>1, <2>2, <2>3
<1>11. \A i \in 1..n : \E j \in 1..n + 1 : s[i] = r[j]
  <2> SUFFICES ASSUME NEW i \in 1..n PROVE \E j \in 1..n + 1 : s[i] = r[j]
    OBVIOUS
  <2>1. CASE i < p
    BY <1>8, <2>1
  <2>2. CASE i >= p
    <3>1. i + 1 \in 1..n + 1 /\ r[i + 1] = s[i]
      BY <1>6, <1>8, <2>2
    <3> QED
      BY <3>1
  <2> QED
    BY <1>6, <2>1, <2>2
<1>12. CASE n # a.out_end
  <2>1. InsertedUpTo(a, s, t) = r
    BY <1>1, <1>6, <1>7, <1>12 DEF InsertedUpTo
  <2>2. n = m /\ n < a.out_end
    BY <1>3, <1>12 DEF Smaller
  <2>3. Len(r) = Smaller(a.out_end, Len(g))
    BY <1>5, <1>8, <2>2 DEF Smaller
  <2>4. DOMAIN r = 1..n + 1
    BY <1>8
  <2>5. \A i \in DOMAIN r : Taken(g, r[i])
    BY <1>5, <1>10, <2>4 DEF Taken
  <2>6. PlacedIn(a, r, g)
    <3> SUFFICES ASSUME NEW k \in 1..m + 1 PROVE \E j \in 1..n + 1 : r[j] = g[k]
      BY <1>5, <2>4 DEF PlacedIn, Taken
    <3>1. CASE k = m + 1
      <4>1. r[p] = t
        BY <1>6, <1>8
      <4> QED
        BY <1>5, <1>6, <3>1, <4>1
    <3>2. CASE k \in 1..m
      <4>1. PICK i \in 1..n : s[i] = f[k]
        BY <1>3, <1>12, <3>2
      <4>2. PICK j \in 1..n + 1 : s[i] = r[j]
        BY <1>11
      <4>3. r[j] = g[k]
        BY <1>5, <3>2, <4>1, <4>2
      <4> QED
        BY <4>2, <4>3
    <3>3. k = m + 1 \/ k \in 1..m
      BY <1>2
    <3> QED
      BY ONLY <3>1, <3>2, <3>3
  <2>7. SortedWindow(a, r, g)
    BY <1>9, <2>3, <2>5, <2>6 DEF SortedWindow
  <2> QED
    BY <1>4, <2>1, <2>7
<1>13. CASE n = a.out_end
  <2>1. n \in 0..Len(r) /\ n # 0
    BY <1>8, <1>13
  <2>2. PICK h \in Seq(Tokens) : h = SubSeq(r, 1, n) /\ Len(h) = n /\ \A i \in 1..n : h[i] = r[i]
    BY <1>8, <2>1, HeadOfVector
  <2>3. InsertedUpTo(a, s, t) = h
    BY <1>1, <1>6, <1>7, <1>13, <2>2 DEF InsertedUpTo
  <2>4. DOMAIN h = 1..n /\ DOMAIN r = 1..n + 1
    BY <1>8, <2>2
  <2>5. Len(h) = Smaller(a.out_end, Len(g))
    BY <1>3, <1>5, <1>13, <2>2 DEF Smaller
  <2>6. \A i \in DOMAIN h : Taken(g, h[i])
    <3> SUFFICES ASSUME NEW i \in 1..n PROVE \E k \in 1..m + 1 : g[k] = h[i]
      BY <1>5, <2>4 DEF Taken
    <3>1. i \in 1..n + 1
      OBVIOUS
    <3> QED
      BY <1>10, <2>2, <3>1
  <2>7. Ranked(a, h)
    <3>1. \A i \in 1..n : i \in 1..n + 1
      OBVIOUS
    <3> QED
      BY <1>9, <2>2, <2>4, <3>1 DEF Ranked
  <2>8. \A i \in 1..n : Ahead(a, h[i], r[n + 1])
    <3>1. \A i \in 1..n : i \in 1..n + 1 /\ n + 1 \in 1..n + 1 /\ i < n + 1
      OBVIOUS
    <3> QED
      BY <1>9, <2>2, <2>4, <3>1 DEF Ranked
  <2>9. \A j \in 1..n + 1 : \/ \E i \in 1..n : h[i] = r[j]
                            \/ \A i \in 1..n : Ahead(a, h[i], r[j])
    <3>1. \A j \in 1..n + 1 : j \in 1..n \/ j = n + 1
      OBVIOUS
    <3> QED
      BY <2>2, <2>8, <3>1
  <2>10. ASSUME NEW k \in 1..m, \A i \in 1..n : Ahead(a, s[i], f[k])
         PROVE  \A i \in 1..n : Ahead(a, h[i], f[k])
    <3> SUFFICES ASSUME NEW i \in 1..n PROVE Ahead(a, h[i], f[k])
      OBVIOUS
    <3>1. CASE i < p
      <4>1. h[i] = s[i]
        BY <1>8, <2>2, <3>1
      <4> QED
        BY <2>10, <4>1
    <3>2. CASE i = p
      <4>1. h[i] = t /\ p \in p..n /\ p \in 1..n
        BY <1>8, <2>2, <3>2
      <4>2. Ahead(a, t, s[p]) /\ Ahead(a, s[p], f[k])
        BY <1>6, <2>10, <4>1 DEF Ahead
      <4>3. t \in Tokens /\ s[p] \in Tokens /\ f[k] \in Tokens
        BY <1>1, <1>2, <4>1
      <4> QED
        BY <4>1, <4>2, <4>3, AheadIsOrder
    <3>3. CASE i > p
      <4>1. i - 1 \in 1..n /\ i \in 1..n + 1 /\ ~(i < p) /\ i # p
        BY <1>6, <3>3
      <4>2. h[i] = s[i - 1]
        BY <1>8, <2>2, <4>1
      <4> QED
        BY <2>10, <4>1, <4>2
    <3> QED
      BY <3>1, <3>2, <3>3, <1>6
  <2>11. PlacedIn(a, h, g)
    <3> SUFFICES ASSUME NEW k \in 1..m + 1
                 PROVE  \/ \E i \in 1..n : h[i] = g[k]
                        \/ \A i \in 1..n : Ahead(a, h[i], g[k])
      BY <1>5, <1>13, <2>2, <2>4 DEF PlacedIn, Taken
    <3>1. CASE \E j \in 1..n + 1 : g[k] = r[j]
      BY <2>9, <3>1
    <3>2. CASE ~ \E j \in 1..n + 1 : g[k] = r[j]
      <4>1. k # m + 1
        BY <1>5, <1>6, <1>8, <3>2
      <4>2. k \in 1..m /\ g[k] = f[k]
        BY <1>5, <4>1
      <4>3. ~ \E i \in 1..n : s[i] = f[k]
        BY <1>11, <3>2, <4>2
      <4>4. \A i \in 1..n : Ahead(a, s[i], f[k])
        BY <1>3, <4>2, <4>3
      <4> QED
        BY <2>10, <4>2, <4>4
    <3> QED
      BY <3>1, <3>2
  <2>12. SortedWindow(a, h, g)
    BY <2>5, <2>6, <2>7, <2>11 DEF SortedWindow
  <2> QED
    BY <1>4, <2>3, <2>12
<1> QED
  BY <1>12, <1>13

(* InsertBounded keeps the vector the head of the first occurrences.       *)
LEMMA InsertBoundedWindow ==
  ASSUME BoundedVector(args, output, arrivals), NEW t \in Tokens, NEW f,
         SortedWindow(args, output, f), FirstVector(args.unique, f, arrivals),
         args.same_type => t.unique = t.sort, t.id = Len(arrivals) + 1
  PROVE  SortedWindow(args, InsertBounded(t), FirstWith(args.unique, f, t))
<1>1. /\ output \in Seq(Tokens) /\ arrivals \in Seq(Tokens) /\ f \in Seq(Tokens)
      /\ args.sort_reverse \in BOOLEAN /\ args.out_end \in Nat \ {0} /\ InOrder(args, output)
      /\ args.unique => args.same_type
      /\ args.unique \in BOOLEAN
  BY DEF BoundedVector, FirstVector
<1>2. DOMAIN output = 1..Len(output) /\ Len(output) \in Nat
  BY <1>1, LenProperties
<1> DEFINE p == UpperBound(args, output, t)
           dup == args.unique /\ p # 1 /\ SameUnique(output[p - 1], t)
<1>3. InsertBounded(t) = IF dup THEN output ELSE InsertedUpTo(args, output, t)
  BY DEF InsertBounded, AtInsertion, AtLimit, WithoutExcess, InsertedUpTo
<1>4. p \in 1..Len(output) + 1
  BY <1>1, UpperBoundSplits
<1>5. CASE dup
  <2>1. p - 1 \in DOMAIN output
    BY <1>2, <1>4, <1>5
  <2>2. PICK k \in DOMAIN f : f[k] = output[p - 1]
    BY <2>1 DEF SortedWindow, Taken
  <2>3. ClassIn(f, t)
    BY <1>5, <2>2 DEF ClassIn, SameUnique
  <2> QED
    BY <1>3, <1>5, <2>3 DEF FirstWith
<1>6. CASE ~dup /\ args.unique /\ ClassIn(f, t)
  <2>1. PICK k \in DOMAIN f : f[k].unique = t.unique
    BY <1>6 DEF ClassIn
  <2>2. f[k].sort = t.sort
    <3>1. f[k].id \in DOMAIN arrivals /\ f[k] = arrivals[f[k].id]
      BY DEF FirstVector
    <3>2. arrivals[f[k].id].unique = arrivals[f[k].id].sort
      BY <1>1, <1>6, <3>1 DEF BoundedVector, OneClass
    <3> QED
      BY <1>1, <1>6, <2>1, <3>1, <3>2
  <2>3. \A i \in 1..Len(output) : ~SameUnique(output[i], t)
    <3>1. UpperBound(args, output, t) # 1 =>
            ~SameUnique(output[UpperBound(args, output, t) - 1], t)
      BY <1>6
    <3>2. OneClass(args, output) /\ args.same_type /\ t.unique = t.sort
      BY <1>1, <1>6 DEF BoundedVector
    <3> HIDE DEF p
    <3> QED
      BY <1>1, <3>1, <3>2, InsertionOfOther
  <2>4. PlacedIn(args, output, f) /\ args.out_end \in Nat
    BY <1>1 DEF SortedWindow
  <2>5. Len(output) = args.out_end
    BY <1>1, <2>1, <2>2, <2>3, <2>4, LateDuplicateLost
  <2>6. UpperBound(args, output, t) = Len(output) + 1
    BY <1>1, <2>1, <2>2, <2>3, <2>4, LateDuplicateLost
  <2>7. SubSeq(InsertAt(output, Len(output) + 1, t), 1, Len(output)) = output
    BY <1>1, InsertionBeyondLost
  <2>8. InsertedUpTo(args, output, t) = output
    BY <2>5, <2>6, <2>7 DEF InsertedUpTo
  <2>9. InsertBounded(t) = output /\ FirstWith(args.unique, f, t) = f
    BY <1>3, <1>6, <2>8 DEF FirstWith
  <2> QED
    BY <2>9
<1>7. CASE ~dup /\ ~(args.unique /\ ClassIn(f, t))
  <2>1. \A i \in DOMAIN f : f[i].id < t.id
    <3>1. \A i \in DOMAIN f : f[i].id \in 1..Len(arrivals)
      BY <1>1 DEF FirstVector
    <3> QED
      BY <1>1, <3>1
  <2>2. SortedWindow(args, InsertedUpTo(args, output, t), Append(f, t))
    BY <1>1, <2>1, NewFirstPlaced
  <2> QED
    BY <1>3, <1>7, <2>2 DEF FirstWith
<1> QED
  BY <1>5, <1>6, <1>7

-------------------------------------------------------------------------------
(* The stable sort has one result.                                         *)

Wins(a, s, i, j) == \/ Before(a, s[i], s[j])
                    \/ /\ ~Before(a, s[j], s[i])
                       /\ a.sort_stable => i < j

(* f says where the n elements were that a sort puts first.                *)
Places(a, s, n, f) ==
  /\ f \in [1..n -> DOMAIN s]
  /\ \A i, j \in 1..n : i # j => f[i] # f[j]
  /\ \A i, j \in 1..n : i < j => Wins(a, s, f[i], f[j])
  /\ \A i \in 1..n, k \in DOMAIN s : k \notin Range(f) => Wins(a, s, f[i], k)

AllPlaces(a, s, n) == {f \in [1..n -> DOMAIN s] : Places(a, s, n, f)}

LEMMA ArrangementsArePlaces ==
  ASSUME NEW a, NEW s, NEW n \in Nat
  PROVE  Arrangements(a, s, n) = {[i \in 1..n |-> s[f[i]]] : f \in AllPlaces(a, s, n)}
<1>1. \A f \in [1..n -> DOMAIN s] :
        f \in Injection(1..n, DOMAIN s) <=> \A i, j \in 1..n : i # j => f[i] # f[j]
  BY DEF Injection, IsInjective
<1>2. Injection(1..n, DOMAIN s) \subseteq [1..n -> DOMAIN s]
  BY DEF Injection
<1>3. {f \in Injection(1..n, DOMAIN s) :
         /\ \A i, j \in 1..n : i < j => Wins(a, s, f[i], f[j])
         /\ \A i \in 1..n, k \in DOMAIN s \ Range(f) : Wins(a, s, f[i], k)} =
      AllPlaces(a, s, n)
  BY <1>1, <1>2 DEF Places, AllPlaces
<1> QED
  BY <1>3 DEF Arrangements, Wins

LEMMA PlacesUnique ==
  ASSUME NEW a, NEW s, NEW n \in Nat, NEW f, NEW g, Places(a, s, n, f), Places(a, s, n, g),
         \A i, j \in DOMAIN s : i # j => ~(Wins(a, s, i, j) /\ Wins(a, s, j, i))
  PROVE  f = g
<1>1. /\ f \in [1..n -> DOMAIN s] /\ g \in [1..n -> DOMAIN s]
      /\ \A i, j \in 1..n : i # j => f[i] # f[j] /\ g[i] # g[j]
      /\ \A i, j \in 1..n : i < j => Wins(a, s, f[i], f[j]) /\ Wins(a, s, g[i], g[j])
      /\ \A i \in 1..n, k \in DOMAIN s : k \notin Range(f) => Wins(a, s, f[i], k)
      /\ \A i \in 1..n, k \in DOMAIN s : k \notin Range(g) => Wins(a, s, g[i], k)
  BY DEF Places
<1>2. SUFFICES ASSUME f # g PROVE FALSE
  OBVIOUS
<1> DEFINE Differ == {i \in 1..n : f[i] # g[i]}
<1>3. Differ # {}
  BY <1>1, <1>2
<1>4. PICK m \in Differ : \A i \in Differ : m <= i
  <2>1. Differ \subseteq Nat
    OBVIOUS
  <2> HIDE DEF Differ
  <2> QED
    BY <1>3, <2>1, LeastElement
<1>5. m \in 1..n /\ f[m] # g[m] /\ \A i \in 1..m - 1 : f[i] = g[i]
  <2>1. \A i \in 1..m - 1 : i \in 1..n /\ i \notin Differ
    BY <1>4
  <2> QED
    BY <1>4, <2>1
<1> HIDE DEF Differ
<1>6. Wins(a, s, g[m], f[m])
  <2>1. CASE f[m] \notin Range(g)
    BY <1>1, <1>5, <2>1
  <2>2. CASE f[m] \in Range(g)
    <3>1. PICK j \in 1..n : g[j] = f[m]
      BY <1>1, <2>2 DEF Range
    <3>2. ~(j \in 1..m - 1)
      BY <1>1, <1>5, <3>1
    <3>3. m < j
      BY <1>5, <3>1, <3>2
    <3> QED
      BY <1>1, <1>5, <3>1, <3>3
  <2> QED
    BY <2>1, <2>2
<1>7. Wins(a, s, f[m], g[m])
  <2>1. CASE g[m] \notin Range(f)
    BY <1>1, <1>5, <2>1
  <2>2. CASE g[m] \in Range(f)
    <3>1. PICK j \in 1..n : f[j] = g[m]
      BY <1>1, <2>2 DEF Range
    <3>2. ~(j \in 1..m - 1)
      BY <1>1, <1>5, <3>1
    <3>3. m < j
      BY <1>5, <3>1, <3>2
    <3> QED
      BY <1>1, <1>5, <3>1, <3>3
  <2> QED
    BY <2>1, <2>2
<1> QED
  BY <1>1, <1>5, <1>6, <1>7

(* b sorts as a does, and stably.                                          *)
Stabilised(a, b) == b.sort_stable = TRUE /\ b.sort_reverse = a.sort_reverse

InTime(f) == \A k, l \in DOMAIN f : k < l => f[k].id < f[l].id

LEMMA WindowIsArrangement ==
  ASSUME NEW a, NEW b, Stabilised(a, b), NEW s \in Seq(Tokens), NEW f \in Seq(Tokens),
         SortedWindow(a, s, f), InTime(f)
  PROVE  Arrangements(b, f, Len(s)) = {s}
<1> USE DEF Stabilised, InTime
<1>1. PICK n \in Nat : n = Len(s) /\ DOMAIN s = 1..n
  BY LenProperties
<1>2. PICK m \in Nat : m = Len(f) /\ DOMAIN f = 1..m
  BY LenProperties
<1>3. /\ \A i \in 1..n : \E k \in 1..m : s[i] = f[k]
      /\ \A i, j \in 1..n : i < j => Ahead(a, s[i], s[j])
      /\ \A k \in 1..m : \/ \E i \in 1..n : s[i] = f[k]
                         \/ \A i \in 1..n : Ahead(a, s[i], f[k])
  <2>1. \A i \in 1..n : \E k \in 1..m : s[i] = f[k]
    BY <1>1, <1>2 DEF SortedWindow, Taken
  <2>2. \A i, j \in 1..n : i < j => Ahead(a, s[i], s[j])
    BY <1>1 DEF SortedWindow, Ranked
  <2> QED
    BY <1>1, <1>2, <2>1, <2>2 DEF SortedWindow, PlacedIn, Taken
<1>4. \A i, j \in 1..m : i # j => (Wins(b, f, i, j) <=> Ahead(a, f[i], f[j]))
  <2> SUFFICES ASSUME NEW i \in 1..m, NEW j \in 1..m, i # j
               PROVE  Wins(b, f, i, j) <=> Ahead(a, f[i], f[j])
    OBVIOUS
  <2>1. f[i].id \in Int /\ f[j].id \in Int
    BY <1>2, TokenFields
  <2>2. i < j <=> f[i].id < f[j].id
    <3>1. (i < j => f[i].id < f[j].id) /\ (j < i => f[j].id < f[i].id)
      BY <1>2
    <3>2. i < j \/ j < i
      OBVIOUS
    <3> QED
      BY <2>1, <3>1, <3>2
  <2> QED
    BY <2>2 DEF Wins, Ahead, Before
<1>5. \A i, j \in 1..m : i # j => ~(Wins(b, f, i, j) /\ Wins(b, f, j, i))
  <2>1. \A i \in 1..m : f[i] \in Tokens
    BY <1>2
  <2> QED
    BY <1>4, <2>1, AheadIsOrder
<1> DEFINE h == [i \in 1..n |-> CHOOSE k \in 1..m : s[i] = f[k]]
<1>6. h \in [1..n -> 1..m] /\ \A i \in 1..n : s[i] = f[h[i]]
  BY <1>3
<1> HIDE DEF h
<1>7. Places(b, f, n, h)
  <2>1. \A i, j \in 1..n : i < j => h[i] # h[j]
    <3>1. \A i \in 1..n : s[i] \in Tokens
      BY <1>1
    <3>2. \A i, j \in 1..n : i < j => s[i] # s[j]
      BY <1>3, <3>1, AheadIsOrder
    <3> SUFFICES ASSUME NEW i \in 1..n, NEW j \in 1..n, i < j PROVE h[i] # h[j]
      OBVIOUS
    <3>3. s[i] # s[j] /\ s[i] = f[h[i]] /\ s[j] = f[h[j]]
      BY <1>6, <3>2
    <3> QED
      BY <3>3
  <2>2. \A i, j \in 1..n : i # j => h[i] # h[j]
    <3>1. \A i, j \in 1..n : i # j => i < j \/ j < i
      OBVIOUS
    <3> QED
      BY <2>1, <3>1
  <2>3. \A i, j \in 1..n : i < j => Wins(b, f, h[i], h[j])
    <3> SUFFICES ASSUME NEW i \in 1..n, NEW j \in 1..n, i < j PROVE Wins(b, f, h[i], h[j])
      OBVIOUS
    <3>1. h[i] \in 1..m /\ h[j] \in 1..m /\ h[i] # h[j]
      BY <1>6, <2>1
    <3>2. Ahead(a, f[h[i]], f[h[j]])
      BY <1>3, <1>6
    <3> QED
      BY <1>4, <3>1, <3>2
  <2>4. \A i \in 1..n, k \in 1..m : k \notin Range(h) => Wins(b, f, h[i], k)
    <3> SUFFICES ASSUME NEW i \in 1..n, NEW k \in 1..m, k \notin Range(h)
                 PROVE  Wins(b, f, h[i], k)
      OBVIOUS
    <3>1. \A j \in 1..n : h[j] # k /\ h[j] \in 1..m
      BY <1>6 DEF Range
    <3>2. \A j \in 1..n : s[j] # f[k]
      <4>1. \A l \in 1..m : l # k => f[l].id # f[k].id
        <5>1. \A l \in 1..m : f[l].id \in Int
          BY <1>2, TokenFields
        <5>2. \A l \in 1..m : l # k => l < k \/ k < l
          BY <1>2
        <5> QED
          BY <1>2, <5>1, <5>2
      <4> QED
        BY <1>6, <3>1, <4>1
    <3>3. Ahead(a, f[h[i]], f[k])
      BY <1>3, <1>6, <3>2
    <3> QED
      BY <1>4, <3>1, <3>3
  <2> QED
    BY <1>2, <1>6, <2>2, <2>3, <2>4 DEF Places
<1>8. s = [i \in 1..n |-> f[h[i]]]
  <2>1. s = [i \in 1..n |-> s[i]]
    BY <1>1
  <2> QED
    BY <1>6, <2>1
<1>9. \A g : Places(b, f, n, g) => g = h
  <2>1. \A i, j \in DOMAIN f : i # j => ~(Wins(b, f, i, j) /\ Wins(b, f, j, i))
    BY <1>2, <1>5
  <2> QED
    BY <1>7, <2>1, PlacesUnique
<1>10. AllPlaces(b, f, n) = {h}
  BY <1>2, <1>6, <1>7, <1>9 DEF AllPlaces
<1>11. Arrangements(b, f, n) = {[i \in 1..n |-> f[g[i]]] : g \in AllPlaces(b, f, n)}
  BY ArrangementsArePlaces
<1> QED
  BY <1>1, <1>8, <1>10, <1>11

-------------------------------------------------------------------------------
(* What has been kept while reading.                                       *)

(* Unsorted, the vector is the head of what arrived, or for --tail its end. *)
UnsortedWindow(a, s, all) ==
  LET kept == Smaller(a.out_end, Len(all))
  IN s = IF a.tail THEN SubSeq(all, Len(all) - kept + 1, Len(all)) ELSE SubSeq(all, 1, kept)

(* Direct output has counted the first occurrences, and would have ended   *)
(* with the last one it wants.                                             *)
Forwarded ==
  /\ stream.out_count = Len(First)
  /\ args.unique => output = First
  /\ args.out_end # NoLimit => Len(First) < args.out_end

Window ==
  /\ FirstVector(args.unique, First, arrivals)
  /\ phase = "reading" =>
       /\ IsDirectOutput(args) => Forwarded
       /\ MemIsBounded(args) /\ ~args.sort /\ ~IsDirectOutput(args) =>
            UnsortedWindow(args, output, arrivals)
       /\ MemIsBounded(args) /\ args.sort => SortedWindow(args, output, First)

LEMMA EmptySpan == ASSUME NEW s, s = <<>> PROVE SubSeq(s, 1, 0) = <<>>
  OBVIOUS

LEMMA InitWindow == Init => Window
<1> SUFFICES ASSUME Init PROVE Window
  OBVIOUS
<1>1. Inv
  BY InitInv
<1>2. arrivals = <<>> /\ output = <<>> /\ stream = NewStream
  BY DEF Init
<1>3. First = <<>>
  BY <1>2, FirstNone DEF First
<1>4. /\ <<>> \in Seq(Tokens) /\ DOMAIN <<>> = {} /\ Len(<<>>) = 0
  OBVIOUS
<1>5. FirstVector(args.unique, First, arrivals)
  BY <1>2, <1>3, <1>4 DEF FirstVector
<1> SUFFICES ASSUME phase = "reading"
             PROVE  /\ IsDirectOutput(args) => Forwarded
                    /\ MemIsBounded(args) /\ ~args.sort /\ ~IsDirectOutput(args) =>
                         UnsortedWindow(args, output, arrivals)
                    /\ MemIsBounded(args) /\ args.sort => SortedWindow(args, output, First)
  BY <1>5 DEF Window
<1>6. args.out_end # 0 /\ args.out_end \in Limits
  BY <1>1, ArgsTyped DEF Inv, ArgsType
<1>7. args.out_end # NoLimit => args.out_end \in Nat \ {0}
  BY <1>6 DEF Limits, NoLimit
<1>8. Forwarded
  BY <1>2, <1>3, <1>4, <1>7 DEF Forwarded, NewStream
<1>9. MemIsBounded(args) => Smaller(args.out_end, 0) = 0
  BY <1>7 DEF MemIsBounded, Smaller
<1>10. MemIsBounded(args) => UnsortedWindow(args, output, arrivals)
  <2>1. SubSeq(<<>>, 1, 0) = <<>> /\ SubSeq(<<>>, 0 - 0 + 1, 0) = <<>>
    OBVIOUS
  <2> QED
    BY <1>2, <1>4, <1>9, <2>1 DEF UnsortedWindow
<1>11. MemIsBounded(args) => SortedWindow(args, output, First)
  BY <1>2, <1>3, <1>4, <1>9 DEF SortedWindow, Taken, Ranked, PlacedIn
<1> QED
  BY <1>8, <1>10, <1>11

LEMMA UntouchedWindow ==
  ASSUME Window, UNCHANGED <<args, arrivals>>,
         phase' = "reading" =>
           UNCHANGED <<phase, output>> /\ stream'.out_count = stream.out_count
  PROVE  Window'
<1>1. First' = First
  BY DEF First
<1>2. FirstVector(args'.unique, First', arrivals')
  BY <1>1 DEF Window
<1>3. CASE phase' = "reading"
  <2>1. /\ phase = "reading" /\ output' = output /\ args' = args
        /\ stream'.out_count = stream.out_count /\ arrivals' = arrivals
    BY <1>3
  <2>2. IsDirectOutput(args) => Forwarded'
    BY <1>1, <2>1 DEF Window, Forwarded
  <2> QED
    BY <1>1, <1>2, <2>1, <2>2 DEF Window
<1>4. CASE phase' # "reading"
  BY <1>2, <1>4 DEF Window
<1> QED
  BY <1>3, <1>4

LEMMA UniqueGiven == TypeOK => args.unique = options.unique
  BY DEF TypeOK, Compile

(* --out without --sort ends the input when its last token is there.       *)
LEMMA SettledIs ==
  ASSUME TypeOK, NEW s
  PROVE  Promise!Settled(options, s) <=>
           /\ ~args.sort /\ ~args.tail /\ args.out_end # NoLimit
           /\ Len(FirstOf(args.unique, s)) >= args.out_end
<1>1. /\ args.sort = options.sort /\ args.unique = options.unique
      /\ args.tail <=> options.tail_end # NoLimit
      /\ ~args.tail => args.out_end = options.out_end
  BY DEF TypeOK, Compile
<1>2. Promise!FirstOccurrences(options, s) = FirstOf(args.unique, s)
  BY <1>1, FirstIs
<1> QED
  BY <1>1, <1>2 DEF Promise!Settled

LEMMA DirectIsUnbounded ==
  ASSUME TypeOK, IsDirectOutput(args)
  PROVE  ~args.sort /\ ~args.tail /\ (args.unique => ~MemIsBounded(args))
  BY DEF IsDirectOutput, MemIsBounded

LEMMA CountWritten ==
  ASSUME NEW s, s \in Streams, NEW a, NEW n
  PROVE  WriteOutput(s, a, n).out_count = s.out_count + 1
  BY DEF WriteOutput, WriteOutputNoTruncate, Streams

LEMMA CountOfFragment ==
  ASSUME NEW s, s \in Streams, NEW a, NEW n
  PROVE  /\ WriteOutputFragment(s, a, n).out_count = s.out_count
         /\ WriteBetween(s).out_count = s.out_count
  BY DEF WriteOutputFragment, WriteBetween, Streams

(* What ForwardToken has done, and whether it ends the input.              *)
LEMMA ForwardTokenWindow ==
  ASSUME Inv, Traced, Window, NEW k \in Keys, NEW u \in Keys, ForwardToken(Arrival(k, u))
  PROVE  /\ FirstVector(args.unique, First, arrivals)'
         /\ phase' = "reading" => Forwarded'
         /\ phase' # "reading" <=> Promise!Settled(options, arrivals')
<1> DEFINE t == Arrival(k, u)
<1>1. /\ t \in Tokens /\ t.id = Len(arrivals) + 1 /\ t.id \in Nat
  BY ArrivalTyped, TokenFields DEF Inv, Arrival
<1> HIDE DEF t
<1>2. /\ IsDirectOutput(args) /\ phase = "reading"
      /\ arrivals' = Append(arrivals, t) /\ args' = args /\ options' = options
      /\ output' = IF TokensNotStored(args) THEN output ELSE CheckUniqueThenAppend(t)
      /\ IF IsDuplicate(t)
         THEN stream' = stream /\ phase' = phase
         ELSE IF OutputComplete(WriteOutput(stream, args, t.id))
         THEN phase' = "done"
         ELSE stream' = WriteOutput(stream, args, t.id) /\ phase' = phase
  BY DEF ForwardToken, Arrive, Reading, t
<1>3. /\ TypeOK /\ stream \in Streams /\ arrivals \in Seq(Tokens) /\ Numbered(arrivals)
      /\ args.unique \in BOOLEAN /\ FirstVector(args.unique, First, arrivals)
  BY ArgsTyped DEF Inv, TypeOK, Traced, Window, ArgsType
<1>4. /\ stream.out_count = Len(First) /\ First \in Seq(Tokens) /\ Len(First) \in Nat
      /\ args.unique => output = First
      /\ args.out_end # NoLimit => Len(First) < args.out_end
  BY <1>2, <1>3 DEF Window, Forwarded, FirstVector
<1>5. IsDuplicate(t) <=> args.unique /\ ClassIn(First, t)
  BY <1>4 DEF IsDuplicate, ClassIn, SameUnique
<1>6. First' = FirstWith(args.unique, First, t)
  BY <1>1, <1>2, <1>3, FirstAfterArrival
<1>7. FirstVector(args.unique, First, arrivals)'
  BY <1>1, <1>2, <1>3, FirstVectorThen
<1>8. First' = FirstOf(args.unique, arrivals')
  BY <1>2 DEF First
<1>9. args.unique => output' = First'
  <2> SUFFICES ASSUME args.unique PROVE output' = First'
    OBVIOUS
  <2>1. ~TokensNotStored(args) /\ ~MemIsBounded(args)
    BY <1>2, <1>3, DirectIsUnbounded DEF TokensNotStored
  <2>2. output' = IF IsDuplicate(t) THEN output ELSE Append(output, t)
    BY <1>2, <2>1 DEF CheckUniqueThenAppend, AppendUnbounded
  <2> QED
    BY <1>4, <1>5, <1>6, <2>2 DEF FirstWith
<1>10. Promise!Settled(options, arrivals') <=>
         args.out_end # NoLimit /\ Len(First') >= args.out_end
  <2>1. ~args.sort /\ ~args.tail
    BY <1>2 DEF IsDirectOutput
  <2> QED
    BY <1>3, <1>8, <2>1, SettledIs
<1>11. args.out_end \in Nat \/ args.out_end = -1
  BY <1>3, ArgsTyped DEF ArgsType, Limits, NoLimit
<1>12. CASE IsDuplicate(t)
  <2>1. First' = First /\ stream' = stream /\ phase' = "reading"
    BY <1>2, <1>5, <1>6, <1>12 DEF FirstWith
  <2>2. Forwarded'
    BY <1>2, <1>4, <1>9, <2>1 DEF Forwarded
  <2>3. ~Promise!Settled(options, arrivals')
    BY <1>4, <1>10, <1>11, <2>1 DEF NoLimit
  <2> QED
    BY <1>7, <2>1, <2>2, <2>3
<1>13. CASE ~IsDuplicate(t)
  <2>1. First' = Append(First, t)
    BY <1>5, <1>6, <1>13 DEF FirstWith
  <2>2. Len(First') = Len(First) + 1
    BY <1>1, <1>4, <2>1
  <2>3. WriteOutput(stream, args, t.id).out_count = Len(First')
    BY <1>3, <1>4, <2>2, CountWritten
  <2>4. OutputComplete(WriteOutput(stream, args, t.id)) <=> Promise!Settled(options, arrivals')
    BY <1>4, <1>10, <1>11, <2>2, <2>3 DEF OutputComplete, NoLimit
  <2>5. phase' # "reading" <=> Promise!Settled(options, arrivals')
    BY <1>2, <1>13, <2>4
  <2>6. ASSUME phase' = "reading" PROVE Forwarded'
    <3>1. stream' = WriteOutput(stream, args, t.id)
      BY <1>2, <1>13, <2>6
    <3>2. args.out_end # NoLimit => Len(First') < args.out_end
      BY <1>4, <1>10, <1>11, <2>2, <2>5, <2>6 DEF NoLimit
    <3> QED
      BY <1>2, <1>9, <2>3, <3>1, <3>2 DEF Forwarded
  <2> QED
    BY <1>7, <2>5, <2>6
<1> QED
  BY <1>12, <1>13

(* ShiftBounded keeps the vector the head, or the end, of what arrived.    *)
LEMMA SpanOfAll ==
  ASSUME NEW s \in Seq(Tokens), NEW m \in 0..Len(s)
  PROVE  /\ SubSeq(s, Len(s) - m + 1, Len(s)) \in Seq(Tokens)
         /\ Len(SubSeq(s, Len(s) - m + 1, Len(s))) = m
         /\ \A i \in 1..m : SubSeq(s, Len(s) - m + 1, Len(s))[i] = s[Len(s) - m + i]
<1>1. PICK n \in Nat : n = Len(s) /\ DOMAIN s = 1..n
  BY LenProperties
<1>2. PICK b \in 1..n + 1 : b = n - m + 1
  <2>1. n - m + 1 \in 1..n + 1
    BY <1>1
  <2> QED
    BY <2>1
<1>3. PICK r : r = SubSeq(s, b, n)
  OBVIOUS
<1>4. r \in Seq(Tokens)
  BY <1>1, <1>2, <1>3, SubSeqProperties
<1>5. Len(r) = m /\ \A i \in 1..m : r[i] = s[b + i - 1]
  BY <1>1, <1>2, <1>3, SubSeqProperties
<1>6. \A i \in 1..m : b + i - 1 = n - m + i
  BY <1>1, <1>2
<1> QED
  BY <1>1, <1>2, <1>3, <1>4, <1>5, <1>6

LEMMA WholeSpan ==
  ASSUME NEW s \in Seq(Tokens)
  PROVE  SubSeq(s, 1, Len(s)) = s
<1>1. Len(s) \in 0..Len(s)
  BY LenProperties
<1>2. PICK r \in Seq(Tokens) :
        r = SubSeq(s, 1, Len(s)) /\ Len(r) = Len(s) /\ \A i \in 1..Len(s) : r[i] = s[i]
  BY <1>1, HeadOfVector
<1>3. r = s
  BY <1>2, SeqEqual
<1> QED
  BY <1>2, <1>3

Shifted(a, s, t) ==
  IF a.tail /\ Len(s) = a.out_end THEN Append(Tail(s), t) ELSE Append(s, t)

LEMMA ShiftWindow ==
  ASSUME NEW a, NEW s, NEW all \in Seq(Tokens), NEW t \in Tokens,
         a.out_end \in Nat \ {0}, UnsortedWindow(a, s, all),
         ~a.tail => Len(s) < a.out_end
  PROVE  UnsortedWindow(a, Shifted(a, s, t), Append(all, t))
<1>1. PICK n \in Nat : n = Len(all) /\ DOMAIN all = 1..n
  BY LenProperties
<1>2. PICK m \in 0..n : m = Smaller(a.out_end, n)
  BY <1>1 DEF Smaller
<1>0. n \in Nat /\ m \in 0..n
  BY <1>2
<1>3. PICK more \in Seq(Tokens) : more = Append(all, t)
  BY AppendProperties
<1>4. /\ DOMAIN more = 1..n + 1 /\ Len(more) = n + 1 /\ more[n + 1] = t
      /\ \A i \in 1..n : more[i] = all[i]
  BY <1>1, <1>3
<1>5. s = IF a.tail THEN SubSeq(all, n - m + 1, n) ELSE SubSeq(all, 1, m)
  BY <1>1, <1>2 DEF UnsortedWindow
<1>6. Len(s) = m /\ s \in Seq(Tokens)
  <2>1. CASE a.tail
    BY <1>1, <1>5, <2>1, SpanOfAll
  <2>2. CASE ~a.tail
    BY <1>1, <1>5, <2>2, HeadOfVector
  <2> QED
    BY <2>1, <2>2
<1>7. CASE m # a.out_end
  <2>1. m = n /\ n < a.out_end
    BY <1>1, <1>2, <1>7 DEF Smaller
  <2>2. n - m + 1 = 1
    BY <2>1
  <2>3. s = all
    BY <1>1, <1>5, <2>1, <2>2, WholeSpan
  <2>4. Shifted(a, s, t) = more
    BY <1>3, <1>6, <1>7, <2>3 DEF Shifted
  <2>5. Smaller(a.out_end, n + 1) = n + 1 /\ (n + 1) - (n + 1) + 1 = 1
    BY <1>1, <2>1 DEF Smaller
  <2>6. SubSeq(more, 1, n + 1) = more
    BY <1>4, WholeSpan
  <2>7. UnsortedWindow(a, more, more)
    BY <1>4, <2>5, <2>6 DEF UnsortedWindow
  <2> QED
    BY <1>3, <2>4, <2>7
<1>8. CASE m = a.out_end
  <2>1. a.tail /\ m # 0
    BY <1>6, <1>8
  <2>2. Smaller(a.out_end, n + 1) = m
    BY <1>1, <1>2, <1>8 DEF Smaller
  <2>3. PICK d \in Seq(Tokens) :
          d = Tail(s) /\ Len(d) = m - 1 /\ \A i \in 1..m - 1 : d[i] = s[i + 1]
    <3>1. s # <<>>
      BY <1>6, <2>1
    <3>2. /\ Tail(s) \in Seq(Tokens) /\ Len(Tail(s)) = Len(s) - 1
          /\ \A i \in 1..Len(s) - 1 : Tail(s)[i] = s[i + 1]
      <4>1. s \in Seq(Tokens)
        BY <1>6
      <4> QED
        BY ONLY <3>1, <4>1, HeadTailProperties
    <3> QED
      BY <1>6, <3>2
  <2>4. PICK r \in Seq(Tokens) : r = Append(d, t)
    BY <2>3, AppendProperties
  <2>5. Len(r) = m /\ r[m] = t /\ \A i \in 1..m - 1 : r[i] = d[i]
    <3>1. m - 1 \in Nat /\ m - 1 + 1 = m
      BY <1>2, <2>1
    <3>2. /\ Len(r) = Len(d) + 1 /\ r[Len(d) + 1] = t /\ \A i \in 1..Len(d) : r[i] = d[i]
      BY <2>3, <2>4, AppendProperties
    <3> QED
      BY <2>3, <3>1, <3>2
  <2>6. \A i \in 1..m : s[i] = all[n - m + i]
    BY <1>1, <1>5, <2>1, SpanOfAll
  <2>7. m \in 0..Len(more)
    BY <1>1, <1>2, <1>4
  <2>8. PICK w \in Seq(Tokens) :
          w = SubSeq(more, Len(more) - m + 1, Len(more)) /\ Len(w) = m
          /\ \A i \in 1..m : w[i] = more[Len(more) - m + i]
    BY <2>7, SpanOfAll
  <2>9. \A i \in 1..m : r[i] = w[i]
    <3> SUFFICES ASSUME NEW i \in 1..m PROVE r[i] = w[i]
      OBVIOUS
    <3>1. CASE i = m
      <4>1. n + 1 - m + m = n + 1 /\ Len(more) = n + 1
        BY ONLY <1>0, <1>4
      <4> QED
        BY <1>4, <2>5, <2>8, <3>1, <4>1
    <3>2. CASE i # m
      <4>1. i \in 1..m - 1 /\ i + 1 \in 1..m /\ n - m + (i + 1) = n + 1 - m + i
        BY <1>1, <1>2, <3>2
      <4>2. n + 1 - m + i \in 1..n
        BY ONLY <1>0, <4>1
      <4>3. r[i] = all[n + 1 - m + i]
        BY <2>3, <2>5, <2>6, <4>1
      <4> QED
        BY <1>4, <2>8, <4>2, <4>3
    <3> QED
      BY <3>1, <3>2
  <2>10. r = w
    BY <2>5, <2>8, <2>9, SeqEqual
  <2>11. Shifted(a, s, t) = r
    BY <1>6, <1>8, <2>1, <2>3, <2>4 DEF Shifted
  <2>12. UnsortedWindow(a, r, more)
    <3>1. Smaller(a.out_end, Len(more)) = m
      BY <1>4, <2>2
    <3>2. r = SubSeq(more, Len(more) - m + 1, Len(more))
      BY <2>8, <2>10
    <3> QED
      BY ONLY <2>1, <3>1, <3>2 DEF UnsortedWindow
  <2> QED
    BY <1>3, <2>11, <2>12
<1> QED
  BY <1>7, <1>8

(* What StoreToken has done, and whether it ends the input.                *)
LEMMA StoreTokenWindow ==
  ASSUME Inv, Traced, Window, NEW k \in Keys, NEW u \in Keys, StoreToken(Arrival(k, u))
  PROVE  /\ Window'
         /\ phase' # "reading" <=> Promise!Settled(options, arrivals') /\ MemIsBounded(args)
<1> DEFINE t == Arrival(k, u)
<1>1. /\ t \in Tokens /\ t.id = Len(arrivals) + 1 /\ (args.same_type => t.unique = t.sort)
  BY ArrivalTyped DEF Inv, Arrival
<1> HIDE DEF t
<1>2. /\ ~IsDirectOutput(args) /\ phase = "reading"
      /\ arrivals' = Append(arrivals, t) /\ args' = args /\ options' = options
      /\ output' = CheckUniqueThenAppend(t)
      /\ phase' = IF /\ MemIsBounded(args) /\ ~args.sort /\ ~args.tail
                     /\ Len(output') = args.out_end
                  THEN "finalising" ELSE phase
  BY DEF StoreToken, Arrive, Reading, t
<1>3. /\ TypeOK /\ arrivals \in Seq(Tokens) /\ Numbered(arrivals)
      /\ args.unique \in BOOLEAN /\ FirstVector(args.unique, First, arrivals)
  BY ArgsTyped DEF Inv, TypeOK, Traced, Window, ArgsType
<1>4. First' = FirstWith(args.unique, First, t)
  BY <1>1, <1>2, <1>3, FirstAfterArrival
<1>5. FirstVector(args.unique, First, arrivals)'
  BY <1>1, <1>2, <1>3, FirstVectorThen
<1>6. First' = FirstOf(args.unique, arrivals')
  BY <1>2 DEF First
<1>7. Promise!Settled(options, arrivals') <=>
        /\ ~args.sort /\ ~args.tail /\ args.out_end # NoLimit
        /\ Len(First') >= args.out_end
  BY <1>3, <1>6, SettledIs
<1>8. CASE MemIsBounded(args) /\ args.sort
  <2>1. BoundedVector(args, output, arrivals) /\ SortedWindow(args, output, First)
    BY <1>2, <1>8 DEF Inv, SortedInMemory, Window
  <2>2. SortedWindow(args, InsertBounded(t), FirstWith(args.unique, First, t))
    BY <1>1, <1>3, <2>1, InsertBoundedWindow
  <2>3. output' = InsertBounded(t)
    BY <1>2, <1>8 DEF CheckUniqueThenAppend
  <2>4. SortedWindow(args', output', First')
    BY <1>2, <1>4, <2>2, <2>3
  <2>5. phase' = "reading" /\ ~Promise!Settled(options, arrivals')
    BY <1>2, <1>7, <1>8
  <2>6. Window'
    BY <1>2, <1>5, <1>8, <2>4 DEF Window
  <2> QED
    BY <2>5, <2>6
<1>9. CASE MemIsBounded(args) /\ ~args.sort
  <2>1. /\ ~args.unique /\ args.out_end \in Nat \ {0}
        /\ Len(output) \in Nat /\ Len(output) <= args.out_end
        /\ ~args.tail => Len(output) < args.out_end
    <3>1. ~args.unique /\ args.out_end \in Nat /\ args.out_end # 0
      BY <1>2, <1>3, <1>9, MemIsBoundedFacts DEF Inv
    <3>2. output \in Seq(Tokens) /\ Len(output) <= args.out_end
      BY <1>9 DEF Inv, TypeOK, SizeBound
    <3>3. ~args.tail => Len(output) < args.out_end
      BY <1>2, <1>9 DEF Inv, HasRoom
    <3> QED
      BY <3>1, <3>2, <3>3
  <2>2. UnsortedWindow(args, output, arrivals)
    BY <1>2, <1>9 DEF Window
  <2>3. UnsortedWindow(args, Shifted(args, output, t), Append(arrivals, t))
    BY <1>1, <1>3, <2>1, <2>2, ShiftWindow
  <2>4. output' = Shifted(args, output, t)
    BY <1>2, <1>9 DEF CheckUniqueThenAppend, ShiftBounded, AtLimit, Shifted
  <2>5. UnsortedWindow(args', output', arrivals')
    BY <1>2, <2>3, <2>4
  <2>6. Window'
    BY <1>2, <1>5, <1>9, <2>5 DEF Window
  <2>7. phase' # "reading" <=> ~args.tail /\ Len(output') = args.out_end
    BY <1>2, <1>9
  <2>8. First' = arrivals'
    BY <2>1, <1>6 DEF FirstOf
  <2>9. ~args.tail => Len(output') = Smaller(args.out_end, Len(arrivals'))
    <3>1. arrivals' \in Seq(Tokens) /\ Len(arrivals') \in Nat
      BY <1>1, <1>2, <1>3, AppendProperties
    <3>2. Smaller(args.out_end, Len(arrivals')) \in 0..Len(arrivals')
      BY <2>1, <3>1 DEF Smaller
    <3>3. Len(SubSeq(arrivals', 1, Smaller(args.out_end, Len(arrivals')))) =
            Smaller(args.out_end, Len(arrivals'))
      BY <3>1, <3>2, HeadOfVector
    <3> QED
      BY <1>2, <2>5, <3>3 DEF UnsortedWindow
  <2>10. ~args.tail => (Len(output') = args.out_end <=> Len(First') >= args.out_end)
    <3>1. Len(arrivals') \in Nat
      BY <1>1, <1>2, <1>3, AppendProperties
    <3> QED
      BY <2>1, <2>8, <2>9, <3>1 DEF Smaller
  <2>11. args.out_end # NoLimit
    BY <1>9 DEF MemIsBounded
  <2> QED
    BY <1>7, <1>9, <2>6, <2>7, <2>10, <2>11
<1>10. CASE ~MemIsBounded(args)
  <2>1. phase' = "reading"
    BY <1>2, <1>10
  <2>2. Window'
    BY <1>2, <1>5, <1>10 DEF Window
  <2> QED
    BY <1>10, <2>1, <2>2
<1> QED
  BY <1>8, <1>9, <1>10

LEMMA NextWindow == Inv /\ Traced /\ Window /\ [Next]_vars => Window'
<1> SUFFICES ASSUME Inv, Traced, Window, [Next]_vars PROVE Window'
  OBVIOUS
<1>1. stream \in Streams
  BY DEF Inv, TypeOK
<1>2. CASE WriteFragment \/ CopyBetween
  <2>1. stream'.out_count = stream.out_count
    BY <1>1, <1>2, CountOfFragment DEF WriteFragment, CopyBetween
  <2> QED
    BY <1>2, <2>1, UntouchedWindow DEF WriteFragment, CopyBetween
<1>3. CASE \E k, u \in Keys : ForwardToken(Arrival(k, u))
  <2>1. PICK k \in Keys, u \in Keys : ForwardToken(Arrival(k, u))
    BY <1>3
  <2>2. /\ FirstVector(args.unique, First, arrivals)'
        /\ phase' = "reading" => Forwarded'
    BY <2>1, ForwardTokenWindow
  <2>3. IsDirectOutput(args) /\ args' = args
    BY <2>1 DEF ForwardToken, Arrive
  <2>4. ~args.sort
    BY <2>3 DEF IsDirectOutput
  <2> QED
    BY <2>2, <2>3, <2>4 DEF Window
<1>4. CASE \E k, u \in Keys : StoreToken(Arrival(k, u))
  BY <1>4, StoreTokenWindow
<1>5. CASE EndOfInput \/ Finalise \/ WriteNext \/ Finish
  <2>1. UNCHANGED <<args, arrivals>> /\ phase' # "reading"
    BY <1>5 DEF EndOfInput, Finalise, WriteNext, Finish
  <2> QED
    BY <2>1, UntouchedWindow
<1>6. CASE UNCHANGED vars
  BY <1>6, UntouchedWindow DEF vars
<1> QED
  BY <1>2, <1>3, <1>4, <1>5, <1>6 DEF Next, Terminated

LEMMA WindowHolds == Spec => [](Inv /\ Traced /\ Window)
<1>1. Spec => []Window
  <2>1. Inv /\ Traced /\ [Next]_vars /\ Window => Window'
    BY NextWindow
  <2> QED
    BY <2>1, InitWindow, Invariance, NothingInvented, PTL DEF Spec
<1> QED
  BY <1>1, Invariance, NothingInvented, PTL

LEMMA SortedCounts ==
  ASSUME Inv, Window, phase = "reading", MemIsBounded(args), args.sort
  PROVE  Arrangements([args EXCEPT !.sort_stable = TRUE], First,
                      Smaller(args.out_end, Len(First))) = {output}
<1>1. SortedWindow(args, output, First) /\ FirstVector(args.unique, First, arrivals)
  BY DEF Window
<1>2. PICK f \in Seq(Tokens) : f = First
  BY <1>1 DEF FirstVector
<1>3. SortedWindow(args, output, f) /\ InTime(f)
  BY <1>1, <1>2 DEF FirstVector, InTime
<1>4. PICK b : b = [args EXCEPT !.sort_stable = TRUE]
  OBVIOUS
<1>5. Stabilised(args, b)
  BY <1>4 DEF Inv, TypeOK, Compile, Stabilised
<1>6. output \in Seq(Tokens)
  BY DEF Inv, TypeOK
<1>7. Arrangements(b, f, Len(output)) = {output}
  BY ONLY <1>3, <1>5, <1>6, WindowIsArrangement
<1>8. Len(output) = Smaller(args.out_end, Len(First))
  BY <1>1 DEF SortedWindow
<1> QED
  BY <1>2, <1>4, <1>7, <1>8

LEMMA UnsortedCounts ==
  ASSUME Inv, Window, phase = "reading", MemIsBounded(args), ~args.sort,
         ~IsDirectOutput(args)
  PROVE  UnsortedWindow(args, output, First)
<1>1. ~args.unique
  BY MemIsBoundedFacts DEF Inv
<1>2. First = arrivals
  BY <1>1 DEF First, FirstOf
<1> QED
  BY <1>2 DEF Window

LEMMA FirstGiven == Inv => Promise!FirstOccurrences(options, arrivals) = First
<1>1. Inv => args.unique = options.unique
  BY UniqueGiven DEF Inv
<1>2. Promise!FirstOccurrences(options, arrivals) = FirstOf(options.unique, arrivals)
  BY FirstIs
<1> QED
  BY <1>1, <1>2 DEF First

(* Memory that is bounded loses nothing that counts: at every token, the   *)
(* vector is what would come first, or for --tail last, had everything     *)
(* been kept, made unique and sorted stably.                               *)
THEOREM WindowIsWhatCounts == Spec => []BoundedWindow
<1>1. Inv /\ Window => BoundedWindow
  BY SortedCounts, UnsortedCounts, FirstGiven DEF BoundedWindow, UnsortedWindow
<1> QED
  BY <1>1, WindowHolds, PTL

(* No token ends the input unless no later one could matter, and the first *)
(* that leaves nothing to wait for does, if tokens are written as they     *)
(* arrive or memory is bounded.                                            *)
THEOREM StopsInTime == Spec => StopsWhenSettled
<1>1. Inv /\ Traced /\ Window /\ [Next]_vars =>
        [(phase = "reading" /\ arrivals' # arrivals) =>
           (phase' # "reading" <=> /\ Promise!Settled(options, arrivals')
                                   /\ IsDirectOutput(args) \/ MemIsBounded(args))]_vars
  <2> SUFFICES ASSUME Inv, Traced, Window, [Next]_vars, arrivals' # arrivals
               PROVE  phase' # "reading" <=> /\ Promise!Settled(options, arrivals')
                                             /\ IsDirectOutput(args) \/ MemIsBounded(args)
    OBVIOUS
  <2>1. PICK k \in Keys, u \in Keys : ForwardToken(Arrival(k, u)) \/ StoreToken(Arrival(k, u))
    BY DEF Next, Terminated, vars, WriteFragment, CopyBetween, EndOfInput, Finalise,
           WriteNext, Finish
  <2>2. CASE ForwardToken(Arrival(k, u))
    <3>1. phase' # "reading" <=> Promise!Settled(options, arrivals')
      BY <2>2, ForwardTokenWindow
    <3>2. IsDirectOutput(args)
      BY <2>2 DEF ForwardToken
    <3> QED
      BY <3>1, <3>2
  <2>3. CASE StoreToken(Arrival(k, u))
    <3>1. phase' # "reading" <=> Promise!Settled(options, arrivals') /\ MemIsBounded(args)
      BY <2>3, StoreTokenWindow
    <3>2. ~IsDirectOutput(args)
      BY <2>3 DEF StoreToken
    <3> QED
      BY <3>1, <3>2
  <2> QED
    BY <2>1, <2>2, <2>3
<1> QED
  BY <1>1, WindowHolds, PTL DEF Spec, StopsWhenSettled

-------------------------------------------------------------------------------
(* What a partial sort leaves at the front is the front of a whole sort.   *)

(* Equal elements are told apart by their place for a stable sort, and by  *)
(* where they were put for another.                                        *)
KeyOf(b, n, f, k) ==
  IF b.sort_stable THEN k
  ELSE IF \E i \in 1..n : f[i] = k THEN CHOOSE i \in 1..n : f[i] = k
  ELSE n + k

OrderOf(b, s, m, n, f) ==
  {p \in (1..m) \X (1..m) :
     \/ Before(b, s[p[1]], s[p[2]])
     \/ ~Before(b, s[p[2]], s[p[1]]) /\ KeyOf(b, n, f, p[1]) < KeyOf(b, n, f, p[2])}

Apart(f, n) == \A i, j \in 1..n : i # j => f[i] # f[j]

KeyedApart(b, m, n, f) ==
  /\ \A k \in 1..m : KeyOf(b, n, f, k) \in Int
  /\ \A k, l \in 1..m : k # l => KeyOf(b, n, f, k) # KeyOf(b, n, f, l)

KeyedByPlace(b, m, n, f) ==
  /\ \A i \in 1..n : KeyOf(b, n, f, f[i]) = i
  /\ \A k \in 1..m : (\A i \in 1..n : f[i] # k) => KeyOf(b, n, f, k) = n + k

LEMMA KeysApart ==
  ASSUME NEW b, NEW m \in Nat, NEW n \in 0..m, NEW f \in [1..n -> 1..m],
         Apart(f, n)
  PROVE  KeyedApart(b, m, n, f) /\ (~b.sort_stable => KeyedByPlace(b, m, n, f))
<1>0. \A i, j \in 1..n : i # j => f[i] # f[j]
  BY DEF Apart
<1>1. CASE b.sort_stable
  BY <1>1 DEF KeyOf, KeyedApart
<1>2. CASE ~b.sort_stable
  <2>1. ASSUME NEW i \in 1..n PROVE KeyOf(b, n, f, f[i]) = i
    BY <1>0, <1>2 DEF KeyOf
  <2>2. ASSUME NEW k \in 1..m, \A i \in 1..n : f[i] # k PROVE KeyOf(b, n, f, k) = n + k
    BY <1>2, <2>2 DEF KeyOf
  <2>3. \A k \in 1..m : \/ \E i \in 1..n : f[i] = k /\ KeyOf(b, n, f, k) = i
                        \/ KeyOf(b, n, f, k) = n + k
    BY <2>1, <2>2
  <2>4. \A k, l \in 1..m : k # l => KeyOf(b, n, f, k) # KeyOf(b, n, f, l)
    <3> SUFFICES ASSUME NEW k \in 1..m, NEW l \in 1..m, k # l,
                        KeyOf(b, n, f, k) = KeyOf(b, n, f, l)
                 PROVE  FALSE
      OBVIOUS
    <3>1. \/ \E i \in 1..n : f[i] = k /\ KeyOf(b, n, f, k) = i
          \/ KeyOf(b, n, f, k) = n + k
      BY <2>3
    <3>2. \/ \E i \in 1..n : f[i] = l /\ KeyOf(b, n, f, l) = i
          \/ KeyOf(b, n, f, l) = n + l
      BY <2>3
    <3> QED
      BY <3>1, <3>2
  <2> QED
    BY <1>2, <2>1, <2>2, <2>3, <2>4 DEF KeyedApart, KeyedByPlace
<1> QED
  BY <1>1, <1>2

LEMMA OrderOfPair ==
  ASSUME NEW b, NEW s, NEW m, NEW n, NEW f, NEW k \in 1..m, NEW l \in 1..m
  PROVE  <<k, l>> \in OrderOf(b, s, m, n, f) <=>
           \/ Before(b, s[k], s[l])
           \/ ~Before(b, s[l], s[k]) /\ KeyOf(b, n, f, k) < KeyOf(b, n, f, l)
<1>1. <<k, l>> \in (1..m) \X (1..m) /\ <<k, l>>[1] = k /\ <<k, l>>[2] = l
  BY ONLY k \in 1..m, l \in 1..m
<1>2. PICK p : p = <<k, l>>
  OBVIOUS
<1>3. p \in (1..m) \X (1..m) /\ p[1] = k /\ p[2] = l
  BY ONLY <1>1, <1>2
<1>4. p \in OrderOf(b, s, m, n, f) <=>
        \/ Before(b, s[p[1]], s[p[2]])
        \/ ~Before(b, s[p[2]], s[p[1]]) /\ KeyOf(b, n, f, p[1]) < KeyOf(b, n, f, p[2])
  BY ONLY <1>3 DEF OrderOf
<1> QED
  BY <1>2, <1>3, <1>4

LEMMA OrderIsStrict ==
  ASSUME NEW b, NEW m \in Nat, NEW n \in 0..m, NEW f \in [1..n -> 1..m],
         Apart(f, n),
         NEW s \in Seq(Tokens), Len(s) = m
  PROVE  StrictOrder(OrderOf(b, s, m, n, f), 1..m)
<1>1. DOMAIN s = 1..m /\ \A k \in 1..m : s[k].sort \in Int
  <2>1. DOMAIN s = 1..m
    BY LenProperties
  <2> QED
    BY <2>1, ElementOfSeq, TokenFields
<1>2. /\ \A k \in 1..m : KeyOf(b, n, f, k) \in Int
      /\ \A k, l \in 1..m : k # l => KeyOf(b, n, f, k) # KeyOf(b, n, f, l)
  <2>1. /\ m \in Nat /\ n \in 0..m /\ f \in [1..n -> 1..m]
        /\ Apart(f, n)
    OBVIOUS
  <2> QED
    BY ONLY <2>1, KeysApart DEF KeyedApart
<1>0. PICK R : R = OrderOf(b, s, m, n, f)
  OBVIOUS
<1> DEFINE key(k) == KeyOf(b, n, f, k)
<1>3. \A k, l \in 1..m : <<k, l>> \in R <=>
        Before(b, s[k], s[l]) \/ (~Before(b, s[l], s[k]) /\ key(k) < key(l))
  BY <1>0, OrderOfPair
<1>20. (\A k \in 1..m : key(k) \in Int) /\ \A k, l \in 1..m : k # l => key(k) # key(l)
  BY <1>2
<1> HIDE DEF key
<1>4. \A k \in 1..m : <<k, k>> \notin R
  <2> SUFFICES ASSUME NEW k \in 1..m PROVE <<k, k>> \notin R
    OBVIOUS
  <2>1. <<k, k>> \in R <=> Before(b, s[k], s[k]) \/ (~Before(b, s[k], s[k]) /\ key(k) < key(k))
    BY ONLY <1>3, k \in 1..m
  <2>2. s[k].sort \in Int /\ key(k) \in Int
    BY <1>1, <1>20
  <2> QED
    BY <2>1, <2>2 DEF Before
<1>5. \A k, l \in 1..m : k # l => <<k, l>> \in R \/ <<l, k>> \in R
  <2> SUFFICES ASSUME NEW k \in 1..m, NEW l \in 1..m, k # l
               PROVE  <<k, l>> \in R \/ <<l, k>> \in R
    OBVIOUS
  <2>1. key(k) < key(l) \/ key(l) < key(k)
    <3>1. key(k) \in Int /\ key(l) \in Int /\ key(k) # key(l)
      BY <1>20
    <3> QED
      BY <3>1
  <2> QED
    BY <1>1, <1>3, <2>1 DEF Before
<1>6. \A k, l, p \in 1..m : <<k, l>> \in R /\ <<l, p>> \in R => <<k, p>> \in R
  <2> SUFFICES ASSUME NEW k \in 1..m, NEW l \in 1..m, NEW p \in 1..m,
                      <<k, l>> \in R, <<l, p>> \in R
               PROVE  <<k, p>> \in R
    OBVIOUS
  <2>1. /\ s[k].sort \in Int /\ s[l].sort \in Int /\ s[p].sort \in Int
        /\ key(k) \in Int /\ key(l) \in Int /\ key(p) \in Int
    BY <1>1, <1>20
  <2>2. /\ Before(b, s[k], s[l]) \/ (~Before(b, s[l], s[k]) /\ key(k) < key(l))
        /\ Before(b, s[l], s[p]) \/ (~Before(b, s[p], s[l]) /\ key(l) < key(p))
    BY <1>3
  <2>3. Before(b, s[k], s[p]) \/ (~Before(b, s[p], s[k]) /\ key(k) < key(p))
    BY <2>1, <2>2 DEF Before
  <2> QED
    BY <1>3, <2>3
<1>7. StrictOrder(R, 1..m)
  BY <1>4, <1>5, <1>6 DEF StrictOrder
<1> QED
  BY <1>0, <1>7

(* g lists everything in the order of a sort.                              *)
Listing(b, s, m, g) ==
  /\ g \in [1..m -> 1..m]
  /\ Apart(g, m)
  /\ \A k \in 1..m : \E i \in 1..m : g[i] = k
  /\ \A i, j \in 1..m : i < j => Wins(b, s, g[i], g[j])

LEMMA PlacesLead ==
  ASSUME NEW b, NEW s \in Seq(Tokens), NEW m \in Nat, m = Len(s), NEW n \in 0..m,
         NEW f, Places(b, s, n, f)
  PROVE  HeadOf(f, n, OrderOf(b, s, m, n, f), 1..m)
<1>1. /\ f \in [1..n -> 1..m] /\ Apart(f, n)
      /\ \A i, j \in 1..n : i < j => Wins(b, s, f[i], f[j])
      /\ \A i \in 1..n, k \in 1..m : k \notin Range(f) => Wins(b, s, f[i], k)
  <2>1. DOMAIN s = 1..m
    BY LenProperties
  <2> QED
    BY <2>1 DEF Places, Apart
<1>2. ~b.sort_stable => KeyedByPlace(b, m, n, f)
  <2>1. m \in Nat /\ n \in 0..m
    OBVIOUS
  <2> QED
    BY ONLY <1>1, <2>1, KeysApart
<1>3. n \in Nat /\ m \in Nat
  OBVIOUS
<1>4. \A i, j \in 1..n : i < j => <<f[i], f[j]>> \in OrderOf(b, s, m, n, f)
  <2> SUFFICES ASSUME NEW i \in 1..n, NEW j \in 1..n, i < j
               PROVE  <<f[i], f[j]>> \in OrderOf(b, s, m, n, f)
    OBVIOUS
  <2>1. PICK k \in 1..m, l \in 1..m : k = f[i] /\ l = f[j]
    BY <1>1
  <2>2. Wins(b, s, k, l)
    BY <1>1, <2>1
  <2>3. KeyOf(b, n, f, k) < KeyOf(b, n, f, l) \/ Before(b, s[k], s[l])
    <3>1. CASE b.sort_stable
      BY <2>2, <3>1 DEF Wins, KeyOf
    <3>2. CASE ~b.sort_stable
      BY <1>2, <2>1, <3>2 DEF KeyedByPlace
    <3> QED
      BY <3>1, <3>2
  <2>4. <<k, l>> \in OrderOf(b, s, m, n, f)
    BY <2>2, <2>3, OrderOfPair DEF Wins
  <2> QED
    BY <2>1, <2>4
<1>5. \A i \in 1..n, k \in 1..m : (\A j \in 1..n : f[j] # k) =>
        <<f[i], k>> \in OrderOf(b, s, m, n, f)
  <2> SUFFICES ASSUME NEW i \in 1..n, NEW k \in 1..m, \A j \in 1..n : f[j] # k
               PROVE  <<f[i], k>> \in OrderOf(b, s, m, n, f)
    OBVIOUS
  <2>1. PICK h \in 1..m : h = f[i]
    BY <1>1
  <2>2. Wins(b, s, h, k)
    <3>1. k \notin Range(f)
      BY <1>1 DEF Range
    <3> QED
      BY <1>1, <2>1, <3>1
  <2>3. KeyOf(b, n, f, h) < KeyOf(b, n, f, k) \/ Before(b, s[h], s[k])
    <3>1. CASE b.sort_stable
      BY <2>2, <3>1 DEF Wins, KeyOf
    <3>2. CASE ~b.sort_stable
      <4>1. KeyOf(b, n, f, h) = i /\ KeyOf(b, n, f, k) = n + k
        BY <1>2, <2>1, <3>2 DEF KeyedByPlace
      <4> QED
        BY <1>3, <4>1
    <3> QED
      BY <3>1, <3>2
  <2>4. <<h, k>> \in OrderOf(b, s, m, n, f)
    BY <2>2, <2>3, OrderOfPair DEF Wins
  <2> QED
    BY <2>1, <2>4
<1> QED
  BY <1>1, <1>4, <1>5 DEF HeadOf, Apart

(* The elements of s at the places g gives.                                *)
Chosen(s, g, n) == [i \in 1..n |-> s[g[i]]]

(* What a sort of the first n leaves is the beginning of a whole listing.  *)
LEMMA ArrangementExtends ==
  ASSUME NEW b, NEW s \in Seq(Tokens), NEW m \in Nat, m = Len(s), NEW n \in 0..m,
         NEW r \in Arrangements(b, s, n)
  PROVE  \E g : Listing(b, s, m, g) /\ r = Chosen(s, g, n)
<1>0. n \in Nat
  OBVIOUS
<1>1. PICK f : Places(b, s, n, f) /\ r = [i \in 1..n |-> s[f[i]]]
  <2>1. r \in {[i \in 1..n |-> s[f[i]]] : f \in AllPlaces(b, s, n)}
    BY <1>0, ArrangementsArePlaces
  <2>2. PICK f \in AllPlaces(b, s, n) : r = [i \in 1..n |-> s[f[i]]]
    BY <2>1
  <2> QED
    BY <2>2 DEF AllPlaces
<1>2. PICK R : R = OrderOf(b, s, m, n, f)
  OBVIOUS
<1>3. HeadOf(f, n, R, 1..m)
  BY <1>1, <1>2, PlacesLead
<1>4. f \in [1..n -> 1..m] /\ Apart(f, n)
  BY <1>3 DEF HeadOf, Apart
<1>5. StrictOrder(R, 1..m)
  BY <1>2, <1>4, OrderIsStrict
<1>6. PICK g : Enumerates(g, m, R)
  BY <1>5, OrderListed
<1>7. \A i \in 1..n : g[i] = f[i]
  BY <1>3, <1>5, <1>6, ListBegins
<1>8. \A i, j \in 1..m : i < j => Wins(b, s, g[i], g[j])
  <2> SUFFICES ASSUME NEW i \in 1..m, NEW j \in 1..m, i < j PROVE Wins(b, s, g[i], g[j])
    OBVIOUS
  <2>1. PICK k \in 1..m, l \in 1..m : k = g[i] /\ l = g[j]
    BY <1>6 DEF Enumerates
  <2>2. <<k, l>> \in R
    BY <1>6, <2>1 DEF Enumerates
  <2>3. \/ Before(b, s[k], s[l])
        \/ ~Before(b, s[l], s[k]) /\ KeyOf(b, n, f, k) < KeyOf(b, n, f, l)
    BY <1>2, <2>2, OrderOfPair
  <2>4. Wins(b, s, k, l)
    BY <2>3 DEF Wins, KeyOf
  <2> QED
    BY <2>1, <2>4
<1>9. Listing(b, s, m, g)
  BY <1>6, <1>8 DEF Listing, Enumerates, Apart
<1>10. r = Chosen(s, g, n)
  BY <1>1, <1>7 DEF Chosen
<1> QED
  BY <1>9, <1>10

-------------------------------------------------------------------------------
(* Ranges of a vector.                                                     *)

Part(s, low, high) == [i \in 1..(high - low + 1) |-> s[low + i - 1]]

From(start) == IF start = NoLimit THEN 0 ELSE start

UpTo(stop, m) == IF stop = NoLimit THEN m ELSE Smaller(stop, m)

LEMMA ListOfTokens ==
  ASSUME NEW n \in Nat, NEW r, r = [i \in 1..n |-> r[i]], \A i \in 1..n : r[i] \in Tokens
  PROVE  r \in Seq(Tokens) /\ Len(r) = n /\ DOMAIN r = 1..n
  OBVIOUS

LEMMA EmptyPart ==
  ASSUME NEW s, NEW low \in Int, NEW high \in Int, high < low
  PROVE  Part(s, low, high) = <<>>
<1>1. 1..(high - low + 1) = {}
  OBVIOUS
<1> QED
  BY <1>1 DEF Part

LEMMA PartProperties ==
  ASSUME NEW s \in Seq(Tokens), NEW low \in Nat \ {0}, NEW high \in Int, high <= Len(s)
  PROVE  /\ Part(s, low, high) \in Seq(Tokens)
         /\ Len(Part(s, low, high)) = IF high < low THEN 0 ELSE high - low + 1
         /\ \A i \in 1..(high - low + 1) : Part(s, low, high)[i] = s[low + i - 1]
<1>1. CASE high < low
  <2>1. Part(s, low, high) = <<>>
    BY <1>1, EmptyPart
  <2>2. 1..(high - low + 1) = {}
    BY <1>1
  <2> QED
    BY <1>1, <2>1, <2>2
<1>2. CASE low <= high
  <2>1. PICK k \in Nat : k = high - low + 1
    BY <1>2
  <2>2. PICK p : p = Part(s, low, high)
    OBVIOUS
  <2>3. p = [i \in 1..k |-> s[low + i - 1]]
    BY <2>1, <2>2 DEF Part
  <2>4. \A i \in 1..k : p[i] = s[low + i - 1] /\ p[i] \in Tokens
    <3> SUFFICES ASSUME NEW i \in 1..k PROVE p[i] = s[low + i - 1] /\ p[i] \in Tokens
      OBVIOUS
    <3>1. low + i - 1 \in 1..Len(s)
      BY <2>1
    <3>2. s[low + i - 1] \in Tokens
      BY <3>1, ElementOfSeq
    <3> QED
      BY <2>3, <3>2
  <2>5. p = [i \in 1..k |-> p[i]]
    BY ONLY <2>3
  <2>6. p \in Seq(Tokens) /\ Len(p) = k
    BY ONLY <2>4, <2>5, k \in Nat, ListOfTokens
  <2> QED
    BY <1>2, <2>1, <2>2, <2>4, <2>6
<1> QED
  BY <1>1, <1>2

LEMMA SubSeqIsPart ==
  ASSUME NEW s \in Seq(Tokens), NEW low \in Nat \ {0}, NEW high \in 0..Len(s)
  PROVE  SubSeq(s, low, high) = Part(s, low, high)
<1>1. high \in Int /\ high <= Len(s) /\ Len(s) \in Nat
  BY LenProperties
<1>2. PICK r \in Seq(Tokens) :
        /\ r = SubSeq(s, low, high)
        /\ Len(r) = IF low <= high THEN high - low + 1 ELSE 0
        /\ \A i \in 1..Len(r) : r[i] = s[low + i - 1]
  <2>1. /\ SubSeq(s, low, high) \in Seq(Tokens)
        /\ Len(SubSeq(s, low, high)) = IF low <= high THEN high - low + 1 ELSE 0
        /\ \A i \in 1..Len(SubSeq(s, low, high)) : SubSeq(s, low, high)[i] = s[low + i - 1]
    BY SubSeqProperties
  <2> QED
    BY <2>1
<1>3. PICK p \in Seq(Tokens) :
        /\ p = Part(s, low, high)
        /\ Len(p) = IF high < low THEN 0 ELSE high - low + 1
        /\ \A i \in 1..(high - low + 1) : p[i] = s[low + i - 1]
  BY <1>1, PartProperties
<1>4. Len(r) = Len(p) /\ \A i \in 1..Len(r) : r[i] = p[i]
  BY <1>1, <1>2, <1>3
<1>5. r = p
  BY <1>4, SeqEqual
<1> QED
  BY <1>2, <1>3, <1>5

LEMMA PartOfPart ==
  ASSUME NEW s \in Seq(Tokens), NEW low \in Nat \ {0}, NEW high \in Int, high <= Len(s),
         NEW l \in Nat \ {0}, NEW h \in Int, h <= Len(Part(s, low, high))
  PROVE  Part(Part(s, low, high), l, h) = Part(s, low + l - 1, low + h - 1)
<1>1. /\ Len(Part(s, low, high)) = IF high < low THEN 0 ELSE high - low + 1
      /\ \A i \in 1..(high - low + 1) : Part(s, low, high)[i] = s[low + i - 1]
  BY PartProperties
<1>2. CASE h < l
  <2>1. low + h - 1 < low + l - 1 /\ low + h - 1 \in Int /\ low + l - 1 \in Int
    BY <1>2
  <2> QED
    BY <1>2, <2>1, EmptyPart
<1>3. CASE l <= h
  <2>1. (low + h - 1) - (low + l - 1) + 1 = h - l + 1
    OBVIOUS
  <2>2. ASSUME NEW i \in 1..(h - l + 1)
        PROVE  Part(s, low, high)[l + i - 1] = s[(low + l - 1) + i - 1]
    <3>1. l + i - 1 \in 1..(high - low + 1) /\ low + (l + i - 1) - 1 = (low + l - 1) + i - 1
      BY <1>1, <1>3
    <3> QED
      BY <1>1, <3>1
  <2> QED
    BY <2>1, <2>2 DEF Part
<1> QED
  BY <1>2, <1>3

LEMMA ReverseIs ==
  ASSUME NEW s \in Seq(Tokens)
  PROVE  /\ Reverse(s) \in Seq(Tokens) /\ Len(Reverse(s)) = Len(s)
         /\ \A i \in 1..Len(s) : Reverse(s)[i] = s[Len(s) - i + 1]
         /\ Promise!Reverse(s) = Reverse(s)
<1>1. Reverse(s) \in Seq(Tokens) /\ Len(Reverse(s)) = Len(s)
  BY ReversePicks
<1> QED
  BY <1>1 DEF Reverse, Promise!Reverse

LEMMA ReverseTwice ==
  ASSUME NEW s \in Seq(Tokens) PROVE Reverse(Reverse(s)) = s
<1>1. PICK r \in Seq(Tokens) :
        r = Reverse(s) /\ Len(r) = Len(s) /\ \A i \in 1..Len(s) : r[i] = s[Len(s) - i + 1]
  BY ReverseIs
<1>2. PICK q \in Seq(Tokens) :
        q = Reverse(r) /\ Len(q) = Len(r) /\ \A i \in 1..Len(r) : q[i] = r[Len(r) - i + 1]
  BY ReverseIs
<1>3. PICK n \in Nat : n = Len(s)
  BY LenProperties
<1>4. \A i \in 1..n : q[i] = s[i]
  <2> SUFFICES ASSUME NEW i \in 1..n PROVE q[i] = s[i]
    OBVIOUS
  <2>1. n - i + 1 \in 1..n /\ n - (n - i + 1) + 1 = i
    OBVIOUS
  <2> QED
    BY <1>1, <1>2, <1>3, <2>1
<1> QED
  BY <1>1, <1>2, <1>3, <1>4, SeqEqual

(* A range of the reverse, counted from its end.                           *)
LEMMA ReverseOfPart ==
  ASSUME NEW s \in Seq(Tokens), NEW low \in Nat \ {0}, NEW high \in Int, high <= Len(s)
  PROVE  Part(Reverse(s), Len(s) - high + 1, Len(s) - low + 1) = Reverse(Part(s, low, high))
<1>1. PICK n \in Nat : n = Len(s)
  BY LenProperties
<1>2. PICK r \in Seq(Tokens) :
        r = Reverse(s) /\ Len(r) = n /\ \A i \in 1..n : r[i] = s[n - i + 1]
  BY <1>1, ReverseIs
<1>3. PICK p \in Seq(Tokens) :
        /\ p = Part(s, low, high)
        /\ Len(p) = IF high < low THEN 0 ELSE high - low + 1
        /\ \A i \in 1..(high - low + 1) : p[i] = s[low + i - 1]
  BY PartProperties
<1>4. PICK q \in Seq(Tokens) :
        q = Reverse(p) /\ Len(q) = Len(p) /\ \A i \in 1..Len(p) : q[i] = p[Len(p) - i + 1]
  BY ReverseIs
<1>5. CASE high < low
  <2>1. n - low + 1 < n - high + 1 /\ n - low + 1 \in Int /\ n - high + 1 \in Int
    BY <1>1, <1>5
  <2>2. Part(r, n - high + 1, n - low + 1) = <<>>
    BY <2>1, EmptyPart
  <2>3. q = <<>>
    BY <1>3, <1>4, <1>5
  <2> QED
    BY <1>1, <1>2, <1>3, <1>4, <2>2, <2>3
<1>6. CASE low <= high
  <2>1. PICK w \in Seq(Tokens) :
          /\ w = Part(r, n - high + 1, n - low + 1)
          /\ Len(w) = high - low + 1
          /\ \A i \in 1..high - low + 1 : w[i] = r[n - high + i]
    <3>0. n - high + 1 \in Nat \ {0} /\ n - low + 1 \in Int
      BY <1>1
    <3>1. PICK l \in Nat \ {0}, h \in Int : l = n - high + 1 /\ h = n - low + 1
      BY <3>0
    <3>2. h <= Len(r) /\ ~(h < l) /\ h - l + 1 = high - low + 1
      BY <1>1, <1>2, <1>6, <3>1
    <3>3. /\ Part(r, l, h) \in Seq(Tokens)
          /\ Len(Part(r, l, h)) = IF h < l THEN 0 ELSE h - l + 1
          /\ \A i \in 1..(h - l + 1) : Part(r, l, h)[i] = r[l + i - 1]
      BY <3>2, PartProperties
    <3>4. \A i \in 1..high - low + 1 : l + i - 1 = n - high + i
      BY <1>1, <3>1
    <3>5. PICK w \in Seq(Tokens) : w = Part(r, l, h)
      BY <3>3
    <3>6. Len(w) = high - low + 1 /\ \A i \in 1..high - low + 1 : w[i] = r[n - high + i]
      BY <3>2, <3>3, <3>4, <3>5
    <3> QED
      BY <3>1, <3>5, <3>6
  <2>2. \A i \in 1..high - low + 1 : w[i] = q[i]
    <3> SUFFICES ASSUME NEW i \in 1..high - low + 1 PROVE w[i] = q[i]
      OBVIOUS
    <3>1. /\ n - high + i \in 1..n /\ n - (n - high + i) + 1 = high - i + 1
          /\ (high - low + 1) - i + 1 \in 1..high - low + 1
          /\ low + ((high - low + 1) - i + 1) - 1 = high - i + 1
      BY <1>1, <1>6
    <3>2. w[i] = r[n - high + i] /\ r[n - high + i] = s[high - i + 1]
      BY <1>2, <2>1, <3>1
    <3>3. Len(p) = high - low + 1
      BY <1>3, <1>6
    <3>4. q[i] = p[(high - low + 1) - i + 1]
      BY <1>4, <3>3
    <3>5. p[(high - low + 1) - i + 1] = s[high - i + 1]
      BY <1>3, <3>1
    <3> QED
      BY <3>2, <3>4, <3>5
  <2>3. w = q
    <3>1. Len(w) = Len(q) /\ Len(w) = high - low + 1
      BY <1>3, <1>4, <1>6, <2>1
    <3>2. \A i \in 1..Len(w) : w[i] = q[i]
      BY <2>2, <3>1
    <3> QED
      BY <3>1, <3>2, SeqEqual
  <2> QED
    BY <1>1, <1>2, <1>3, <1>4, <2>1, <2>3
<1> QED
  BY <1>5, <1>6

-------------------------------------------------------------------------------
(* The range the options ask for.                                          *)

LowOf(o, m) ==
  IF o.tail_end # NoLimit THEN m - UpTo(o.tail_end, m) + 1 ELSE From(o.out_start) + 1

HighOf(o, m) ==
  IF o.tail_end # NoLimit THEN m - From(o.tail_start) ELSE UpTo(o.out_end, m)

LEMMA RangeWithin ==
  ASSUME NEW o \in OptionType, NEW m \in Nat
  PROVE  LowOf(o, m) \in Nat \ {0} /\ HighOf(o, m) \in Int /\ HighOf(o, m) <= m
<1>1. /\ o.out_start \in Nat \cup {-1} /\ o.out_end \in Nat \cup {-1}
      /\ o.tail_start \in Nat \cup {-1} /\ o.tail_end \in Nat \cup {-1}
  BY DEF OptionType, Limits, NoLimit
<1> QED
  BY <1>1 DEF LowOf, HighOf, UpTo, From, Smaller, NoLimit

LEMMA SizeOfRange ==
  ASSUME NEW low \in Int, NEW high \in Int
  PROVE  Promise!Cardinality(low..high) = IF high < low THEN 0 ELSE high - low + 1
<1>1. Cardinality(low..high) = IF high < low THEN 0 ELSE high - low + 1
  <2>1. Cardinality(low..high) = IF low > high THEN 0 ELSE high - low + 1
    BY FS_Interval
  <2> QED
    BY <2>1
<1>2. Promise!Cardinality(low..high) = Cardinality(low..high)
  BY DEF Cardinality, Promise!Cardinality
<1> QED
  BY <1>1, <1>2

LEMMA KeptByRange ==
  ASSUME NEW o \in OptionType, Consistent(o), NEW m \in Nat
  PROVE  (IF o.tail_end # NoLimit
          THEN {i \in 1..m : Promise!InRange(m - i, o.tail_start, o.tail_end)}
          ELSE IF o.out_end # NoLimit
          THEN {i \in 1..m : Promise!InRange(i - 1, o.out_start, o.out_end)}
          ELSE 1..m)
         = LowOf(o, m)..HighOf(o, m)
<1>1. /\ o.out_start \in Nat \cup {-1} /\ o.out_end \in Nat \cup {-1}
      /\ o.tail_start \in Nat \cup {-1} /\ o.tail_end \in Nat \cup {-1}
      /\ o.out_start # -1 => o.out_end # -1
  BY DEF OptionType, Limits, NoLimit, Consistent
<1>2. CASE o.tail_end # NoLimit
  <2>1. \A i \in 1..m : Promise!InRange(m - i, o.tail_start, o.tail_end) <=>
                        i \in LowOf(o, m)..HighOf(o, m)
    BY <1>1, <1>2 DEF Promise!InRange, LowOf, HighOf, UpTo, From, Smaller, NoLimit
  <2> QED
    BY <1>2, <2>1, RangeWithin
<1>3. CASE o.tail_end = NoLimit /\ o.out_end # NoLimit
  <2>1. \A i \in 1..m : Promise!InRange(i - 1, o.out_start, o.out_end) <=>
                        i \in LowOf(o, m)..HighOf(o, m)
    BY <1>1, <1>3 DEF Promise!InRange, LowOf, HighOf, UpTo, From, Smaller, NoLimit
  <2> QED
    BY <1>3, <2>1, RangeWithin
<1>4. CASE o.tail_end = NoLimit /\ o.out_end = NoLimit
  <2>1. LowOf(o, m) = 1 /\ HighOf(o, m) = m
    BY <1>1, <1>4 DEF LowOf, HighOf, UpTo, From, NoLimit
  <2> QED
    BY <1>4, <2>1
<1> QED
  BY <1>2, <1>3, <1>4

LEMMA RangedIs ==
  ASSUME NEW o \in OptionType, Consistent(o), NEW s \in Seq(Tokens)
  PROVE  Promise!Ranged(o, s) = Part(s, LowOf(o, Len(s)), HighOf(o, Len(s)))
<1>1. PICK m \in Nat : m = Len(s) /\ DOMAIN s = 1..m
  BY LenProperties
<1>2. PICK low \in Nat \ {0}, high \in Int :
        low = LowOf(o, m) /\ high = HighOf(o, m) /\ high <= m
  BY RangeWithin
<1> DEFINE kept == IF o.tail_end # NoLimit
                   THEN {i \in DOMAIN s : Promise!InRange(Len(s) - i, o.tail_start, o.tail_end)}
                   ELSE IF o.out_end # NoLimit
                   THEN {i \in DOMAIN s : Promise!InRange(i - 1, o.out_start, o.out_end)}
                   ELSE DOMAIN s
           first == CHOOSE i \in kept : \A j \in kept : i <= j
<1>3. kept = low..high
  BY <1>1, <1>2, KeptByRange
<1>4. Promise!Ranged(o, s) = [i \in 1..Promise!Cardinality(kept) |-> s[first + i - 1]]
  BY DEF Promise!Ranged
<1> HIDE DEF kept
<1>5. CASE high < low
  <2>1. Promise!Cardinality(kept) = 0
    BY <1>3, <1>5, SizeOfRange
  <2>2. 1..0 = {}
    OBVIOUS
  <2>3. Promise!Ranged(o, s) = <<>>
    <3> HIDE DEF first
    <3> QED
      BY <1>4, <2>1, <2>2
  <2> QED
    BY <1>1, <1>2, <1>5, <2>3, EmptyPart
<1>6. CASE low <= high
  <2>1. Promise!Cardinality(kept) = high - low + 1
    BY <1>3, <1>6, SizeOfRange
  <2>2. first = low
    <3>1. low \in kept /\ \A j \in kept : low <= j
      BY <1>3, <1>6
    <3>2. first \in kept /\ \A j \in kept : first <= j
      BY <3>1
    <3>3. first \in Int /\ first <= low /\ low <= first
      BY <1>3, <3>1, <3>2
    <3> QED
      BY <3>3
  <2> HIDE DEF first
  <2> QED
    BY <1>1, <1>2, <1>4, <2>1, <2>2 DEF Part
<1> QED
  BY <1>5, <1>6

-------------------------------------------------------------------------------
(* What the end of the input leaves of a vector.                           *)

LEMMA UpToWithin ==
  ASSUME NEW stop \in Limits, NEW m \in Nat
  PROVE  UpTo(stop, m) \in 0..m
  BY DEF Limits, UpTo, Smaller, NoLimit

LEMMA FrontTruncated ==
  ASSUME NEW a, a.out_start \in Limits, ~CountsFromBack(a),
         NEW s \in Seq(Tokens), NEW n \in 0..Len(s)
  PROVE  StartTruncated(a, SubSeq(s, 1, n)) = Part(s, From(a.out_start) + 1, n)
<1>1. PICK t \in Seq(Tokens) : t = SubSeq(s, 1, n) /\ Len(t) = n /\ t = Part(s, 1, n)
  <2>1. SubSeq(s, 1, n) \in Seq(Tokens) /\ Len(SubSeq(s, 1, n)) = n
    BY HeadOfVector
  <2>2. SubSeq(s, 1, n) = Part(s, 1, n)
    BY SubSeqIsPart
  <2> QED
    BY <2>1, <2>2
<1>2. n \in Nat /\ n <= Len(s)
  OBVIOUS
<1>3. CASE a.out_start = NoLimit
  BY <1>1, <1>3 DEF StartTruncated, From
<1>4. CASE a.out_start # NoLimit /\ a.out_start >= n
  <2>1. a.out_start \in Nat
    BY <1>4 DEF Limits
  <2>2. Part(s, a.out_start + 1, n) = <<>>
    BY <1>2, <1>4, <2>1, EmptyPart
  <2> QED
    BY <1>1, <1>4, <2>2 DEF StartTruncated, From
<1>5. CASE a.out_start # NoLimit /\ ~(a.out_start >= n)
  <2>1. a.out_start \in Nat /\ a.out_start + 1 \in Nat \ {0}
    BY <1>5 DEF Limits
  <2>2. StartTruncated(a, t) = SubSeq(t, a.out_start + 1, Len(t))
    BY <1>1, <1>5 DEF StartTruncated
  <2>3. SubSeq(t, a.out_start + 1, n) = Part(t, a.out_start + 1, n)
    <3>1. PICK l \in Nat \ {0} : l = a.out_start + 1
      BY <2>1
    <3>2. t \in Seq(Tokens) /\ n \in 0..Len(t)
      BY <1>1, <1>2
    <3>3. SubSeq(t, l, n) = Part(t, l, n)
      BY ONLY <3>1, <3>2, SubSeqIsPart
    <3> QED
      BY <3>1, <3>3
  <2>4. Part(t, a.out_start + 1, n) = Part(s, 1 + (a.out_start + 1) - 1, 1 + n - 1)
    <3>1. PICK l \in Nat \ {0} : l = a.out_start + 1
      BY <2>1
    <3>2. /\ 1 \in Nat \ {0} /\ n \in Int /\ n <= Len(s) /\ n <= Len(Part(s, 1, n))
      BY <1>1, <1>2
    <3>3. Part(Part(s, 1, n), l, n) = Part(s, 1 + l - 1, 1 + n - 1)
      BY <3>2, PartOfPart
    <3> QED
      BY <1>1, <3>1, <3>3
  <2>5. 1 + (a.out_start + 1) - 1 = a.out_start + 1 /\ 1 + n - 1 = n
    BY <1>2, <2>1
  <2> QED
    BY <1>1, <1>5, <2>2, <2>3, <2>4, <2>5 DEF From
<1> QED
  BY <1>3, <1>4, <1>5

LEMMA BackTruncated ==
  ASSUME NEW a, a.out_start \in Limits, CountsFromBack(a),
         NEW s \in Seq(Tokens), NEW n \in 0..Len(s)
  PROVE  StartTruncated(a, SubSeq(s, Len(s) - n + 1, Len(s)))
           = Part(s, Len(s) - n + 1, Len(s) - From(a.out_start))
<1>1. PICK m \in Nat : m = Len(s)
  BY LenProperties
<1>2. n \in Nat /\ n <= m
  BY <1>1
<1>3. PICK low \in Nat \ {0} : low = m - n + 1
  <2>1. m - n + 1 \in Nat \ {0}
    BY <1>1, <1>2
  <2> QED
    BY <2>1
<1>4. PICK t \in Seq(Tokens) : t = SubSeq(s, low, m) /\ Len(t) = n /\ t = Part(s, low, m)
  <2>1. SubSeq(s, low, m) \in Seq(Tokens) /\ Len(SubSeq(s, low, m)) = n
    BY <1>1, <1>3, SpanOfAll
  <2>2. m \in 0..Len(s)
    BY <1>1
  <2>3. SubSeq(s, low, m) = Part(s, low, m)
    BY <2>2, SubSeqIsPart
  <2> QED
    BY <2>1, <2>3
<1>5. CASE a.out_start = NoLimit
  <2>1. StartTruncated(a, t) = t /\ m - 0 = m
    BY <1>5 DEF StartTruncated
  <2> QED
    BY <1>1, <1>3, <1>4, <1>5, <2>1 DEF From
<1>6. CASE a.out_start # NoLimit /\ a.out_start >= n
  <2>1. a.out_start \in Nat
    BY <1>6 DEF Limits
  <2>2. Part(s, low, m - a.out_start) = <<>>
    BY <1>2, <1>3, <1>6, <2>1, EmptyPart
  <2> QED
    BY <1>1, <1>3, <1>4, <1>6, <2>2 DEF StartTruncated, From
<1>7. CASE a.out_start # NoLimit /\ ~(a.out_start >= n)
  <2>1. a.out_start \in Nat
    BY <1>7 DEF Limits
  <2>2. StartTruncated(a, t) = SubSeq(t, 1, n - a.out_start)
    BY <1>4, <1>7 DEF StartTruncated
  <2>3. PICK h \in 0..n : h = n - a.out_start
    BY <1>2, <1>7, <2>1
  <2>4. SubSeq(t, 1, h) = Part(t, 1, h)
    <3>1. t \in Seq(Tokens) /\ h \in 0..Len(t) /\ 1 \in Nat \ {0}
      BY <1>4, <2>3
    <3> QED
      BY ONLY <3>1, SubSeqIsPart
  <2>5. Part(t, 1, h) = Part(s, low + 1 - 1, low + h - 1)
    <3>1. /\ 1 \in Nat \ {0} /\ h \in Int /\ m \in Int /\ m <= Len(s) /\ h <= Len(Part(s, low, m))
      BY <1>1, <1>4, <2>3
    <3> QED
      BY <1>4, <3>1, PartOfPart
  <2>6. low + 1 - 1 = low /\ low + h - 1 = m - a.out_start
    BY <1>2, <1>3, <2>1, <2>3
  <2> QED
    BY <1>1, <1>3, <1>4, <1>7, <2>2, <2>3, <2>4, <2>5, <2>6 DEF From
<1> QED
  BY <1>5, <1>6, <1>7

(* A listing in the order asked for is one of the promised orders.         *)
LEMMA ListingPromised ==
  ASSUME NEW o, o.sort, NEW s \in Seq(Tokens), NEW m \in Nat, m = Len(s),
         NEW g \in [1..m -> 1..m], Apart(g, m), \A k \in 1..m : \E i \in 1..m : g[i] = k,
         \A i, j \in 1..m : i < j => Wins(o, s, g[i], g[j])
  PROVE  Chosen(s, g, m) \in Promise!Orders(o, s)
<1>1. DOMAIN s = 1..m
  BY LenProperties
<1>2. g \in Promise!Bijection(1..m, 1..m)
  BY DEF Promise!Bijection, Promise!Injection, Promise!IsInjective, Promise!Surjection, Apart
<1>3. \A i, j \in 1..m :
        i < j => \/ Promise!Precedes(o, s[g[i]], s[g[j]])
                 \/ /\ ~Promise!Precedes(o, s[g[j]], s[g[i]])
                    /\ o.sort_stable => g[i] < g[j]
  BY DEF Wins, Before, Promise!Precedes
<1>4. Chosen(s, g, m) \in Promise!Sorted(o, s)
  BY <1>1, <1>2, <1>3 DEF Promise!Sorted, Chosen
<1> QED
  BY <1>4 DEF Promise!Orders

LEMMA CompiledFacts ==
  ASSUME NEW o \in OptionType, NEW a, a = Compile(o)
  PROVE  /\ a.sort = o.sort /\ a.sort_stable = o.sort_stable /\ a.unique = o.unique
         /\ a.tui = o.tui /\ a.sort \in BOOLEAN /\ a.tail \in BOOLEAN
         /\ a.out_start \in Limits /\ a.out_end \in Limits
         /\ o.flip \in BOOLEAN /\ o.sort_reverse \in BOOLEAN /\ o.sort \in BOOLEAN
         /\ a.tail <=> o.tail_end # NoLimit
         /\ a.tail => a.out_start = o.tail_start /\ a.out_end = o.tail_end
         /\ ~a.tail => a.out_start = o.out_start /\ a.out_end = o.out_end
         /\ ~(a.tail /\ a.sort) => a.flip = o.flip /\ a.sort_reverse = o.sort_reverse
         /\ a.tail /\ a.sort => a.flip = ~o.flip /\ a.sort_reverse = ~o.sort_reverse
  BY DEF Compile, OptionType, Turned

LEMMA ListedTokens ==
  ASSUME NEW s \in Seq(Tokens), NEW m \in Nat, m = Len(s), NEW n \in Nat, NEW g \in [1..n -> 1..m]
  PROVE  /\ Chosen(s, g, n) \in Seq(Tokens)
         /\ Len(Chosen(s, g, n)) = n
<1>1. PICK r : r = Chosen(s, g, n)
  OBVIOUS
<1>0. r = [i \in 1..n |-> s[g[i]]]
  BY <1>1 DEF Chosen
<1>2. \A i \in 1..n : r[i] \in Tokens
  <2> SUFFICES ASSUME NEW i \in 1..n PROVE r[i] \in Tokens
    OBVIOUS
  <2>1. g[i] \in 1..Len(s)
    OBVIOUS
  <2>2. s[g[i]] \in Tokens
    BY <2>1, ElementOfSeq
  <2> QED
    BY <1>0, <2>2
<1>3. r = [i \in 1..n |-> r[i]]
  BY ONLY <1>0
<1>4. r \in Seq(Tokens) /\ Len(r) = n
  BY ONLY <1>2, <1>3, n \in Nat, ListOfTokens
<1> QED
  BY <1>1, <1>4

Heads(r, l, n, m) == l \in Seq(Tokens) /\ Len(l) = m /\ r = SubSeq(l, 1, n)

LEMMA ListingHead ==
  ASSUME NEW s \in Seq(Tokens), NEW m \in Nat, m = Len(s), NEW n \in 0..m, NEW g \in [1..m -> 1..m],
         NEW l, l = Chosen(s, g, m)
  PROVE  Heads(Chosen(s, g, n), l, n, m)
<1>1. l \in Seq(Tokens) /\ Len(l) = m
  BY ListedTokens
<1>2. n \in Nat /\ n \in 0..Len(l)
  BY <1>1
<1>3. SubSeq(l, 1, n) = Part(l, 1, n)
  <2>1. 1 \in Nat \ {0}
    OBVIOUS
  <2> QED
    BY ONLY <1>1, <1>2, <2>1, SubSeqIsPart
<1>4. \A i \in 1..n : l[1 + i - 1] = s[g[i]]
  BY <1>2 DEF Chosen
<1>5. n - 1 + 1 = n
  BY <1>2
<1>6. Part(l, 1, n) = Chosen(s, g, n)
  BY <1>4, <1>5 DEF Part, Chosen
<1> QED
  BY <1>1, <1>3, <1>6 DEF Heads

(* A sort that is not reversed for --tail.                                 *)
LEMMA SortedFromFront ==
  ASSUME NEW o \in OptionType, Consistent(o), NEW a, a = Compile(o), a.sort, ~a.tail,
         NEW s \in Seq(Tokens), NEW m \in Nat, m = Len(s), NEW g, Listing(a, s, m, g),
         NEW n, n = UpTo(a.out_end, m), NEW t, t = Chosen(s, g, n)
  PROVE  \E order \in Promise!Orders(o, s) :
           Flipped(a, StartTruncated(a, t)) = Promise!Turned(o, Promise!Ranged(o, order))
<1>1. /\ a.out_start = o.out_start /\ a.out_end = o.out_end /\ o.tail_end = NoLimit
      /\ a.flip = o.flip /\ a.sort_reverse = o.sort_reverse /\ a.sort_stable = o.sort_stable
      /\ o.sort /\ a.out_start \in Limits /\ a.out_end \in Limits /\ ~CountsFromBack(a)
  BY CompiledFacts DEF CountsFromBack
<1>2. n \in 0..m
  BY <1>1, UpToWithin
<1>3. /\ g \in [1..m -> 1..m] /\ Apart(g, m)
      /\ \A k \in 1..m : \E i \in 1..m : g[i] = k
      /\ \A i, j \in 1..m : i < j => Wins(o, s, g[i], g[j])
  BY <1>1 DEF Listing, Wins, Before
<1>4. PICK l : l = Chosen(s, g, m)
  OBVIOUS
<1>5. l \in Promise!Orders(o, s)
  <2>1. o.sort /\ s \in Seq(Tokens) /\ m \in Nat /\ m = Len(s)
    BY <1>1
  <2>2. Chosen(s, g, m) \in Promise!Orders(o, s)
    BY ONLY <1>3, <2>1, ListingPromised
  <2> QED
    BY ONLY <1>4, <2>2
<1>6. l \in Seq(Tokens) /\ Len(l) = m /\ t = SubSeq(l, 1, n)
  <2>1. s \in Seq(Tokens) /\ m \in Nat /\ m = Len(s)
    OBVIOUS
  <2>2. g \in [1..m -> 1..m]
    BY <1>3
  <2>3. Heads(Chosen(s, g, n), l, n, m)
    BY ONLY <1>2, <1>4, <2>1, <2>2, ListingHead
  <2> QED
    BY <2>3 DEF Heads
<1>7. StartTruncated(a, t) = Part(l, From(a.out_start) + 1, n)
  <2>1. n \in 0..Len(l) /\ a.out_start \in Limits /\ ~CountsFromBack(a)
    BY <1>1, <1>2, <1>6
  <2>2. StartTruncated(a, SubSeq(l, 1, n)) = Part(l, From(a.out_start) + 1, n)
    BY ONLY <1>6, <2>1, FrontTruncated
  <2> QED
    BY <1>6, <2>2
<1>8. Promise!Ranged(o, l) = Part(l, From(a.out_start) + 1, n)
  <2>1. Promise!Ranged(o, l) = Part(l, LowOf(o, m), HighOf(o, m))
    BY <1>6, RangedIs
  <2> QED
    BY <1>1, <2>1 DEF LowOf, HighOf
<1>9. Flipped(a, StartTruncated(a, t)) = Promise!Turned(o, Promise!Ranged(o, l))
  <2>1. PICK p : p = StartTruncated(a, t) /\ p = Promise!Ranged(o, l) /\ p = Part(l, From(a.out_start) + 1, n)
    BY <1>7, <1>8
  <2>2. p \in Seq(Tokens)
    <3>1. From(a.out_start) + 1 \in Nat \ {0} /\ n \in Int /\ n <= Len(l)
      BY <1>1, <1>2, <1>6 DEF From, Limits, NoLimit
    <3>2. PICK low \in Nat \ {0} : low = From(a.out_start) + 1
      BY <3>1
    <3>3. Part(l, low, n) \in Seq(Tokens)
      BY ONLY <1>6, <3>1, <3>2, PartProperties
    <3> QED
      BY <2>1, <3>2, <3>3
  <2>3. Promise!Reverse(p) = Reverse(p)
    BY <2>2, ReverseIs
  <2> QED
    BY <1>1, <2>1, <2>3 DEF Flipped, Promise!Turned
<1> QED
  BY <1>5, <1>9

(* A sort that is reversed for --tail, unstable.                           *)
LEMMA SortedFromBack ==
  ASSUME NEW o \in OptionType, Consistent(o), ~o.sort_stable, NEW a, a = Compile(o), a.sort, a.tail,
         NEW s \in Seq(Tokens), NEW m \in Nat, m = Len(s), NEW g, Listing(a, s, m, g),
         NEW n, n = UpTo(a.out_end, m), NEW t, t = Chosen(s, g, n)
  PROVE  \E order \in Promise!Orders(o, s) :
           Flipped(a, StartTruncated(a, t)) = Promise!Turned(o, Promise!Ranged(o, order))
<1>1. /\ a.out_start = o.tail_start /\ a.out_end = o.tail_end /\ o.tail_end # NoLimit
      /\ a.flip = ~o.flip /\ a.sort_reverse = ~o.sort_reverse /\ a.sort_stable = o.sort_stable
      /\ o.sort /\ a.out_start \in Limits /\ a.out_end \in Limits /\ ~CountsFromBack(a)
      /\ o.flip \in BOOLEAN /\ o.sort_reverse \in BOOLEAN
  BY CompiledFacts DEF CountsFromBack
<1>2. n \in 0..m
  BY <1>1, UpToWithin
<1>3. /\ g \in [1..m -> 1..m] /\ Apart(g, m)
      /\ \A k \in 1..m : \E i \in 1..m : g[i] = k
      /\ \A i, j \in 1..m : i < j => Wins(a, s, g[i], g[j])
  BY DEF Listing
<1>4. s \in Seq(Tokens) /\ m \in Nat /\ m = Len(s)
  OBVIOUS
<1>5. PICK l : l = Chosen(s, g, m)
  OBVIOUS
<1>6. l \in Seq(Tokens) /\ Len(l) = m /\ t = SubSeq(l, 1, n)
  <2>2. g \in [1..m -> 1..m]
    BY <1>3
  <2>3. Heads(Chosen(s, g, n), l, n, m)
    BY ONLY <1>2, <1>4, <1>5, <2>2, ListingHead
  <2> QED
    BY <2>3 DEF Heads
<1>7. StartTruncated(a, t) = Part(l, From(a.out_start) + 1, n)
  <2>1. n \in 0..Len(l) /\ a.out_start \in Limits /\ ~CountsFromBack(a)
    BY <1>1, <1>2, <1>6
  <2>2. StartTruncated(a, SubSeq(l, 1, n)) = Part(l, From(a.out_start) + 1, n)
    BY ONLY <1>6, <2>1, FrontTruncated
  <2> QED
    BY <1>6, <2>2
<1>8. PICK h : h = [i \in 1..m |-> g[m - i + 1]]
  OBVIOUS
<1>9. \A i \in 1..m : m - i + 1 \in 1..m /\ h[i] = g[m - i + 1] /\ m - (m - i + 1) + 1 = i
  BY <1>8
<1>10. h \in [1..m -> 1..m]
  BY <1>3, <1>8, <1>9
<1>11. Apart(h, m)
  <2> SUFFICES ASSUME NEW i \in 1..m, NEW j \in 1..m, i # j PROVE h[i] # h[j]
    BY DEF Apart
  <2>1. PICK k \in 1..m, l1 \in 1..m : k = m - i + 1 /\ l1 = m - j + 1
    BY <1>9
  <2>2. k # l1
    BY <2>1
  <2>3. g[k] # g[l1]
    BY <1>3, <2>2 DEF Apart
  <2> QED
    BY <1>9, <2>1, <2>3
<1>12. \A k \in 1..m : \E i \in 1..m : h[i] = k
  <2> SUFFICES ASSUME NEW k \in 1..m PROVE \E i \in 1..m : h[i] = k
    OBVIOUS
  <2>1. PICK j \in 1..m : g[j] = k
    BY <1>3
  <2>2. m - j + 1 \in 1..m /\ h[m - j + 1] = g[j]
    BY <1>9
  <2> QED
    BY <2>1, <2>2
<1>13. \A i, j \in 1..m : i < j => Wins(o, s, h[i], h[j])
  <2> SUFFICES ASSUME NEW i \in 1..m, NEW j \in 1..m, i < j PROVE Wins(o, s, h[i], h[j])
    OBVIOUS
  <2>1. PICK k \in 1..m, l1 \in 1..m : k = m - j + 1 /\ l1 = m - i + 1
    BY <1>9
  <2>2. Wins(a, s, h[j], h[i])
    <3>1. k < l1
      BY <2>1
    <3>2. Wins(a, s, g[k], g[l1])
      BY <1>3, <3>1
    <3>3. h[j] = g[k] /\ h[i] = g[l1]
      BY <1>9, <2>1
    <3> QED
      BY <3>2, <3>3
  <2> QED
    BY <1>1, <2>2 DEF Wins, Before
<1>14. PICK r : r = Chosen(s, h, m)
  OBVIOUS
<1>15. r \in Promise!Orders(o, s)
  <2>1. o.sort
    BY <1>1
  <2>2. Chosen(s, h, m) \in Promise!Orders(o, s)
    BY ONLY <1>4, <1>10, <1>11, <1>12, <1>13, <2>1, ListingPromised
  <2> QED
    BY ONLY <1>14, <2>2
<1>16. r \in Seq(Tokens) /\ Len(r) = m
  <2>1. /\ Chosen(s, h, m) \in Seq(Tokens)
        /\ Len(Chosen(s, h, m)) = m
    BY ONLY <1>4, <1>10, ListedTokens
  <2> QED
    BY ONLY <1>14, <2>1
<1>17. r = Reverse(l)
  <2>1. PICK q \in Seq(Tokens) :
          q = Reverse(l) /\ Len(q) = m /\ \A i \in 1..m : q[i] = l[m - i + 1]
    BY <1>6, ReverseIs
  <2>2. \A i \in 1..m : r[i] = q[i]
    <3> SUFFICES ASSUME NEW i \in 1..m PROVE r[i] = q[i]
      OBVIOUS
    <3>1. r[i] = s[h[i]]
      BY ONLY <1>14, i \in 1..m DEF Chosen
    <3>2. l[m - i + 1] = s[g[m - i + 1]]
      BY <1>5, <1>9 DEF Chosen
    <3> QED
      BY <1>9, <2>1, <3>1, <3>2
  <2>3. r = q
    BY <1>16, <2>1, <2>2, SeqEqual
  <2> QED
    BY <2>1, <2>3
<1>18. PICK low \in Nat \ {0} : low = From(a.out_start) + 1
  <2>1. From(a.out_start) + 1 \in Nat \ {0}
    BY <1>1 DEF From, Limits, NoLimit
  <2> QED
    BY <2>1
<1>19. n \in Int /\ n <= Len(l)
  BY <1>2, <1>6
<1>20. PICK p \in Seq(Tokens) : p = Part(l, low, n)
  <2>1. Part(l, low, n) \in Seq(Tokens)
    BY ONLY <1>6, <1>18, <1>19, PartProperties
  <2> QED
    BY <2>1
<1>21. Promise!Ranged(o, r) = Reverse(p)
  <2>1. Promise!Ranged(o, r) = Part(r, LowOf(o, m), HighOf(o, m))
    BY <1>16, RangedIs
  <2>2. LowOf(o, m) = m - n + 1 /\ HighOf(o, m) = m - low + 1
    <3>1. From(a.out_start) \in Int
      BY <1>1 DEF From, Limits, NoLimit
    <3>2. LowOf(o, m) = m - n + 1 /\ HighOf(o, m) = m - From(a.out_start)
      BY <1>1 DEF LowOf, HighOf
    <3> QED
      BY <1>18, <3>1, <3>2
  <2>3. Part(Reverse(l), Len(l) - n + 1, Len(l) - low + 1) = Reverse(Part(l, low, n))
    BY ONLY <1>6, <1>18, <1>19, ReverseOfPart
  <2> QED
    BY <1>6, <1>17, <1>20, <2>1, <2>2, <2>3
<1>22. Flipped(a, StartTruncated(a, t)) = Promise!Turned(o, Promise!Ranged(o, r))
  <2>1. PICK q \in Seq(Tokens) : q = Reverse(p) /\ Promise!Reverse(q) = p
    <3>1. Reverse(p) \in Seq(Tokens) /\ Reverse(Reverse(p)) = p
      BY <1>20, ReverseIs, ReverseTwice
    <3>2. PICK q \in Seq(Tokens) : q = Reverse(p)
      BY <3>1
    <3>3. Promise!Reverse(q) = Reverse(q)
      BY ReverseIs
    <3> QED
      BY <3>1, <3>2, <3>3
  <2>2. Flipped(a, p) = IF o.flip THEN p ELSE q
    BY <1>1, <2>1 DEF Flipped
  <2>3. Promise!Turned(o, q) = IF o.flip THEN p ELSE q
    BY <2>1 DEF Promise!Turned
  <2> QED
    BY <1>7, <1>18, <1>20, <1>21, <2>1, <2>2, <2>3
<1> QED
  BY <1>15, <1>22

(* Without a sort.                                                         *)
EndOf(a, s, m, n) == IF a.tail THEN SubSeq(s, m - n + 1, m) ELSE SubSeq(s, 1, n)

LEMMA UnsortedRange ==
  ASSUME NEW o \in OptionType, Consistent(o), NEW a, a = Compile(o), ~a.sort,
         NEW s \in Seq(Tokens), NEW m \in Nat, m = Len(s), NEW n, n = UpTo(a.out_end, m),
         NEW t, t = EndOf(a, s, m, n)
  PROVE  \E order \in Promise!Orders(o, s) :
           Flipped(a, StartTruncated(a, t)) = Promise!Turned(o, Promise!Ranged(o, order))
<1>1. /\ a.flip = o.flip /\ ~o.sort /\ a.out_start \in Limits /\ a.out_end \in Limits
      /\ CountsFromBack(a) <=> a.tail
      /\ a.tail <=> o.tail_end # NoLimit
      /\ a.tail => a.out_start = o.tail_start /\ a.out_end = o.tail_end
      /\ ~a.tail => a.out_start = o.out_start /\ a.out_end = o.out_end
  BY CompiledFacts DEF CountsFromBack
<1>2. n \in 0..m
  BY <1>1, UpToWithin
<1>3. s \in Promise!Orders(o, s)
  BY <1>1 DEF Promise!Orders
<1>4. n \in 0..Len(s) /\ s \in Seq(Tokens) /\ a.out_start \in Limits
  BY <1>1, <1>2
<1>5. Promise!Ranged(o, s) = Part(s, LowOf(o, m), HighOf(o, m))
  BY RangedIs
<1>6. StartTruncated(a, t) = Promise!Ranged(o, s)
  <2>1. CASE a.tail
    <3>1. CountsFromBack(a) /\ t = SubSeq(s, Len(s) - n + 1, Len(s))
      BY <1>1, <2>1 DEF EndOf
    <3>2. StartTruncated(a, SubSeq(s, Len(s) - n + 1, Len(s)))
            = Part(s, Len(s) - n + 1, Len(s) - From(a.out_start))
      BY ONLY <1>4, <3>1, BackTruncated
    <3>3. LowOf(o, m) = m - n + 1 /\ HighOf(o, m) = m - From(a.out_start)
      BY <1>1, <2>1 DEF LowOf, HighOf
    <3> QED
      BY <1>5, <3>1, <3>2, <3>3
  <2>2. CASE ~a.tail
    <3>1. ~CountsFromBack(a) /\ t = SubSeq(s, 1, n)
      BY <1>1, <2>2 DEF EndOf
    <3>2. StartTruncated(a, SubSeq(s, 1, n)) = Part(s, From(a.out_start) + 1, n)
      BY ONLY <1>4, <3>1, FrontTruncated
    <3>3. LowOf(o, m) = From(a.out_start) + 1 /\ HighOf(o, m) = n
      BY <1>1, <2>2 DEF LowOf, HighOf
    <3> QED
      BY <1>5, <3>1, <3>2, <3>3
  <2> QED
    BY <2>1, <2>2
<1>7. Flipped(a, StartTruncated(a, t)) = Promise!Turned(o, Promise!Ranged(o, s))
  <2>1. PICK low \in Nat \ {0}, high \in Int :
          low = LowOf(o, m) /\ high = HighOf(o, m) /\ high <= Len(s)
    BY RangeWithin
  <2>2. Part(s, low, high) \in Seq(Tokens)
    BY ONLY s \in Seq(Tokens), <2>1, PartProperties
  <2>3. PICK p \in Seq(Tokens) : p = Promise!Ranged(o, s)
    BY <1>5, <2>1, <2>2
  <2>4. Promise!Reverse(p) = Reverse(p)
    BY ReverseIs
  <2> QED
    BY <1>1, <1>6, <2>3, <2>4 DEF Flipped, Promise!Turned
<1> QED
  BY <1>3, <1>7

(* Where the order is settled for equals too, it is settled for the rest.  *)
LEMMA StableListing ==
  ASSUME NEW a, NEW b, Stabilised(a, b), NEW s, NEW m, NEW g, Listing(b, s, m, g)
  PROVE  Listing(a, s, m, g)
  BY DEF Stabilised, Listing, Wins, Before

(* The vector is what the limits keep of the first occurrences.            *)
Collected(a, s, f) ==
  IF ~MemIsBounded(a) THEN s = f
  ELSE IF a.sort
  THEN Arrangements([a EXCEPT !.sort_stable = TRUE], f, Smaller(a.out_end, Len(f))) = {s}
  ELSE UnsortedWindow(a, s, f)

LEMMA SortedEnd ==
  ASSUME NEW a, a.sort, DOMAIN a = DOMAIN args, a.out_end \in Limits,
         "sort_stable" \in DOMAIN a, a = [k \in DOMAIN a |-> a[k]],
         NEW s, NEW f \in Seq(Tokens), Collected(a, s, f), NEW m \in Nat, m = Len(f),
         NEW n, n = UpTo(a.out_end, m), NEW t \in EndTruncations(a, s)
  PROVE  \E g : Listing(a, f, m, g) /\ t = Chosen(f, g, n)
<1>1. n \in 0..m
  BY UpToWithin
<1>2. f \in Seq(Tokens) /\ m \in Nat /\ m = Len(f)
  OBVIOUS
<1>3. CASE ~MemIsBounded(a)
  <2>1. s = f
    BY <1>3 DEF Collected
  <2>2. t \in Arrangements(a, f, n)
    BY <1>3, <2>1 DEF EndTruncations, UpTo
  <2>3. PICK g : Listing(a, f, m, g) /\ t = Chosen(f, g, n)
    BY ONLY <1>1, <1>2, <2>2, ArrangementExtends
  <2> QED
    BY <2>3
<1>4. CASE MemIsBounded(a)
  <2>1. PICK b : b = [a EXCEPT !.sort_stable = TRUE]
    OBVIOUS
  <2>2. Smaller(a.out_end, Len(f)) = n
    BY <1>4 DEF MemIsBounded, UpTo
  <2>3. Arrangements(b, f, n) = {s}
    BY <1>4, <2>1, <2>2 DEF Collected
  <2>4. t = s
    BY <1>4 DEF EndTruncations
  <2>5. t \in Arrangements(b, f, n)
    BY <2>3, <2>4
  <2>6. PICK g : Listing(b, f, m, g) /\ t = Chosen(f, g, n)
    BY ONLY <1>1, <1>2, <2>5, ArrangementExtends
  <2>7. Stabilised(a, b)
    BY <2>1 DEF Stabilised
  <2>8. Listing(a, f, m, g)
    BY ONLY <2>6, <2>7, StableListing
  <2> QED
    BY <2>6, <2>8
<1> QED
  BY <1>3, <1>4

LEMMA UnsortedEnd ==
  ASSUME NEW a, ~a.sort, a.tail \in BOOLEAN, NEW s, NEW f, Collected(a, s, f),
         NEW m, m = Len(f), NEW n, n = UpTo(a.out_end, m), NEW t \in EndTruncations(a, s)
  PROVE  t = EndOf(a, f, m, n)
<1>1. CASE ~MemIsBounded(a)
  <2>1. s = f
    BY <1>1 DEF Collected
  <2> QED
    BY <1>1, <2>1 DEF EndTruncations, UpTo, CountsFromBack, EndOf
<1>2. CASE MemIsBounded(a)
  <2>1. Smaller(a.out_end, Len(f)) = n
    BY <1>2 DEF MemIsBounded, UpTo
  <2>2. t = s
    BY <1>2 DEF EndTruncations
  <2>3. UnsortedWindow(a, s, f)
    BY <1>2 DEF Collected
  <2> QED
    BY <2>1, <2>2, <2>3 DEF UnsortedWindow, EndOf
<1> QED
  BY <1>1, <1>2

(* The option records that the promise is kept for.  With --tail, --sort   *)
(* and --stable together, the order of equal tokens is another.            *)
Promised(o) == Consistent(o) /\ ~(o.tail_end # NoLimit /\ o.sort /\ o.sort_stable)

(* What Finalise leaves is a result the options promise.                   *)
LEMMA FinalisedPromised ==
  ASSUME TypeOK, Promised(options), First \in Seq(Tokens),
         Promise!FirstOccurrences(options, arrivals) = First,
         NEW s, Collected(args, s, First), NEW t \in EndTruncations(args, s)
  PROVE  Flipped(args, StartTruncated(args, t)) \in Promise!Results(options, arrivals)
<1>1. /\ options \in OptionType /\ args = Compile(options) /\ Consistent(options)
      /\ ~(options.tail_end # NoLimit /\ options.sort /\ options.sort_stable)
  BY DEF TypeOK, Promised
<1>2. PICK f \in Seq(Tokens) : f = First
  OBVIOUS
<1>3. PICK m \in Nat : m = Len(f)
  BY LenProperties
<1>4. PICK n : n = UpTo(args.out_end, m)
  OBVIOUS
<1>5. /\ args.sort \in BOOLEAN /\ args.tail \in BOOLEAN /\ args.out_end \in Limits
      /\ args.sort = options.sort
      /\ args.tail <=> options.tail_end # NoLimit
  BY <1>1, CompiledFacts
<1>6. \E order \in Promise!Orders(options, f) :
        Flipped(args, StartTruncated(args, t)) = Promise!Turned(options, Promise!Ranged(options, order))
  <2>1. CASE args.sort
    <3>1. DOMAIN args = DOMAIN args /\ "sort_stable" \in DOMAIN args /\ args = [k \in DOMAIN args |-> args[k]]
      BY <1>1 DEF Compile
    <3>2. Collected(args, s, f)
      BY <1>2
    <3>3. PICK g : Listing(args, f, m, g) /\ t = Chosen(f, g, n)
      BY ONLY <1>3, <1>4, <1>5, <2>1, <3>1, <3>2, f \in Seq(Tokens), t \in EndTruncations(args, s), SortedEnd
    <3>4. CASE args.tail
      <4>1. ~options.sort_stable
        BY <1>1, <1>5, <2>1, <3>4
      <4> QED
        BY ONLY <1>1, <1>3, <1>4, <2>1, <3>3, <3>4, <4>1, f \in Seq(Tokens), SortedFromBack
    <3>5. CASE ~args.tail
      BY ONLY <1>1, <1>3, <1>4, <2>1, <3>3, <3>5, f \in Seq(Tokens), SortedFromFront
    <3> QED
      BY <3>4, <3>5
  <2>2. CASE ~args.sort
    <3>1. Collected(args, s, f)
      BY <1>2
    <3>2. t = EndOf(args, f, m, n)
      BY ONLY <1>3, <1>4, <1>5, <2>2, <3>1, t \in EndTruncations(args, s), UnsortedEnd
    <3> QED
      BY ONLY <1>1, <1>3, <1>4, <2>2, <3>2, f \in Seq(Tokens), UnsortedRange
  <2> QED
    BY <1>5, <2>1, <2>2
<1> QED
  BY <1>2, <1>6 DEF Promise!Results

-------------------------------------------------------------------------------
(* The tokens that are written.                                            *)

TokenTold(ids, item, none) == WithToken(ids, item)

W == INSTANCE FoldLemmas WITH Op <- TokenTold

ToldIn(items) == W!Fold(<<>>, items, 0)

LEMMA WrittenIdsIs == ASSUME NEW items PROVE WrittenIds(items) = ToldIn(items)
  BY DEF WrittenIds, ToldIn, W!Fold, FoldLeft, W!FoldLeft, MapThenFoldSet,
         W!MapThenFoldSet, Max, W!Max, TokenTold

LEMMA ToldNone == ToldIn(<<>>) = <<>>
  BY W!FoldEmpty DEF ToldIn

LEMMA ToldAppend ==
  ASSUME NEW l \in Seq(Items), NEW k, NEW n
  PROVE  ToldIn(Append(l, Item(k, n))) = IF k = "token" THEN Append(ToldIn(l), n) ELSE ToldIn(l)
<1>1. PICK x : x = Item(k, n) /\ x.kind = k /\ x.id = n
  <2>1. Item(k, n).kind = k /\ Item(k, n).id = n
    BY DEF Item
  <2> QED
    BY <2>1
<1>2. /\ DOMAIN l = 1..Len(l) /\ DOMAIN Append(l, x) = 1..Len(l) + 1 /\ Len(l) \in Nat
      /\ Append(l, x)[Len(l) + 1] = x /\ \A i \in 1..Len(l) : l[i] = Append(l, x)[i]
  <2>1. IsSequence(l)
    BY DEF IsSequence
  <2>2. /\ DOMAIN Append(l, x) = 1..Len(l) + 1 /\ DOMAIN l = 1..Len(l) /\ Len(l) \in Nat
        /\ \A i \in 1..Len(l) : Append(l, x)[i] = l[i]
        /\ Append(l, x)[Len(l) + 1] = x
    BY <2>1, AppendedSequence
  <2> QED
    BY <2>2
<1>3. PICK m, q : m = Len(l) /\ q = Append(l, x)
  OBVIOUS
<1>4. /\ m \in Nat /\ DOMAIN l = 1..m /\ DOMAIN q = 1..m + 1 /\ q[m + 1] = x
      /\ \A i \in 1..m : l[i] = q[i]
  BY <1>2, <1>3
<1>5. W!Fold(<<>>, q, 0) = TokenTold(W!Fold(<<>>, l, 0), q[m + 1], 0)
  BY ONLY <1>4, W!FoldLast
<1> QED
  BY <1>1, <1>3, <1>4, <1>5 DEF ToldIn, TokenTold, WithToken

LEMMA ToldWithDelimiter ==
  ASSUME NEW s \in Streams, NEW a
  PROVE  WithDelimiter(s, a) \in Seq(Items) /\ ToldIn(WithDelimiter(s, a)) = ToldIn(s.out)
<1>1. s.out \in Seq(Items) /\ WithDelimiter(s, a) \in Seq(Items)
  BY 0 \in Nat, ItemsWritten
<1>2. ToldIn(Append(s.out, Item("delimiter", 0))) = ToldIn(s.out)
  BY <1>1, ToldAppend
<1> QED
  BY <1>1, <1>2 DEF WithDelimiter

LEMMA ToldWritten ==
  ASSUME NEW s \in Streams, NEW a, NEW n \in Nat
  PROVE  /\ ToldIn(WriteOutputNoTruncate(s, a, n).out) = Append(ToldIn(s.out), n)
         /\ ToldIn(WriteOutput(s, a, n).out) =
              IF BeginDiscard(s, a) THEN ToldIn(s.out) ELSE Append(ToldIn(s.out), n)
         /\ ToldIn(WriteOutputFragment(s, a, n).out) = ToldIn(s.out)
         /\ ToldIn(WriteBetween(s).out) = ToldIn(s.out)
         /\ ToldIn(FinishOutput(s, a).out) = ToldIn(s.out)
<1>1. /\ s.out \in Seq(Items) /\ WithDelimiter(s, a) \in Seq(Items)
      /\ ToldIn(WithDelimiter(s, a)) = ToldIn(s.out)
  BY 0 \in Nat, ItemsWritten, ToldWithDelimiter
<1>2. /\ ToldIn(Append(WithDelimiter(s, a), Item("token", n))) = Append(ToldIn(s.out), n)
      /\ ToldIn(Append(WithDelimiter(s, a), Item("fragment", n))) = ToldIn(s.out)
      /\ ToldIn(Append(s.out, Item("fragment", n))) = ToldIn(s.out)
      /\ ToldIn(Append(s.out, Item("between", 0))) = ToldIn(s.out)
      /\ ToldIn(Append(s.out, Item("batch", 0))) = ToldIn(s.out)
  BY <1>1, ToldAppend
<1> QED
  BY <1>1, <1>2, ItemsWritten

Texts(ids, all) == [n \in DOMAIN ids |-> all[ids[n]]]

LEMMA TextsOf ==
  ASSUME NEW all \in Seq(Tokens), NEW ids \in Seq(DOMAIN all)
  PROVE  /\ Texts(ids, all) \in Seq(Tokens) /\ Len(Texts(ids, all)) = Len(ids)
         /\ \A i \in 1..Len(ids) : Texts(ids, all)[i] = all[ids[i]]
<1>1. PICK n \in Nat : n = Len(ids) /\ DOMAIN ids = 1..n
  BY LenProperties
<1>2. PICK r : r = Texts(ids, all)
  OBVIOUS
<1>3. r = [i \in 1..n |-> all[ids[i]]]
  BY <1>1, <1>2 DEF Texts
<1>4. \A i \in 1..n : r[i] = all[ids[i]] /\ r[i] \in Tokens
  <2> SUFFICES ASSUME NEW i \in 1..n PROVE r[i] = all[ids[i]] /\ r[i] \in Tokens
    OBVIOUS
  <2>1. ids[i] \in DOMAIN all
    BY <1>1, ElementOfSeq
  <2>2. all[ids[i]] \in Tokens
    BY <2>1, ElementOfSeq, LenProperties
  <2> QED
    BY <1>3, <2>2
<1>5. r = [i \in 1..n |-> r[i]]
  BY ONLY <1>3
<1>6. r \in Seq(Tokens) /\ Len(r) = n
  BY ONLY <1>4, <1>5, n \in Nat, ListOfTokens
<1> QED
  BY <1>1, <1>2, <1>4, <1>6

LEMMA TextsAfterArrival ==
  ASSUME NEW all \in Seq(Tokens), NEW ids \in Seq(DOMAIN all), NEW t \in Tokens
  PROVE  /\ ids \in Seq(DOMAIN Append(all, t))
         /\ Texts(ids, Append(all, t)) = Texts(ids, all)
<1>1. PICK more \in Seq(Tokens) : more = Append(all, t)
  BY AppendProperties
<1>2. DOMAIN all \subseteq DOMAIN more /\ \A i \in DOMAIN all : more[i] = all[i]
  <2>1. /\ DOMAIN all = 1..Len(all) /\ DOMAIN more = 1..Len(all) + 1 /\ Len(all) \in Nat
        /\ \A i \in 1..Len(all) : more[i] = all[i]
    BY <1>1, AppendProperties, LenProperties
  <2> QED
    BY <2>1
<1>3. \A i \in DOMAIN ids : ids[i] \in DOMAIN all
  BY ElementOfSeq, LenProperties
<1>4. Texts(ids, more) = Texts(ids, all)
  BY <1>2, <1>3 DEF Texts
<1>5. ids \in Seq(DOMAIN more)
  <2>1. PICK S, T : S = DOMAIN all /\ T = DOMAIN more
    OBVIOUS
  <2>2. S \subseteq T /\ ids \in Seq(S)
    BY <1>2, <2>1
  <2>3. ids \in Seq(T)
    BY ONLY <2>2
  <2> QED
    BY <2>1, <2>3
<1> QED
  BY <1>1, <1>4, <1>5

LEMMA TextsAfterWrite ==
  ASSUME NEW all \in Seq(Tokens), NEW ids \in Seq(DOMAIN all), NEW n \in DOMAIN all
  PROVE  /\ Append(ids, n) \in Seq(DOMAIN all)
         /\ Texts(Append(ids, n), all) = Append(Texts(ids, all), all[n])
<1>1. PICK more \in Seq(DOMAIN all) : more = Append(ids, n)
  BY AppendProperties
<1>2. /\ Len(ids) \in Nat /\ Len(more) = Len(ids) + 1 /\ more[Len(ids) + 1] = n
      /\ \A i \in 1..Len(ids) : more[i] = ids[i]
  BY <1>1, AppendProperties, LenProperties
<1>3. PICK r \in Seq(Tokens) :
        r = Texts(ids, all) /\ Len(r) = Len(ids) /\ \A i \in 1..Len(ids) : r[i] = all[ids[i]]
  BY TextsOf
<1>4. PICK q \in Seq(Tokens) :
        q = Texts(more, all) /\ Len(q) = Len(more) /\ \A i \in 1..Len(more) : q[i] = all[more[i]]
  BY TextsOf
<1>5. all[n] \in Tokens
  BY ElementOfSeq, LenProperties
<1>6. PICK p \in Seq(Tokens) : p = Append(r, all[n])
  BY <1>5, AppendProperties
<1>7. Len(p) = Len(r) + 1 /\ p[Len(r) + 1] = all[n] /\ \A i \in 1..Len(r) : p[i] = r[i]
  BY <1>5, <1>6, AppendProperties
<1>8. \A i \in 1..Len(ids) + 1 : p[i] = q[i]
  <2> SUFFICES ASSUME NEW i \in 1..Len(ids) + 1 PROVE p[i] = q[i]
    OBVIOUS
  <2>1. CASE i = Len(ids) + 1
    BY <1>2, <1>3, <1>4, <1>7, <2>1
  <2>2. CASE i # Len(ids) + 1
    <3>1. i \in 1..Len(ids)
      BY <1>2, <2>2
    <3> QED
      BY <1>2, <1>3, <1>4, <1>7, <3>1
  <2> QED
    BY <2>1, <2>2
<1>9. p = q
  BY <1>2, <1>3, <1>4, <1>7, <1>8, SeqEqual
<1> QED
  BY <1>1, <1>3, <1>4, <1>6, <1>9

(* One more at the end of a range of all that there is.                    *)
LEMMA PartExtended ==
  ASSUME NEW s \in Seq(Tokens), NEW t \in Tokens, NEW low \in Nat \ {0}
  PROVE  Part(Append(s, t), low, Len(s) + 1)
           = IF Len(s) + 1 < low THEN Part(s, low, Len(s)) ELSE Append(Part(s, low, Len(s)), t)
<1>1. PICK m \in Nat : m = Len(s)
  BY LenProperties
<1>2. PICK more \in Seq(Tokens) : more = Append(s, t)
  BY AppendProperties
<1>3. Len(more) = m + 1 /\ more[m + 1] = t /\ \A i \in 1..m : more[i] = s[i]
  BY <1>1, <1>2, AppendProperties
<1>4. CASE m + 1 < low
  <2>1. m < low /\ m + 1 \in Int
    BY <1>4
  <2>2. Part(more, low, m + 1) = <<>> /\ Part(s, low, m) = <<>>
    BY <1>4, <2>1, EmptyPart
  <2> QED
    BY <1>1, <1>2, <1>4, <2>2
<1>5. CASE ~(m + 1 < low)
  <2>1. PICK p \in Seq(Tokens) :
          /\ p = Part(s, low, m) /\ Len(p) = m - low + 1
          /\ \A i \in 1..(m - low + 1) : p[i] = s[low + i - 1]
    <3>1. m \in Int /\ m <= Len(s)
      BY <1>1
    <3>2. /\ Part(s, low, m) \in Seq(Tokens)
          /\ Len(Part(s, low, m)) = IF m < low THEN 0 ELSE m - low + 1
          /\ \A i \in 1..(m - low + 1) : Part(s, low, m)[i] = s[low + i - 1]
      BY <3>1, PartProperties
    <3>3. (IF m < low THEN 0 ELSE m - low + 1) = m - low + 1
      BY <1>5
    <3> QED
      BY <3>2, <3>3
  <2>2. PICK q \in Seq(Tokens) :
          /\ q = Part(more, low, m + 1) /\ Len(q) = m - low + 2
          /\ \A i \in 1..m - low + 2 : q[i] = more[low + i - 1]
    <3>1. m + 1 \in Int /\ m + 1 <= Len(more) /\ (m + 1) - low + 1 = m - low + 2
      BY <1>3
    <3>2. /\ Part(more, low, m + 1) \in Seq(Tokens)
          /\ Len(Part(more, low, m + 1)) = IF m + 1 < low THEN 0 ELSE (m + 1) - low + 1
          /\ \A i \in 1..((m + 1) - low + 1) : Part(more, low, m + 1)[i] = more[low + i - 1]
      BY <3>1, PartProperties
    <3> QED
      BY <1>5, <3>1, <3>2
  <2>3. PICK w \in Seq(Tokens) : w = Append(p, t)
    BY <2>1, AppendProperties
  <2>4. Len(w) = Len(p) + 1 /\ w[Len(p) + 1] = t /\ \A i \in 1..Len(p) : w[i] = p[i]
    BY <2>1, <2>3, AppendProperties
  <2>5. \A i \in 1..m - low + 2 : w[i] = q[i]
    <3> SUFFICES ASSUME NEW i \in 1..m - low + 2 PROVE w[i] = q[i]
      OBVIOUS
    <3>1. CASE i = m - low + 2
      <4>1. low + i - 1 = m + 1 /\ i = Len(p) + 1
        BY <2>1, <3>1
      <4> QED
        BY <1>3, <2>2, <2>4, <4>1
    <3>2. CASE i # m - low + 2
      <4>1. i \in 1..(m - low + 1) /\ low + i - 1 \in 1..m
        BY <3>2
      <4> QED
        BY <1>3, <2>1, <2>2, <2>4, <4>1
    <3> QED
      BY <3>1, <3>2
  <2>6. Len(w) = m - low + 2
    BY <2>1, <2>4
  <2>7. w = q
    BY <2>2, <2>5, <2>6, SeqEqual
  <2> QED
    BY <1>1, <1>2, <1>5, <2>1, <2>2, <2>3, <2>7
<1> QED
  BY <1>4, <1>5

-------------------------------------------------------------------------------
(* The promise, step by step.                                              *)

Told == ToldIn(stream.out)

Given == Promise!Results(options, arrivals)

Delivery ==
  /\ Promised(options)
  /\ phase # "done" => Told \in Seq(DOMAIN arrivals)
  /\ phase = "reading" /\ IsDirectOutput(args) =>
       Texts(Told, arrivals) = Part(First, From(args.out_start) + 1, Len(First))
  /\ phase = "reading" /\ ~IsDirectOutput(args) /\ ~MemIsBounded(args) => output = First
  /\ phase = "finalising" => Collected(args, output, First)
  /\ phase = "writing" =>
       /\ output \in Given
       /\ next <= Len(output) + 1
       /\ ~args.tui => Texts(Told, arrivals) = Part(output, 1, next - 1)

(* Nothing comes of nothing.                                               *)
LEMMA ResultOfNone ==
  ASSUME NEW o \in OptionType, Consistent(o) PROVE <<>> \in Promise!Results(o, <<>>)
<1>1. Promise!FirstOccurrences(o, <<>>) = <<>>
  <2>1. Promise!FirstOccurrences(o, <<>>) = FirstOf(o.unique, <<>>)
    BY DEF Promise!FirstOccurrences, FirstOf, O!Fold, Promise!FoldLeft, O!FoldLeft,
           Promise!MapThenFoldSet, O!MapThenFoldSet, Promise!Max, O!Max, Joined
  <2> QED
    BY <2>1, FirstNone
<1>2. <<>> \in Seq(Tokens) /\ Len(<<>>) = 0 /\ 1..0 = {}
  OBVIOUS
<1>3. <<>> \in Promise!Orders(o, <<>>)
  <2>1. CASE o.sort
    <3>1. PICK g : g = [i \in 1..0 |-> 0]
      OBVIOUS
    <3>2. /\ g \in [1..0 -> 1..0] /\ Apart(g, 0)
          /\ \A k \in 1..0 : \E i \in 1..0 : g[i] = k
          /\ \A i, j \in 1..0 : i < j => Wins(o, <<>>, g[i], g[j])
      BY <1>2, <3>1 DEF Apart
    <3>3. PICK s \in Seq(Tokens) : s = <<>> /\ 0 = Len(s)
      BY <1>2
    <3>4. Chosen(s, g, 0) \in Promise!Orders(o, s)
      BY ONLY <2>1, <3>2, <3>3, 0 \in Nat, ListingPromised
    <3>5. Chosen(s, g, 0) = <<>>
      BY <1>2 DEF Chosen
    <3> QED
      BY <3>3, <3>4, <3>5
  <2>2. CASE ~o.sort
    BY <2>2 DEF Promise!Orders
  <2> QED
    BY <2>1, <2>2
<1>4. PICK low \in Nat \ {0}, high \in Int : low = LowOf(o, 0) /\ high = HighOf(o, 0) /\ high <= 0
  BY 0 \in Nat, RangeWithin
<1>5. Promise!Ranged(o, <<>>) = <<>>
  <2>1. Promise!Ranged(o, <<>>) = Part(<<>>, low, high)
    BY <1>2, <1>4, RangedIs
  <2>2. high < low
    BY <1>4
  <2>3. Part(<<>>, low, high) = <<>>
    BY ONLY low \in Nat \ {0}, high \in Int, <2>2, EmptyPart
  <2> QED
    BY <2>1, <2>3
<1>6. Promise!Turned(o, <<>>) = <<>>
  <2>1. Promise!Reverse(<<>>) = <<>>
    BY <1>2 DEF Promise!Reverse
  <2> QED
    BY <2>1 DEF Promise!Turned
<1> QED
  BY <1>1, <1>3, <1>5, <1>6 DEF Promise!Results

LEMMA InitDelivery ==
  ASSUME \A o \in OptionSets : Promised(o), Init PROVE Delivery
<1>1. /\ options \in OptionType /\ Promised(options) /\ args = Compile(options)
      /\ arrivals = <<>> /\ output = <<>> /\ stream = NewStream /\ next = 1
      /\ phase \in {"reading", "writing"}
  BY OptionsAssumption DEF Init
<1>2. Told = <<>>
  BY <1>1, ToldNone DEF Told, NewStream
<1>3. First = <<>>
  BY <1>1, FirstNone DEF First
<1>4. <<>> \in Seq({}) /\ DOMAIN <<>> = {} /\ Len(<<>>) = 0
  OBVIOUS
<1>5. Texts(Told, arrivals) = <<>>
  BY <1>2, <1>4 DEF Texts
<1>6. From(args.out_start) + 1 \in Int /\ 0 < From(args.out_start) + 1
  <2>1. args.out_start \in Limits
    BY <1>1, CompiledFacts
  <2> QED
    BY <2>1 DEF From, Limits, NoLimit
<1>7. Part(First, From(args.out_start) + 1, Len(First)) = <<>>
  BY <1>3, <1>4, <1>6, EmptyPart
<1>8. <<>> \in Given
  BY <1>1, ResultOfNone DEF Given, Promised
<1>9. Part(output, 1, next - 1) = <<>> /\ next <= Len(output) + 1
  <2>1. 1 \in Int /\ 0 \in Int /\ 0 < 1 /\ next - 1 = 0
    BY <1>1
  <2>2. Part(<<>>, 1, 0) = <<>>
    BY ONLY <2>1, EmptyPart
  <2> QED
    BY <1>1, <1>4, <2>1, <2>2
<1>10. Told \in Seq(DOMAIN arrivals)
  BY <1>1, <1>2
<1> QED
  BY <1>1, <1>3, <1>5, <1>7, <1>8, <1>9, <1>10 DEF Delivery

(* What Window says of the vector, said of both ways to keep it.           *)
LEMMA ReadingCollects ==
  ASSUME Inv, Window, Delivery, phase = "reading", ~IsDirectOutput(args)
  PROVE  Collected(args, output, First)
<1>1. CASE ~MemIsBounded(args)
  BY <1>1 DEF Delivery, Collected
<1>2. CASE MemIsBounded(args) /\ args.sort
  BY <1>2, SortedCounts DEF Collected
<1>3. CASE MemIsBounded(args) /\ ~args.sort
  BY <1>3, UnsortedCounts DEF Collected
<1> QED
  BY <1>1, <1>2, <1>3

(* When nothing that is written changes.                                   *)
LEMMA FirstKept == UNCHANGED <<args, arrivals>> => First' = First
  BY DEF First

LEMMA GivenKept == UNCHANGED <<options, arrivals>> => Given' = Given
  BY DEF Given

LEMMA WriteFragmentDelivery == Inv /\ Delivery /\ (WriteFragment \/ CopyBetween) => Delivery'
<1> SUFFICES ASSUME Inv, Delivery, WriteFragment \/ CopyBetween PROVE Delivery'
  OBVIOUS
<1>1. /\ options' = options /\ args' = args /\ arrivals' = arrivals /\ output' = output
      /\ phase = "reading" /\ phase' = phase
      /\ stream' = WriteOutputFragment(stream, args, Len(arrivals) + 1) \/ stream' = WriteBetween(stream)
  BY DEF WriteFragment, CopyBetween, Reading
<1>2. stream \in Streams /\ Len(arrivals) + 1 \in Nat
  BY LenProperties DEF Inv, TypeOK
<1>3. Told' = Told
  <2>1. PICK n \in Nat : n = Len(arrivals) + 1
    BY <1>2
  <2>2. /\ ToldIn(WriteOutputFragment(stream, args, n).out) = ToldIn(stream.out)
        /\ ToldIn(WriteBetween(stream).out) = ToldIn(stream.out)
    BY ONLY n \in Nat, <1>2, ToldWritten
  <2>3. ToldIn(stream'.out) = ToldIn(stream.out)
    BY <1>1, <2>1, <2>2
  <2> QED
    BY <2>3 DEF Told
<1>4. First' = First
  BY <1>1, FirstKept
<1> QED
  BY <1>1, <1>3, <1>4 DEF Delivery

LEMMA EndOfInputDelivery == Inv /\ Window /\ Delivery /\ EndOfInput => Delivery'
<1> SUFFICES ASSUME Inv, Window, Delivery, EndOfInput PROVE Delivery'
  OBVIOUS
<1>1. /\ options' = options /\ args' = args /\ arrivals' = arrivals /\ output' = output
      /\ phase = "reading"
      /\ IF IsDirectOutput(args) THEN phase' = "done" ELSE phase' = "finalising" /\ stream' = stream
  BY DEF EndOfInput
<1>2. First' = First
  BY <1>1, FirstKept
<1>3. CASE IsDirectOutput(args)
  BY <1>1, <1>3 DEF Delivery
<1>4. CASE ~IsDirectOutput(args)
  <2>1. Collected(args, output, First)
    BY <1>1, <1>4, ReadingCollects
  <2>2. Told' = Told
    BY <1>1, <1>4 DEF Told
  <2> QED
    BY <1>1, <1>2, <1>4, <2>1, <2>2 DEF Delivery
<1> QED
  BY <1>3, <1>4

LEMMA FinaliseDelivery == Inv /\ OutputInv /\ Window /\ Delivery /\ Finalise => Delivery'
<1> SUFFICES ASSUME Inv, OutputInv, Window, Delivery, Finalise PROVE Delivery'
  OBVIOUS
<1>1. PICK t \in EndTruncations(args, output) :
        output' = Flipped(args, StartTruncated(args, t))
  BY DEF Finalise
<1>2. /\ options' = options /\ args' = args /\ arrivals' = arrivals /\ next' = next
      /\ phase = "finalising" /\ phase' = "writing" /\ stream' = stream
  BY DEF Finalise
<1>3. /\ stream = NewStream /\ next = 1 /\ Collected(args, output, First) /\ Promised(options)
      /\ First \in Seq(Tokens) /\ TypeOK
  BY <1>2 DEF OutputInv, Delivery, Window, FirstVector, Inv
<1>4. Promise!FirstOccurrences(options, arrivals) = First
  BY FirstGiven
<1>5. output' \in Promise!Results(options, arrivals)
  BY ONLY <1>1, <1>3, <1>4, FinalisedPromised
<1>6. output' \in Given'
  BY <1>2, <1>5 DEF Given
<1>7. Told' = <<>>
  BY <1>2, <1>3, ToldNone DEF Told, NewStream
<1>8. Texts(Told', arrivals') = <<>>
  BY <1>7 DEF Texts
<1>9. output' \in Seq(Tokens)
  BY <1>1, <1>3, FinaliseKeeps
<1>10. Part(output', 1, next' - 1) = <<>> /\ next' <= Len(output') + 1
  <2>1. 1 \in Int /\ 0 \in Int /\ 0 < 1 /\ next' - 1 = 0
    BY <1>2, <1>3
  <2>2. Part(output', 1, 0) = <<>>
    BY ONLY <2>1, EmptyPart
  <2>3. Len(output') \in Nat
    BY <1>9, LenProperties
  <2> QED
    BY <1>2, <1>3, <2>1, <2>2, <2>3
<1>11. Told' \in Seq(DOMAIN arrivals')
  BY <1>7
<1> QED
  BY <1>2, <1>3, <1>6, <1>8, <1>10, <1>11 DEF Delivery

LEMMA WriteNextDelivery == Inv /\ Traced /\ Delivery /\ WriteNext => Delivery'
<1> SUFFICES ASSUME Inv, Traced, Delivery, WriteNext PROVE Delivery'
  OBVIOUS
<1>1. /\ options' = options /\ args' = args /\ arrivals' = arrivals /\ output' = output
      /\ phase = "writing" /\ phase' = "writing" /\ ~args.tui /\ next <= Len(output)
      /\ stream' = WriteOutputNoTruncate(stream, args, output[next].id) /\ next' = next + 1
  BY DEF WriteNext
<1>2. /\ stream \in Streams /\ arrivals \in Seq(Tokens) /\ output \in Seq(Tokens)
      /\ next \in Nat \ {0}
  BY DEF Inv, TypeOK
<1>3. /\ Told \in Seq(DOMAIN arrivals) /\ output \in Given /\ Promised(options)
      /\ Texts(Told, arrivals) = Part(output, 1, next - 1)
  BY <1>1 DEF Delivery
<1>4. next \in DOMAIN output /\ DOMAIN output = 1..Len(output) /\ Len(output) \in Nat
  BY <1>1, <1>2, LenProperties
<1>5. PICK n \in DOMAIN arrivals : n = output[next].id /\ arrivals[n] = output[next]
  BY <1>4 DEF Traced, TracedVector
<1>6. n \in Nat
  BY <1>2, LenProperties
<1>7. Told' = Append(Told, n)
  <2>1. ToldIn(stream'.out) = Append(ToldIn(stream.out), n)
    BY <1>1, <1>2, <1>5, <1>6, ToldWritten
  <2> QED
    BY <2>1 DEF Told
<1>8. /\ Append(Told, n) \in Seq(DOMAIN arrivals)
      /\ Texts(Append(Told, n), arrivals) = Append(Texts(Told, arrivals), arrivals[n])
  BY <1>2, <1>3, TextsAfterWrite
<1>9. Append(Part(output, 1, next - 1), output[next]) = Part(output, 1, next)
  <2>1. PICK h \in Seq(Tokens) : h = SubSeq(output, 1, next - 1) /\ Len(h) = next - 1
                                 /\ h = Part(output, 1, next - 1)
                                 /\ \A i \in 1..next - 1 : h[i] = output[i]
    <3>1. next - 1 \in 0..Len(output) /\ 1 \in Nat \ {0}
      BY <1>1, <1>2, <1>4
    <3>2. /\ SubSeq(output, 1, next - 1) \in Seq(Tokens)
          /\ Len(SubSeq(output, 1, next - 1)) = next - 1
          /\ \A i \in 1..next - 1 : SubSeq(output, 1, next - 1)[i] = output[i]
      BY ONLY <1>2, <3>1, HeadOfVector
    <3>3. SubSeq(output, 1, next - 1) = Part(output, 1, next - 1)
      BY ONLY <1>2, <3>1, SubSeqIsPart
    <3> QED
      BY <3>2, <3>3
  <2>2. PICK q \in Seq(Tokens) : q = Part(output, 1, next) /\ Len(q) = next
                                 /\ \A i \in 1..next : q[i] = output[i]
    <3>1. next \in Int /\ next <= Len(output) /\ 1 \in Nat \ {0} /\ ~(next < 1) /\ next - 1 + 1 = next
      BY <1>1, <1>2
    <3>2. /\ Part(output, 1, next) \in Seq(Tokens)
          /\ Len(Part(output, 1, next)) = IF next < 1 THEN 0 ELSE next - 1 + 1
          /\ \A i \in 1..(next - 1 + 1) : Part(output, 1, next)[i] = output[1 + i - 1]
      BY ONLY <1>2, <3>1, PartProperties
    <3>3. \A i \in 1..next : 1 + i - 1 = i
      BY <1>2
    <3> QED
      BY <3>1, <3>2, <3>3
  <2>3. output[next] \in Tokens
    BY <1>2, <1>4, ElementOfSeq
  <2>4. PICK w \in Seq(Tokens) : w = Append(h, output[next])
    BY <2>1, <2>3, AppendProperties
  <2>5. Len(w) = next /\ w[next] = output[next] /\ \A i \in 1..next - 1 : w[i] = h[i]
    <3>1. Len(w) = Len(h) + 1 /\ w[Len(h) + 1] = output[next] /\ \A i \in 1..Len(h) : w[i] = h[i]
      BY <2>1, <2>3, <2>4, AppendProperties
    <3>2. Len(h) + 1 = next
      BY <1>2, <2>1
    <3> QED
      BY <2>1, <3>1, <3>2
  <2>6. \A i \in 1..next : w[i] = q[i]
    <3> SUFFICES ASSUME NEW i \in 1..next PROVE w[i] = q[i]
      OBVIOUS
    <3>1. i = next \/ i \in 1..next - 1
      BY <1>2
    <3> QED
      BY <2>1, <2>2, <2>5, <3>1
  <2>7. w = q
    BY <2>2, <2>5, <2>6, SeqEqual
  <2> QED
    BY <2>1, <2>2, <2>4, <2>7
<1>10. Texts(Told', arrivals') = Part(output', 1, next' - 1)
  <2>1. next' - 1 = next
    BY <1>1, <1>2
  <2>2. Texts(Told', arrivals') = Texts(Append(Told, n), arrivals)
    BY <1>1, <1>7
  <2>3. Part(output', 1, next' - 1) = Part(output, 1, next)
    BY <1>1, <2>1
  <2> QED
    BY <1>3, <1>5, <1>8, <1>9, <2>2, <2>3
<1>11. next' <= Len(output') + 1
  BY <1>1, <1>2, <1>4
<1>12. Told' \in Seq(DOMAIN arrivals')
  BY <1>1, <1>7, <1>8
<1>13. Given' = Given
  BY <1>1, GivenKept
<1> QED
  BY <1>1, <1>3, <1>10, <1>11, <1>12, <1>13 DEF Delivery

(* A token that is kept.                                                   *)
LEMMA StoreTokenCollects ==
  ASSUME Inv, Traced, Window, Delivery, NEW k \in Keys, NEW u \in Keys,
         StoreToken(Arrival(k, u))
  PROVE  /\ ~MemIsBounded(args) => output' = First'
         /\ phase' # "reading" => Collected(args, output', First')
<1> DEFINE t == Arrival(k, u)
<1>1. t \in Tokens /\ t.id = Len(arrivals) + 1
  BY ArrivalTyped DEF Inv, Arrival
<1> HIDE DEF t
<1>2. /\ ~IsDirectOutput(args) /\ phase = "reading"
      /\ arrivals' = Append(arrivals, t) /\ args' = args
      /\ output' = CheckUniqueThenAppend(t)
      /\ phase' = IF /\ MemIsBounded(args) /\ ~args.sort /\ ~args.tail
                     /\ Len(output') = args.out_end
                  THEN "finalising" ELSE phase
  BY DEF StoreToken, Arrive, Reading, t
<1>3. /\ TypeOK /\ arrivals \in Seq(Tokens) /\ Numbered(arrivals)
      /\ args.unique \in BOOLEAN /\ FirstVector(args.unique, First, arrivals)
  BY ArgsTyped DEF Inv, TypeOK, Traced, Window, ArgsType
<1>4. First' = FirstWith(args.unique, First, t)
  BY <1>1, <1>2, <1>3, FirstAfterArrival
<1>5. ASSUME ~MemIsBounded(args) PROVE output' = First'
  <2>1. output = First
    BY <1>2, <1>5 DEF Delivery
  <2>2. output' = IF IsDuplicate(t) THEN output ELSE Append(output, t)
    BY <1>2, <1>5 DEF CheckUniqueThenAppend, AppendUnbounded
  <2>3. IsDuplicate(t) <=> args.unique /\ ClassIn(output, t)
    BY DEF IsDuplicate, ClassIn, SameUnique
  <2> QED
    BY <1>4, <2>1, <2>2, <2>3 DEF FirstWith
<1>6. ASSUME phase' # "reading" PROVE Collected(args, output', First')
  <2>1. MemIsBounded(args) /\ ~args.sort /\ ~args.tail
    BY <1>2, <1>6
  <2>2. /\ ~args.unique /\ args.out_end \in Nat \ {0}
        /\ ~args.tail => Len(output) < args.out_end
    <3>1. ~args.unique /\ args.out_end \in Nat /\ args.out_end # 0
      BY <1>2, <1>3, <2>1, MemIsBoundedFacts DEF Inv
    <3>2. Len(output) < args.out_end
      BY <1>2, <2>1 DEF Inv, HasRoom
    <3> QED
      BY <3>1, <3>2
  <2>3. UnsortedWindow(args, output, arrivals)
    BY <1>2, <2>1 DEF Window
  <2>4. UnsortedWindow(args, Shifted(args, output, t), Append(arrivals, t))
    BY <1>1, <1>3, <2>2, <2>3, ShiftWindow
  <2>5. output' = Shifted(args, output, t)
    BY <1>2, <2>1 DEF CheckUniqueThenAppend, ShiftBounded, AtLimit, Shifted
  <2>6. First' = arrivals'
    BY <1>2, <2>2 DEF First, FirstOf
  <2>7. UnsortedWindow(args, output', First')
    BY <1>2, <2>4, <2>5, <2>6
  <2> QED
    BY <2>1, <2>7 DEF Collected
<1> QED
  BY <1>5, <1>6

LEMMA StoreTokenDelivery ==
  ASSUME Inv, Traced, Window, Delivery, NEW k \in Keys, NEW u \in Keys,
         StoreToken(Arrival(k, u))
  PROVE  Delivery'
<1> DEFINE t == Arrival(k, u)
<1>1. t \in Tokens
  BY ArrivalTyped DEF Inv
<1>2. /\ ~IsDirectOutput(args) /\ phase = "reading" /\ phase' \in {"reading", "finalising"}
      /\ arrivals' = Append(arrivals, t) /\ args' = args /\ options' = options
      /\ stream' = stream
  BY DEF StoreToken, Arrive, Reading
<1> HIDE DEF t
<1>3. arrivals \in Seq(Tokens) /\ Told \in Seq(DOMAIN arrivals) /\ Promised(options)
  BY <1>2 DEF Inv, TypeOK, Delivery
<1>4. Told' = Told
  BY <1>2 DEF Told
<1>5. Told' \in Seq(DOMAIN arrivals')
  BY <1>1, <1>2, <1>3, <1>4, TextsAfterArrival
<1>6. /\ ~MemIsBounded(args) => output' = First'
      /\ phase' # "reading" => Collected(args, output', First')
  BY StoreTokenCollects
<1> QED
  BY <1>2, <1>3, <1>5, <1>6 DEF Delivery

(* A token that is written as it arrives, or discarded.                    *)
LEMMA ForwardTokenTold ==
  ASSUME Inv, Traced, Window, Delivery, NEW k \in Keys, NEW u \in Keys,
         ForwardToken(Arrival(k, u))
  PROVE  /\ Told' \in Seq(DOMAIN arrivals')
         /\ Texts(Told', arrivals') = Part(First', From(args.out_start) + 1, Len(First'))
<1> DEFINE t == Arrival(k, u)
<1>1. t \in Tokens /\ t.id = Len(arrivals) + 1 /\ t.id \in Nat
  BY ArrivalTyped, TokenFields DEF Inv, Arrival
<1> HIDE DEF t
<1>2. /\ IsDirectOutput(args) /\ phase = "reading"
      /\ arrivals' = Append(arrivals, t) /\ args' = args
      /\ IF IsDuplicate(t)
         THEN stream' = stream
         ELSE \/ stream' = FinishOutput(WriteOutput(stream, args, t.id), args)
              \/ stream' = WriteOutput(stream, args, t.id)
  BY DEF ForwardToken, Arrive, Reading, t
<1>3. /\ TypeOK /\ stream \in Streams /\ arrivals \in Seq(Tokens) /\ Numbered(arrivals)
      /\ args.unique \in BOOLEAN /\ FirstVector(args.unique, First, arrivals)
      /\ args.out_start \in Limits
  BY ArgsTyped DEF Inv, TypeOK, Traced, Window, ArgsType
<1>4. /\ stream.out_count = Len(First) /\ First \in Seq(Tokens)
      /\ args.unique => output = First
  BY <1>2, <1>3 DEF Window, Forwarded, FirstVector
<1>5. IsDuplicate(t) <=> args.unique /\ ClassIn(First, t)
  BY <1>4 DEF IsDuplicate, ClassIn, SameUnique
<1>6. First' = IF IsDuplicate(t) THEN First ELSE Append(First, t)
  <2>1. First' = FirstWith(args.unique, First, t)
    BY <1>1, <1>2, <1>3, FirstAfterArrival
  <2> QED
    BY <1>5, <2>1 DEF FirstWith
<1>7. /\ Told \in Seq(DOMAIN arrivals)
      /\ Texts(Told, arrivals) = Part(First, From(args.out_start) + 1, Len(First))
  BY <1>2 DEF Delivery
<1>8. PICK all \in Seq(Tokens) : all = arrivals
  BY <1>3
<1>9. PICK more \in Seq(Tokens) : more = Append(all, t)
  BY <1>1, AppendProperties
<1>10. PICK f \in Seq(Tokens) : f = First
  BY <1>4
<1>11. PICK low \in Nat \ {0} : low = From(args.out_start) + 1
  BY <1>3 DEF From, Limits, NoLimit
<1>12. PICK ids \in Seq(DOMAIN all) : ids = Told
  BY <1>7, <1>8
<1>13. /\ ids \in Seq(DOMAIN more) /\ Texts(ids, more) = Texts(ids, all)
  BY ONLY <1>1, <1>9, all \in Seq(Tokens), ids \in Seq(DOMAIN all), TextsAfterArrival
<1>14. Texts(ids, all) = Part(f, low, Len(f))
  BY <1>7, <1>8, <1>10, <1>11, <1>12
<1>15. arrivals' = more
  BY <1>2, <1>8, <1>9
<1>16. CASE IsDuplicate(t)
  <2>1. Told' = ids
    BY <1>2, <1>12, <1>16 DEF Told
  <2>2. First' = f
    BY <1>6, <1>10, <1>16
  <2>3. Part(First', From(args.out_start) + 1, Len(First')) = Part(f, low, Len(f))
    BY <1>11, <2>2
  <2>4. Texts(Told', arrivals') = Texts(ids, more)
    BY <1>15, <2>1
  <2>5. Told' \in Seq(DOMAIN arrivals')
    BY <1>13, <1>15, <2>1
  <2> QED
    BY <1>13, <1>14, <2>3, <2>4, <2>5
<1>17. CASE ~IsDuplicate(t)
  <2>1. First' = Append(f, t)
    BY <1>6, <1>10, <1>17
  <2>2. Len(First') = Len(f) + 1
    BY <1>1, <2>1, AppendProperties
  <2>3. Part(First', From(args.out_start) + 1, Len(First')) =
          IF Len(f) + 1 < low THEN Part(f, low, Len(f)) ELSE Append(Part(f, low, Len(f)), t)
    <3>1. Part(Append(f, t), low, Len(f) + 1) =
            IF Len(f) + 1 < low THEN Part(f, low, Len(f)) ELSE Append(Part(f, low, Len(f)), t)
      BY ONLY <1>1, f \in Seq(Tokens), low \in Nat \ {0}, PartExtended
    <3>2. Part(First', From(args.out_start) + 1, Len(First')) = Part(Append(f, t), low, Len(f) + 1)
      BY <1>11, <2>1, <2>2
    <3> QED
      BY <3>1, <3>2
  <2>4. BeginDiscard(stream, args) <=> Len(f) + 1 < low
    <3>1. Len(f) \in Nat /\ stream.out_count = Len(f)
      BY <1>4, <1>10, LenProperties
    <3> QED
      BY <1>3, <1>11, <3>1 DEF BeginDiscard, From, Limits, NoLimit
  <2>5. Told' = IF BeginDiscard(stream, args) THEN ids ELSE Append(ids, t.id)
    <3>1. PICK n \in Nat : n = t.id
      BY <1>1
    <3>2. PICK s \in Streams : s = stream
      BY <1>3
    <3>3. PICK w \in Streams : w = WriteOutput(s, args, n)
      BY ONLY s \in Streams, n \in Nat, StreamTyped
    <3>4. ToldIn(w.out) = IF BeginDiscard(s, args) THEN ToldIn(s.out) ELSE Append(ToldIn(s.out), n)
      <4>1. ToldIn(WriteOutput(s, args, n).out)
              = IF BeginDiscard(s, args) THEN ToldIn(s.out) ELSE Append(ToldIn(s.out), n)
        BY ONLY s \in Streams, n \in Nat, ToldWritten
      <4> QED
        BY <3>3, <4>1
    <3>5. ToldIn(FinishOutput(w, args).out) = ToldIn(w.out)
      BY ONLY w \in Streams, n \in Nat, ToldWritten
    <3>6. stream' = FinishOutput(w, args) \/ stream' = w
      BY <1>2, <1>17, <3>1, <3>2, <3>3
    <3>7. ToldIn(stream'.out) = ToldIn(w.out)
      BY <3>5, <3>6
    <3> QED
      BY <1>12, <3>1, <3>2, <3>4, <3>7 DEF Told
  <2>6. CASE Len(f) + 1 < low
    <3>1. Told' = ids
      BY <2>4, <2>5, <2>6
    <3>2. Texts(Told', arrivals') = Texts(ids, more)
      BY <1>15, <3>1
    <3>3. Told' \in Seq(DOMAIN arrivals')
      BY <1>13, <1>15, <3>1
    <3> QED
      BY <1>13, <1>14, <2>3, <2>6, <3>2, <3>3
  <2>7. CASE ~(Len(f) + 1 < low)
    <3>1. PICK n : n = t.id
      OBVIOUS
    <3>2. n \in DOMAIN more /\ more[n] = t
      <4>1. /\ Len(all) \in Nat /\ Len(more) = Len(all) + 1 /\ more[Len(all) + 1] = t
        BY <1>1, <1>9, AppendProperties, LenProperties
      <4>2. DOMAIN more = 1..Len(all) + 1 /\ n = Len(all) + 1
        BY <1>1, <1>8, <3>1, <4>1, LenProperties
      <4> QED
        BY <4>1, <4>2
    <3>3. /\ Append(ids, n) \in Seq(DOMAIN more)
          /\ Texts(Append(ids, n), more) = Append(Texts(ids, more), more[n])
      BY ONLY <1>13, <3>2, more \in Seq(Tokens), TextsAfterWrite
    <3>4. Told' = Append(ids, n)
      BY <2>4, <2>5, <2>7, <3>1
    <3>5. Texts(Told', arrivals') = Texts(Append(ids, n), more)
      BY <1>15, <3>4
    <3>6. Told' \in Seq(DOMAIN arrivals')
      BY <1>15, <3>3, <3>4
    <3>7. Texts(Append(ids, n), more) = Append(Part(f, low, Len(f)), t)
      BY <1>13, <1>14, <3>2, <3>3
    <3> QED
      BY <2>3, <2>7, <3>5, <3>6, <3>7
  <2> QED
    BY <2>6, <2>7
<1> QED
  BY <1>16, <1>17

LEMMA ForwardTokenDelivery ==
  ASSUME Inv, Traced, Window, Delivery, NEW k \in Keys, NEW u \in Keys,
         ForwardToken(Arrival(k, u))
  PROVE  Delivery'
<1>1. /\ IsDirectOutput(args) /\ args' = args /\ options' = options
      /\ phase' \in {"reading", "done"}
  BY DEF ForwardToken, Arrive, Reading
<1>2. Promised(options)
  BY DEF Delivery
<1>3. /\ Told' \in Seq(DOMAIN arrivals')
      /\ Texts(Told', arrivals') = Part(First', From(args.out_start) + 1, Len(First'))
  BY ForwardTokenTold
<1> QED
  BY <1>1, <1>2, <1>3 DEF Delivery

LEMMA NextDelivery ==
  Inv /\ Traced /\ OutputInv /\ Window /\ Delivery /\ [Next]_vars => Delivery'
<1> SUFFICES ASSUME Inv, Traced, OutputInv, Window, Delivery, [Next]_vars PROVE Delivery'
  OBVIOUS
<1>1. CASE WriteFragment \/ CopyBetween
  BY <1>1, WriteFragmentDelivery
<1>2. CASE \E k, u \in Keys : ForwardToken(Arrival(k, u)) \/ StoreToken(Arrival(k, u))
  BY <1>2, ForwardTokenDelivery, StoreTokenDelivery
<1>3. CASE EndOfInput
  BY <1>3, EndOfInputDelivery
<1>4. CASE Finalise
  BY <1>4, FinaliseDelivery
<1>5. CASE WriteNext
  BY <1>5, WriteNextDelivery
<1>6. CASE Finish
  <2>1. options' = options /\ phase' = "done"
    BY <1>6 DEF Finish
  <2> QED
    BY <2>1 DEF Delivery
<1>7. CASE UNCHANGED vars
  <2>1. /\ options' = options /\ args' = args /\ arrivals' = arrivals /\ output' = output
        /\ stream' = stream /\ next' = next /\ phase' = phase
    BY <1>7 DEF vars
  <2>2. First' = First /\ Given' = Given /\ Told' = Told
    BY <2>1, FirstKept, GivenKept DEF Told
  <2> QED
    BY <2>1, <2>2 DEF Delivery
<1> QED
  BY <1>1, <1>2, <1>3, <1>4, <1>5, <1>6, <1>7 DEF Next, Terminated

LEMMA DeliveryHolds ==
  ASSUME \A o \in OptionSets : Promised(o)
  PROVE  Spec => []Delivery
<1>1. Init => Delivery
  BY InitDelivery
<1>2. Inv /\ Traced /\ OutputInv /\ Window /\ Delivery /\ [Next]_vars => Delivery'
  BY NextDelivery
<1> QED
  BY <1>1, <1>2, WindowHolds, OutputHolds, PTL DEF Spec

(* The tokens the user gets.                                               *)
LEMMA ShownIs == Shown = IF args.tui THEN output ELSE Texts(Told, arrivals)
<1>1. WrittenIds(stream.out) = Told
  BY WrittenIdsIs DEF Told
<1> QED
  BY <1>1 DEF Shown, Texts

LEMMA ShownThen == Shown' = IF args'.tui THEN output' ELSE Texts(Told', arrivals')
<1>1. WrittenIds(stream'.out) = Told'
  BY WrittenIdsIs DEF Told
<1> QED
  BY <1>1 DEF Shown, Texts

(* Direct output that has not gone beyond its limit has what was promised. *)
LEMMA DirectPromised ==
  ASSUME NEW o \in OptionType, Consistent(o), NEW a, a = Compile(o), IsDirectOutput(a),
         NEW all, NEW f \in Seq(Tokens), Promise!FirstOccurrences(o, all) = f,
         NEW m \in Nat, m = Len(f), UpTo(a.out_end, m) = m
  PROVE  Part(f, From(a.out_start) + 1, m) \in Promise!Results(o, all)
<1>1. ~a.sort /\ ~a.tail /\ ~a.flip /\ a.out_start \in Limits
  BY CompiledFacts DEF IsDirectOutput
<1>2. PICK n : n = m /\ n = UpTo(a.out_end, m)
  OBVIOUS
<1>3. PICK t : t = EndOf(a, f, m, n)
  OBVIOUS
<1>4. PICK order \in Promise!Orders(o, f) :
        Flipped(a, StartTruncated(a, t)) = Promise!Turned(o, Promise!Ranged(o, order))
  <2>1. \E order \in Promise!Orders(o, f) :
          Flipped(a, StartTruncated(a, t)) = Promise!Turned(o, Promise!Ranged(o, order))
    BY ONLY o \in OptionType, Consistent(o), a = Compile(o), <1>1, f \in Seq(Tokens),
            m \in Nat, m = Len(f), <1>2, <1>3, UnsortedRange
  <2> QED
    BY <2>1
<1>5. t = SubSeq(f, 1, m)
  BY <1>1, <1>2, <1>3 DEF EndOf
<1>6. StartTruncated(a, SubSeq(f, 1, m)) = Part(f, From(a.out_start) + 1, m)
  <2>1. m \in 0..Len(f) /\ ~CountsFromBack(a)
    BY <1>1 DEF CountsFromBack
  <2> QED
    BY ONLY <1>1, <2>1, f \in Seq(Tokens), FrontTruncated
<1>7. Flipped(a, StartTruncated(a, t)) = Part(f, From(a.out_start) + 1, m)
  BY <1>1, <1>5, <1>6 DEF Flipped
<1> QED
  BY <1>4, <1>7 DEF Promise!Results

LEMMA EndOfInputDelivers ==
  ASSUME Inv, Window, Delivery, EndOfInput, IsDirectOutput(args) PROVE Shown' \in Given
<1>1. /\ phase = "reading" /\ args' = args /\ arrivals' = arrivals
      /\ stream' = FinishOutput(stream, args)
  BY DEF EndOfInput
<1>2. /\ TypeOK /\ options \in OptionType /\ args = Compile(options) /\ stream \in Streams
      /\ Consistent(options) /\ args.out_end \in Limits
  BY ArgsTyped DEF Inv, TypeOK, Delivery, Promised, ArgsType
<1>3. /\ First \in Seq(Tokens)
      /\ args.out_end # NoLimit => Len(First) < args.out_end
  BY <1>1 DEF Window, Forwarded, FirstVector
<1>4. Promise!FirstOccurrences(options, arrivals) = First
  BY FirstGiven
<1>5. PICK f \in Seq(Tokens) : f = First
  BY <1>3
<1>6. PICK m \in Nat : m = Len(f)
  BY LenProperties
<1>7. UpTo(args.out_end, m) = m
  BY <1>2, <1>3, <1>5, <1>6 DEF UpTo, Smaller, Limits, NoLimit
<1>8. Part(f, From(args.out_start) + 1, m) \in Promise!Results(options, arrivals)
  BY ONLY <1>2, <1>4, <1>5, <1>6, <1>7, IsDirectOutput(args), DirectPromised
<1>9. Told' = Told
  <2>1. PICK n \in Nat : n = 0
    OBVIOUS
  <2>2. ToldIn(FinishOutput(stream, args).out) = ToldIn(stream.out)
    BY ONLY <1>2, n \in Nat, ToldWritten
  <2> QED
    BY <1>1, <2>2 DEF Told
<1>10. Shown' = Texts(Told, arrivals)
  <2>1. ~args'.tui
    BY <1>1 DEF IsDirectOutput
  <2> QED
    BY <1>1, <1>9, <2>1, ShownThen
<1>11. Texts(Told, arrivals) = Part(First, From(args.out_start) + 1, Len(First))
  BY <1>1 DEF Delivery
<1> QED
  BY <1>5, <1>6, <1>8, <1>10, <1>11 DEF Given

LEMMA ForwardTokenDelivers ==
  ASSUME Inv, Traced, Window, Delivery, NEW k \in Keys, NEW u \in Keys,
         ForwardToken(Arrival(k, u))
  PROVE  Shown' \in Promise!Results(options, arrivals')
<1> DEFINE t == Arrival(k, u)
<1>1. t \in Tokens /\ t.id = Len(arrivals) + 1
  BY ArrivalTyped DEF Inv, Arrival
<1> HIDE DEF t
<1>2. /\ IsDirectOutput(args) /\ phase = "reading" /\ args' = args
      /\ arrivals' = Append(arrivals, t)
  BY DEF ForwardToken, Arrive, Reading, t
<1>3. /\ TypeOK /\ options \in OptionType /\ args = Compile(options)
      /\ arrivals \in Seq(Tokens) /\ Numbered(arrivals)
      /\ args.unique \in BOOLEAN /\ FirstVector(args.unique, First, arrivals)
      /\ Consistent(options) /\ args.out_end \in Limits
  BY ArgsTyped DEF Inv, TypeOK, Traced, Window, Delivery, Promised, ArgsType
<1>4. /\ First \in Seq(Tokens)
      /\ args.out_end # NoLimit => Len(First) < args.out_end
  BY <1>2 DEF Window, Forwarded, FirstVector
<1>5. First' = First \/ First' = Append(First, t)
  <2>1. First' = FirstWith(args.unique, First, t)
    BY <1>1, <1>2, <1>3, FirstAfterArrival
  <2> QED
    BY <2>1 DEF FirstWith
<1>6. PICK f \in Seq(Tokens) : f = First'
  BY <1>1, <1>4, <1>5, AppendProperties
<1>7. PICK m \in Nat : m = Len(f)
  BY LenProperties
<1>8. UpTo(args.out_end, m) = m
  <2>1. Len(First) \in Nat /\ m <= Len(First) + 1
    BY <1>1, <1>4, <1>5, <1>6, <1>7, AppendProperties, LenProperties
  <2> QED
    BY <1>3, <1>4, <2>1 DEF UpTo, Smaller, Limits, NoLimit
<1>9. PICK all : all = arrivals'
  OBVIOUS
<1>10. Promise!FirstOccurrences(options, all) = f
  <2>1. args.unique = options.unique
    BY <1>3, UniqueGiven
  <2>2. Promise!FirstOccurrences(options, all) = FirstOf(options.unique, all)
    BY FirstIs
  <2>3. First' = FirstOf(args.unique, all)
    BY <1>2, <1>9 DEF First
  <2> QED
    BY <1>6, <2>1, <2>2, <2>3
<1>11. Part(f, From(args.out_start) + 1, m) \in Promise!Results(options, all)
  BY ONLY <1>2, <1>3, <1>7, <1>8, <1>10, f \in Seq(Tokens), m \in Nat, DirectPromised
<1>12. Texts(Told', arrivals') = Part(First', From(args.out_start) + 1, Len(First'))
  BY ForwardTokenTold
<1>13. Shown' = Texts(Told', arrivals')
  <2>1. ~args'.tui
    BY <1>2 DEF IsDirectOutput
  <2> QED
    BY <2>1, ShownThen
<1> QED
  BY <1>6, <1>7, <1>9, <1>11, <1>12, <1>13

LEMMA FinishDelivers ==
  ASSUME Inv, Delivery, Finish PROVE Shown' \in Given
<1>1. /\ phase = "writing" /\ args' = args /\ arrivals' = arrivals /\ output' = output
      /\ args.tui \/ next > Len(output)
      /\ stream' = IF args.tui THEN stream ELSE FinishOutput(stream, args)
  BY DEF Finish
<1>2. /\ output \in Given /\ next <= Len(output) + 1
      /\ ~args.tui => Texts(Told, arrivals) = Part(output, 1, next - 1)
  BY <1>1 DEF Delivery
<1>3. output \in Seq(Tokens) /\ next \in Nat \ {0} /\ stream \in Streams
  BY DEF Inv, TypeOK
<1>4. CASE args.tui
  BY <1>1, <1>2, <1>4, ShownThen
<1>5. CASE ~args.tui
  <2>1. PICK m \in Nat : m = Len(output)
    BY <1>3, LenProperties
  <2>2. next - 1 = m
    BY <1>1, <1>2, <1>3, <1>5, <2>1
  <2>3. Part(output, 1, m) = output
    <3>1. m \in 0..Len(output) /\ 1 \in Nat \ {0}
      BY <2>1
    <3>2. SubSeq(output, 1, m) = Part(output, 1, m)
      BY ONLY <1>3, <3>1, SubSeqIsPart
    <3>3. SubSeq(output, 1, Len(output)) = output
      BY ONLY <1>3, WholeSpan
    <3> QED
      BY <2>1, <3>2, <3>3
  <2>4. Told' = Told
    <3>1. PICK n \in Nat : n = 0
      OBVIOUS
    <3>2. ToldIn(FinishOutput(stream, args).out) = ToldIn(stream.out)
      BY ONLY <1>3, n \in Nat, ToldWritten
    <3> QED
      BY <1>1, <1>5, <3>2 DEF Told
  <2>5. Shown' = Texts(Told, arrivals)
    BY <1>1, <1>5, <2>4, ShownThen
  <2> QED
    BY <1>2, <1>5, <2>2, <2>3, <2>5
<1> QED
  BY <1>4, <1>5

-------------------------------------------------------------------------------
(* Every step is one of the promise.                                       *)

Outcome ==
  [given |-> phase = "done", tokens |-> IF phase = "done" THEN Shown ELSE <<>>]

Promising == [Promise!SNext]_<<options, arrivals, Outcome>>

LEMMA NothingDelivered ==
  ASSUME phase # "done", phase' # "done" PROVE Outcome' = Outcome /\ ~Outcome.given
  BY DEF Outcome

LEMMA ArrivedThen ==
  ASSUME NEW all \in Seq(Tokens), NEW t \in Tokens
  PROVE  Append(all, t) # <<>> /\ Promise!Front(Append(all, t)) = all
<1>1. PICK more \in Seq(Tokens) : more = Append(all, t)
  BY AppendProperties
<1>2. PICK m \in Nat : m = Len(all)
  BY LenProperties
<1>3. Len(more) = m + 1 /\ \A i \in 1..m : more[i] = all[i]
  BY <1>1, <1>2, AppendProperties
<1>4. more # <<>>
  BY <1>3
<1>5. Promise!Front(more) = SubSeq(more, 1, m)
  BY <1>3 DEF Promise!Front
<1>6. SubSeq(more, 1, m) = all
  <2>1. m \in 0..Len(more)
    BY <1>3
  <2>2. PICK r \in Seq(Tokens) :
          r = SubSeq(more, 1, m) /\ Len(r) = m /\ \A i \in 1..m : r[i] = more[i]
    BY <2>1, HeadOfVector
  <2>3. r = all
    BY <1>2, <1>3, <2>2, SeqEqual
  <2> QED
    BY <2>2, <2>3
<1> QED
  BY <1>1, <1>4, <1>5, <1>6

LEMMA StepPromised ==
  ASSUME Inv, Traced, Window, Delivery, [Next]_vars
  PROVE  Promising
<1>1. CASE WriteFragment \/ CopyBetween \/ Finalise \/ WriteNext
           \/ (EndOfInput /\ ~IsDirectOutput(args))
  <2>1. options' = options /\ arrivals' = arrivals /\ phase # "done" /\ phase' # "done"
    BY <1>1 DEF WriteFragment, CopyBetween, Reading, Finalise, WriteNext, EndOfInput
  <2> QED
    BY <2>1, NothingDelivered DEF Promising
<1>2. CASE \E k, u \in Keys : ForwardToken(Arrival(k, u)) \/ StoreToken(Arrival(k, u))
  <2>1. PICK k \in Keys, u \in Keys : ForwardToken(Arrival(k, u)) \/ StoreToken(Arrival(k, u))
    BY <1>2
  <2>2. PICK t \in Tokens : t = Arrival(k, u)
    BY ArrivalTyped DEF Inv
  <2>3. /\ options' = options /\ phase = "reading" /\ arrivals' = Append(arrivals, t)
        /\ phase' = "done" => ForwardToken(Arrival(k, u))
    BY <2>1, <2>2 DEF ForwardToken, StoreToken, Arrive, Reading
  <2>4. Promise!Arrived
    <3>1. arrivals \in Seq(Tokens)
      BY DEF Inv, TypeOK
    <3>2. Append(arrivals, t) # <<>> /\ Promise!Front(Append(arrivals, t)) = arrivals
      BY <3>1, ArrivedThen
    <3> QED
      BY <2>3, <3>2 DEF Promise!Arrived
  <2>5. ~Outcome.given
    BY <2>3 DEF Outcome
  <2>6. CASE phase' # "done"
    <3>1. Outcome' = Outcome
      BY <2>3, <2>6, NothingDelivered
    <3>2. Promise!Take
      BY <2>3, <2>4, <2>5, <3>1 DEF Promise!Take, Outcome
    <3> QED
      BY <3>2 DEF Promising, Promise!SNext
  <2>7. CASE phase' = "done"
    <3>1. Shown' \in Promise!Results(options, arrivals')
      BY <2>3, <2>7, ForwardTokenDelivers
    <3>2. Promise!Deliver
      BY <2>3, <2>4, <2>7, <3>1 DEF Promise!Deliver, Promise!Result
    <3> QED
      BY <3>2 DEF Promising, Promise!SNext
  <2> QED
    BY <2>6, <2>7
<1>3. CASE (EndOfInput /\ IsDirectOutput(args)) \/ Finish
  <2>1. options' = options /\ arrivals' = arrivals /\ phase # "done" /\ phase' = "done"
    BY <1>3 DEF EndOfInput, Finish
  <2>2. Shown' \in Promise!Results(options, arrivals')
    <3>1. Shown' \in Given
      BY <1>3, EndOfInputDelivers, FinishDelivers
    <3> QED
      BY <2>1, <3>1 DEF Given
  <2>3. Promise!Deliver
    BY <2>1, <2>2 DEF Promise!Deliver, Promise!Result
  <2> QED
    BY <2>3 DEF Promising, Promise!SNext
<1>4. CASE UNCHANGED vars
  <2>1. /\ options' = options /\ args' = args /\ arrivals' = arrivals /\ output' = output
        /\ stream' = stream /\ phase' = phase
    BY <1>4 DEF vars
  <2>2. Told' = Told
    BY <2>1 DEF Told
  <2>3. Shown' = Shown
    BY <2>1, <2>2, ShownIs, ShownThen
  <2>4. Outcome' = Outcome
    BY <2>1, <2>3 DEF Outcome
  <2> QED
    BY <2>1, <2>4 DEF Promising
<1> QED
  BY <1>1, <1>2, <1>3, <1>4 DEF Next, Terminated

(* create_tokens implements the promise of its options: what the user gets *)
(* is a result that Selection allows for all that arrived, whichever path  *)
(* it took and in however little memory; nothing is shown before.  The     *)
(* hypothesis leaves --tail with --sort and --stable aside, where of equal *)
(* tokens the code keeps the first, in reversed order.                     *)
THEOREM KeepsItsPromise ==
  ASSUME \A o \in OptionSets : Promised(o)
  PROVE  Spec => KeepsPromise
<1>1. Init => Promise!SInit
  BY DEF Init, Promise!SInit, Promise!NoResult
<1>2. Inv /\ Traced /\ Window /\ Delivery /\ [Next]_vars => [Promise!SNext]_(Promise!svars)
  BY StepPromised DEF Promising, Outcome, Promise!svars
<1>3. Spec => []Delivery
  BY DeliveryHolds
<1> QED
  BY <1>1, <1>2, <1>3, WindowHolds, PTL DEF Spec, KeepsPromise, Promise!SSpec
===============================================================================
