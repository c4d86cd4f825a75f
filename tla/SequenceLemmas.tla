---------------------------- MODULE SequenceLemmas ----------------------------
(***************************************************************************)
(* Facts about numbers, sequences and orders that the proofs share.         *)
(***************************************************************************)
EXTENDS Integers, SequencesExt, SequenceTheorems, FiniteSetTheorems,
        WellFoundedInduction, TLAPS

(* A non-empty set of natural numbers has a least element.                 *)
LEMMA LeastElement ==
  ASSUME NEW T, T \subseteq Nat, T # {}
  PROVE  \E x \in T : \A y \in T : x <= y
<1> DEFINE R == OpToRel(<, Nat)
<1>1. IsWellFoundedOn(R, Nat)
  BY NatLessThanWellFounded
<1>2. \A x, y \in Nat : y < x => <<y, x>> \in R
  BY DEF OpToRel
<1> HIDE DEF R
<1>3. \E x \in T : \A y \in T : ~ (<<y, x>> \in R)
  BY <1>1, WFMin
<1>4. PICK x \in T : \A y \in T : ~ (<<y, x>> \in R)
  BY <1>3
<1>5. \A y \in T : x <= y
  <2> SUFFICES ASSUME NEW y \in T, ~(x <= y) PROVE FALSE
    OBVIOUS
  <2>1. x \in Nat /\ y \in Nat
    OBVIOUS
  <2>2. y < x
    BY <2>1
  <2>3. <<y, x>> \in R
    BY <2>1, <2>2, <1>2
  <2> QED
    BY <2>3, <1>4
<1> QED
  BY <1>5

(* What InsertAt puts where.                                               *)
LEMMA InsertAtElements ==
  ASSUME NEW S, NEW s \in Seq(S), NEW p \in 1..Len(s) + 1, NEW t \in S
  PROVE  /\ InsertAt(s, p, t) \in Seq(S)
         /\ Len(InsertAt(s, p, t)) = Len(s) + 1
         /\ \A i \in 1..Len(s) + 1 :
              InsertAt(s, p, t)[i] = IF i < p THEN s[i] ELSE IF i = p THEN t ELSE s[i - 1]
<1> DEFINE l == SubSeq(s, 1, p - 1)
           m == <<t>>
           r == SubSeq(s, p, Len(s))
<1>1. /\ l \in Seq(S) /\ Len(l) = p - 1
      /\ \A i \in 1..p - 1 : l[i] = s[i]
  BY SubSeqProperties
<1>2. /\ r \in Seq(S) /\ Len(r) = Len(s) - p + 1
      /\ \A i \in 1..Len(s) - p + 1 : r[i] = s[p + i - 1]
  BY SubSeqProperties
<1>3. /\ m \in Seq(S) /\ Len(m) = 1 /\ m[1] = t
  OBVIOUS
<1>4. /\ l \o m \in Seq(S) /\ Len(l \o m) = p
      /\ \A i \in 1..p : (l \o m)[i] = IF i < p THEN s[i] ELSE t
  <2>1. /\ l \o m \in Seq(S) /\ Len(l \o m) = Len(l) + Len(m)
        /\ \A i \in 1..Len(l) + Len(m) :
             (l \o m)[i] = IF i <= Len(l) THEN l[i] ELSE m[i - Len(l)]
    BY ONLY <1>1, <1>3, ConcatProperties
  <2> QED
    BY <2>1, <1>1, <1>3
<1>5. /\ (l \o m) \o r \in Seq(S) /\ Len((l \o m) \o r) = Len(s) + 1
      /\ \A i \in 1..Len(s) + 1 :
           ((l \o m) \o r)[i] = IF i <= p THEN (l \o m)[i] ELSE r[i - p]
  <2>1. /\ (l \o m) \o r \in Seq(S) /\ Len((l \o m) \o r) = Len(l \o m) + Len(r)
        /\ \A i \in 1..Len(l \o m) + Len(r) :
             ((l \o m) \o r)[i] =
               IF i <= Len(l \o m) THEN (l \o m)[i] ELSE r[i - Len(l \o m)]
    BY ONLY <1>2, <1>4, ConcatProperties
  <2>2. Len(l \o m) + Len(r) = Len(s) + 1
    BY <1>2, <1>4
  <2> HIDE DEF l, m, r
  <2> QED
    BY <2>1, <2>2, <1>4
<1>6. InsertAt(s, p, t) = (l \o m) \o r
  BY DEF InsertAt
<1> HIDE DEF l, m, r
<1>7. \A i \in 1..Len(s) + 1 :
        InsertAt(s, p, t)[i] = IF i < p THEN s[i] ELSE IF i = p THEN t ELSE s[i - 1]
  <2> SUFFICES ASSUME NEW i \in 1..Len(s) + 1
               PROVE  InsertAt(s, p, t)[i] = IF i < p THEN s[i] ELSE IF i = p THEN t ELSE s[i - 1]
    OBVIOUS
  <2>1. CASE i <= p
    BY <2>1, <1>4, <1>5, <1>6
  <2>2. CASE i > p
    <3>1. i - p \in 1..Len(s) - p + 1
      BY <2>2
    <3>2. r[i - p] = s[p + (i - p) - 1]
      BY <3>1, <1>2
    <3> QED
      BY <2>2, <3>2, <1>5, <1>6
  <2> QED
    BY <2>1, <2>2
<1> QED
  BY <1>5, <1>6, <1>7

(* A set of integers that has an upper bound has a greatest element.       *)
LEMMA GreatestElement ==
  ASSUME NEW T, T \subseteq Int, T # {}, NEW n \in Int, \A x \in T : x <= n
  PROVE  Max(T) \in T /\ \A x \in T : x <= Max(T)
<1> DEFINE below == {n - x : x \in T}
<1>1. below \subseteq Nat /\ below # {}
  <2>1. \A x \in T : n - x \in Nat
    OBVIOUS
  <2> QED
    BY <2>1
<1>2. PICK d \in below : \A y \in below : d <= y
  <2> HIDE DEF below
  <2> QED
    BY <1>1, LeastElement
<1>3. PICK g \in T : d = n - g
  BY <1>2
<1>4. \A x \in T : g >= x
  <2> SUFFICES ASSUME NEW x \in T PROVE g >= x
    OBVIOUS
  <2>1. n - x \in below
    OBVIOUS
  <2>2. n - g <= n - x
    BY <2>1, <1>2, <1>3
  <2> QED
    BY <2>2
<1>5. Max(T) \in T /\ \A x \in T : Max(T) >= x
  BY <1>4 DEF Max
<1> QED
  BY <1>5

(* Min of a set of natural numbers is its least element.                   *)
LEMMA MinIsLeast ==
  ASSUME NEW T, T \subseteq Nat, T # {}
  PROVE  Min(T) \in T /\ \A x \in T : Min(T) <= x
<1>1. \E x \in T : \A y \in T : x <= y
  BY LeastElement
<1> QED
  BY <1>1 DEF Min

-------------------------------------------------------------------------------
(* FlattenSeq is a recursive function on the positions of its argument.    *)
(* The function exists: were there a least n up to which it does not, one  *)
(* up to n - 1 could be extended by its value at n.                        *)

(* f is that function for the first n members of seqs.                     *)
Flattens(f, seqs, n) ==
  f = [i \in 1..n |-> IF i = 1 THEN seqs[i] ELSE f[i - 1] \o seqs[i]]

LEMMA FlattensValue ==
  ASSUME NEW seqs, NEW n, NEW f, Flattens(f, seqs, n), NEW i \in 1..n
  PROVE  f[i] = IF i = 1 THEN seqs[i] ELSE f[i - 1] \o seqs[i]
<1> DEFINE Value(k) == IF k = 1 THEN seqs[k] ELSE f[k - 1] \o seqs[k]
<1>1. f = [k \in 1..n |-> Value(k)]
  BY DEF Flattens
<1>2. f[i] = Value(i)
  <2> HIDE DEF Value
  <2> QED
    BY <1>1
<1> QED
  BY <1>2

LEMMA FlattensExists ==
  ASSUME NEW seqs, NEW n \in Nat
  PROVE  \E f : Flattens(f, seqs, n)
<1> DEFINE Missing == {k \in Nat : ~ \E f : Flattens(f, seqs, k)}
<1>1. SUFFICES ASSUME Missing # {} PROVE FALSE
  OBVIOUS
<1>2. PICK m \in Missing : \A k \in Missing : m <= k
  <2>1. Missing \subseteq Nat
    OBVIOUS
  <2> HIDE DEF Missing
  <2> QED
    BY <1>1, <2>1, LeastElement
<1>3. m # 0
  <2>1. Flattens([i \in 1..0 |-> seqs], seqs, 0)
    BY DEF Flattens
  <2> QED
    BY <2>1
<1>4. m - 1 \in Nat /\ m - 1 \notin Missing
  BY <1>2, <1>3
<1>5. PICK f : Flattens(f, seqs, m - 1)
  BY <1>4
<1> DEFINE g == [i \in 1..m |-> IF i = 1 THEN seqs[i] ELSE f[i - 1] \o seqs[i]]
<1>6. \A i \in 1..m - 1 : g[i] = f[i]
  <2> SUFFICES ASSUME NEW i \in 1..m - 1 PROVE g[i] = f[i]
    OBVIOUS
  <2>1. f[i] = IF i = 1 THEN seqs[i] ELSE f[i - 1] \o seqs[i]
    BY <1>5, FlattensValue
  <2>2. i \in 1..m
    BY <1>4
  <2> QED
    BY <2>1, <2>2
<1>7. \A i \in 1..m : i # 1 => g[i - 1] = f[i - 1]
  <2> SUFFICES ASSUME NEW i \in 1..m, i # 1 PROVE g[i - 1] = f[i - 1]
    OBVIOUS
  <2>1. i - 1 \in 1..m - 1
    BY <1>4
  <2> QED
    BY ONLY <2>1, <1>6
<1>8. Flattens(g, seqs, m)
  <2>1. \A i \in 1..m :
          (IF i = 1 THEN seqs[i] ELSE f[i - 1] \o seqs[i])
            = IF i = 1 THEN seqs[i] ELSE g[i - 1] \o seqs[i]
    <3> HIDE DEF g
    <3> QED
      BY <1>7
  <2>2. [i \in 1..m |-> IF i = 1 THEN seqs[i] ELSE f[i - 1] \o seqs[i]]
          = [i \in 1..m |-> IF i = 1 THEN seqs[i] ELSE g[i - 1] \o seqs[i]]
    <3> HIDE DEF g
    <3> QED
      BY <2>1
  <2> QED
    BY <2>2 DEF Flattens
<1> QED
  BY <1>2, <1>8

(* There is only one.                                                      *)
LEMMA FlattensUnique ==
  ASSUME NEW seqs, NEW n \in Nat, NEW m \in 0..n, NEW f, NEW g,
         Flattens(f, seqs, m), Flattens(g, seqs, n)
  PROVE  \A i \in 1..m : f[i] = g[i]
<1> DEFINE Differ == {i \in 1..m : f[i] # g[i]}
<1>1. SUFFICES ASSUME Differ # {} PROVE FALSE
  OBVIOUS
<1>2. PICK d \in Differ : \A i \in Differ : d <= i
  <2>1. Differ \subseteq Nat
    OBVIOUS
  <2> HIDE DEF Differ
  <2> QED
    BY <1>1, <2>1, LeastElement
<1>3. d # 1 => f[d - 1] = g[d - 1]
  BY <1>2
<1>4. f[d] = IF d = 1 THEN seqs[d] ELSE f[d - 1] \o seqs[d]
  BY <1>2, FlattensValue
<1>5. g[d] = IF d = 1 THEN seqs[d] ELSE g[d - 1] \o seqs[d]
  <2>1. d \in 1..n
    BY <1>2
  <2> QED
    BY <2>1, FlattensValue
<1> QED
  BY <1>2, <1>3, <1>4, <1>5

(* Only the members that it has reached matter.                            *)
LEMMA FlattenSeqIs ==
  ASSUME NEW seqs, NEW f, Len(seqs) \in Nat, Len(seqs) # 0,
         Flattens(f, seqs, Len(seqs))
  PROVE  FlattenSeq(seqs) = f[Len(seqs)]
<1> DEFINE n == Len(seqs)
           h == CHOOSE g : Flattens(g, seqs, n)
<1>1. Flattens(h, seqs, n)
  OBVIOUS
<1>2. FlattenSeq(seqs) = h[n]
  BY DEF FlattenSeq, Flattens
<1>3. h[n] = f[n]
  <2> HIDE DEF h
  <2>1. \A i \in 1..n : h[i] = f[i]
    BY <1>1, FlattensUnique
  <2> QED
    BY <2>1
<1> QED
  BY <1>2, <1>3

LEMMA FlattenSeqType ==
  ASSUME NEW S, NEW seqs \in Seq(Seq(S))
  PROVE  FlattenSeq(seqs) \in Seq(S)
<1>1. PICK n \in Nat : n = Len(seqs)
  BY LenProperties
<1>2. CASE n = 0
  BY <1>1, <1>2, EmptySeq DEF FlattenSeq
<1>3. CASE n # 0
  <2>1. PICK f : Flattens(f, seqs, n)
    BY FlattensExists
  <2> DEFINE Wrong == {i \in 1..n : f[i] \notin Seq(S)}
  <2>2. Wrong = {}
    <3>1. SUFFICES ASSUME Wrong # {} PROVE FALSE
      OBVIOUS
    <3>2. PICK w \in Wrong : \A i \in Wrong : w <= i
      <4>1. Wrong \subseteq Nat
        OBVIOUS
      <4> HIDE DEF Wrong
      <4> QED
        BY <3>1, <4>1, LeastElement
    <3>3. f[w] = IF w = 1 THEN seqs[w] ELSE f[w - 1] \o seqs[w]
      BY <2>1, <3>2, FlattensValue
    <3>4. seqs[w] \in Seq(S)
      BY <1>1, <3>2, ElementOfSeq
    <3>5. w # 1 => f[w - 1] \in Seq(S)
      BY <3>2
    <3>6. w # 1 => f[w - 1] \o seqs[w] \in Seq(S)
      BY <3>4, <3>5, ConcatProperties
    <3> QED
      BY <3>2, <3>3, <3>4, <3>6
  <2>3. FlattenSeq(seqs) = f[n]
    BY <1>1, <1>3, <2>1, FlattenSeqIs
  <2> QED
    BY <1>3, <2>2, <2>3
<1> QED
  BY <1>2, <1>3

(* A sequence of sequences is flattened one member at a time.              *)
LEMMA FlattenSeqAppend ==
  ASSUME NEW S, NEW seqs \in Seq(Seq(S)), NEW s \in Seq(S)
  PROVE  FlattenSeq(Append(seqs, s)) = FlattenSeq(seqs) \o s
<1>1. PICK n \in Nat : n = Len(seqs)
  BY LenProperties
<1>2. PICK all : all = Append(seqs, s)
  OBVIOUS
<1>3. Len(all) = n + 1 /\ all[n + 1] = s /\ \A i \in 1..n : all[i] = seqs[i]
  BY <1>1, <1>2, AppendProperties
<1>4. PICK f : Flattens(f, all, n + 1)
  <2>1. n + 1 \in Nat
    BY <1>1
  <2> QED
    BY <2>1, FlattensExists
<1>5. FlattenSeq(all) = f[n + 1]
  <2>1. n + 1 \in Nat /\ n + 1 # 0
    BY <1>1
  <2> QED
    BY <2>1, <1>3, <1>4, FlattenSeqIs
<1>6. \A i \in 1..n + 1 : f[i] = IF i = 1 THEN all[i] ELSE f[i - 1] \o all[i]
  <2> SUFFICES ASSUME NEW i \in 1..n + 1
               PROVE  f[i] = IF i = 1 THEN all[i] ELSE f[i - 1] \o all[i]
    OBVIOUS
  <2> QED
    BY ONLY <1>4, i \in 1..n + 1, FlattensValue
<1>7. CASE n = 0
  <2>1. seqs = <<>>
    BY <1>1, <1>7, EmptySeq
  <2>2. FlattenSeq(seqs) = <<>>
    BY <2>1 DEF FlattenSeq
  <2>3. f[1] = s
    BY <1>3, <1>6, <1>7
  <2> QED
    BY <1>2, <1>5, <1>7, <2>2, <2>3, ConcatEmptySeq
<1>8. CASE n # 0
  <2> DEFINE g == [i \in 1..n |-> f[i]]
  <2>1. Flattens(g, seqs, n)
    <3>1. \A i \in 1..n : f[i] = IF i = 1 THEN seqs[i] ELSE g[i - 1] \o seqs[i]
      <4> SUFFICES ASSUME NEW i \in 1..n
                   PROVE  f[i] = IF i = 1 THEN seqs[i] ELSE g[i - 1] \o seqs[i]
        OBVIOUS
      <4>1. i \in 1..n + 1 /\ (i # 1 => i - 1 \in 1..n)
        BY <1>1
      <4> QED
        BY <4>1, <1>3, <1>6
    <3>2. [i \in 1..n |-> f[i]]
            = [i \in 1..n |-> IF i = 1 THEN seqs[i] ELSE g[i - 1] \o seqs[i]]
      <4> HIDE DEF g
      <4> QED
        BY <3>1
    <3> QED
      BY <3>2 DEF Flattens
  <2>2. FlattenSeq(seqs) = g[n]
    <3> HIDE DEF g
    <3> QED
      BY <1>1, <1>8, <2>1, FlattenSeqIs
  <2>3. g[n] = f[n]
    BY <1>1, <1>8
  <2>4. n + 1 \in 1..n + 1 /\ n + 1 # 1 /\ (n + 1) - 1 = n
    BY <1>1, <1>8
  <2>5. f[n + 1] = f[n] \o s
    BY <1>3, <1>6, <2>4
  <2> QED
    BY <1>2, <1>5, <2>2, <2>3, <2>5
<1> QED
  BY <1>7, <1>8

-------------------------------------------------------------------------------
(* A sequence, whatever of.                                                *)
IsSequence(l) == \E S : l \in Seq(S)

LEMMA AppendedSequence ==
  ASSUME NEW l, IsSequence(l), NEW e
  PROVE  /\ IsSequence(Append(l, e))
         /\ DOMAIN Append(l, e) = 1..Len(l) + 1 /\ DOMAIN l = 1..Len(l) /\ Len(l) \in Nat
         /\ \A i \in 1..Len(l) : Append(l, e)[i] = l[i]
         /\ Append(l, e)[Len(l) + 1] = e
<1>1. PICK S : l \in Seq(S)
  BY DEF IsSequence
<1>2. l \in Seq(S \cup {e})
  BY <1>1
<1>3. Append(l, e) \in Seq(S \cup {e}) /\ Len(Append(l, e)) = Len(l) + 1
      /\ \A i \in 1..Len(l) + 1 : Append(l, e)[i] = IF i <= Len(l) THEN l[i] ELSE e
  BY <1>2, AppendProperties
<1> QED
  BY <1>2, <1>3 DEF IsSequence

LEMMA SequenceFacts ==
  ASSUME NEW l, IsSequence(l)
  PROVE  /\ DOMAIN l = 1..Len(l) /\ Len(l) \in Nat
         /\ l = <<>> <=> Len(l) = 0
         /\ l # <<>> => Last(l) = l[Len(l)] /\ Len(l) \in DOMAIN l
         /\ l = [i \in DOMAIN l |-> l[i]]
  BY DEF IsSequence, Last

LEMMA ListedSequence ==
  ASSUME NEW n \in Nat, NEW f, DOMAIN f = 1..n, f = [i \in 1..n |-> f[i]]
  PROVE  IsSequence(f) /\ Len(f) = n
<1> DEFINE S == {f[i] : i \in 1..n}
<1>1. \A i \in 1..n : f[i] \in S
  OBVIOUS
<1> HIDE DEF S
<1>2. f \in [1..n -> S]
  BY <1>1
<1>3. f \in Seq(S) /\ Len(f) = n
  BY <1>2
<1> QED
  BY <1>3 DEF IsSequence

(* Two sequences are the same if their elements are.                       *)
LEMMA SameSequence ==
  ASSUME NEW s, NEW t, IsSequence(s), IsSequence(t), Len(s) = Len(t),
         \A i \in 1..Len(s) : s[i] = t[i]
  PROVE  s = t
  BY SequenceFacts

LEMMA PartSequence ==
  ASSUME NEW l, IsSequence(l), NEW m \in Nat \ {0}, NEW n \in 0..Len(l)
  PROVE  /\ IsSequence(SubSeq(l, m, n))
         /\ Len(SubSeq(l, m, n)) = IF m <= n THEN n - m + 1 ELSE 0
         /\ \A i \in 1..Len(SubSeq(l, m, n)) : SubSeq(l, m, n)[i] = l[m + i - 1]
<1>1. PICK S : l \in Seq(S)
  BY DEF IsSequence
<1>2. \A i \in m..n : i \in 1..Len(l)
  BY <1>1
<1> QED
  BY <1>1, <1>2, SubSeqProperties DEF IsSequence

(* What holds at 0 and after each step holds throughout.                   *)
LEMMA StepByStep ==
  ASSUME NEW n \in Nat, NEW T, 0 \in T, \A i \in 1..n : i - 1 \in T => i \in T
  PROVE  0..n \subseteq T
<1> DEFINE Rest == 0..n \ T
<1>1. SUFFICES ASSUME Rest # {} PROVE FALSE
  OBVIOUS
<1>2. PICK x \in Rest : \A y \in Rest : x <= y
  <2>1. Rest \subseteq Nat
    OBVIOUS
  <2> HIDE DEF Rest
  <2> QED
    BY <1>1, <2>1, LeastElement
<1>3. x \in 1..n /\ x - 1 \in 0..n
  BY <1>2
<1>4. x - 1 \notin Rest
  BY <1>2, <1>3
<1> QED
  BY <1>2, <1>3, <1>4


-------------------------------------------------------------------------------
(* A strict order on numbered things can be enumerated.                    *)

StrictOrder(R, S) ==
  /\ \A k \in S : <<k, k>> \notin R
  /\ \A k, l, m \in S : <<k, l>> \in R /\ <<l, m>> \in R => <<k, m>> \in R
  /\ \A k, l \in S : k # l => <<k, l>> \in R \/ <<l, k>> \in R

Below(R, S, k) == {l \in S : <<l, k>> \in R}

RankOf(R, S) == [k \in S |-> Cardinality(Below(R, S, k)) + 1]

LEMMA RankGrows ==
  ASSUME NEW S, IsFiniteSet(S), NEW R, StrictOrder(R, S), NEW k \in S, NEW l \in S,
         <<k, l>> \in R
  PROVE  Cardinality(Below(R, S, k)) < Cardinality(Below(R, S, l))
<1> DEFINE A == Below(R, S, k)
           B == Below(R, S, l)
<1>1. A \subseteq B /\ k \in B /\ k \notin A /\ B \subseteq S
  BY DEF StrictOrder, Below
<1> HIDE DEF A, B
<1>2. IsFiniteSet(B) /\ Cardinality(B) \in Nat
  BY <1>1, FS_Subset, FS_CardinalityType
<1>3. A \in SUBSET B /\ A # B
  BY <1>1
<1>4. /\ IsFiniteSet(A) /\ Cardinality(A) <= Cardinality(B)
      /\ Cardinality(B) = Cardinality(A) => B = A
  BY <1>2, <1>3, FS_Subset
<1>5. Cardinality(A) \in Nat
  BY <1>4, FS_CardinalityType
<1> QED
  BY <1>2, <1>3, <1>4, <1>5 DEF A, B

LEMMA RankInSet ==
  ASSUME NEW m \in Nat, NEW R, StrictOrder(R, 1..m), NEW k \in 1..m
  PROVE  RankOf(R, 1..m)[k] \in 1..m
<1> DEFINE A == Below(R, 1..m, k)
<1>1. IsFiniteSet(1..m) /\ Cardinality(1..m) = m
  BY FS_Interval
<1>2. PICK B : B = (1..m) \ {k}
  OBVIOUS
<1>3. IsFiniteSet(B) /\ Cardinality(B) = m - 1
  BY <1>1, <1>2, FS_RemoveElement
<1>4. A \in SUBSET B
  BY <1>2 DEF StrictOrder, Below
<1> HIDE DEF A
<1>5. IsFiniteSet(A) /\ Cardinality(A) <= m - 1
  BY <1>3, <1>4, FS_Subset
<1>6. Cardinality(A) \in Nat
  BY <1>5, FS_CardinalityType
<1> QED
  BY <1>5, <1>6 DEF RankOf, A

(* g lists the numbers up to m in the order R.                             *)
Enumerates(g, m, R) ==
  /\ g \in [1..m -> 1..m]
  /\ \A i, j \in 1..m : i # j => g[i] # g[j]
  /\ \A k \in 1..m : \E i \in 1..m : g[i] = k
  /\ \A i, j \in 1..m : i < j => <<g[i], g[j]>> \in R

LEMMA OrderListed ==
  ASSUME NEW m \in Nat, NEW R, StrictOrder(R, 1..m)
  PROVE  \E g : Enumerates(g, m, R)
<1> DEFINE rank == RankOf(R, 1..m)
<1>1. IsFiniteSet(1..m) /\ Cardinality(1..m) = m
  BY FS_Interval
<1>2. rank \in [1..m -> 1..m]
  BY RankInSet DEF RankOf
<1>3. \A k, l \in 1..m : <<k, l>> \in R => rank[k] < rank[l]
  <2> SUFFICES ASSUME NEW k \in 1..m, NEW l \in 1..m, <<k, l>> \in R
               PROVE  rank[k] < rank[l]
    OBVIOUS
  <2>1. Cardinality(Below(R, 1..m, k)) < Cardinality(Below(R, 1..m, l))
    BY <1>1, RankGrows
  <2>2. rank[k] \in Int /\ rank[l] \in Int
    BY <1>2
  <2>3. /\ rank[k] = Cardinality(Below(R, 1..m, k)) + 1
        /\ rank[l] = Cardinality(Below(R, 1..m, l)) + 1
    BY DEF RankOf
  <2>4. /\ IsFiniteSet(Below(R, 1..m, k)) /\ IsFiniteSet(Below(R, 1..m, l))
    <3>1. Below(R, 1..m, k) \in SUBSET (1..m) /\ Below(R, 1..m, l) \in SUBSET (1..m)
      BY DEF Below
    <3> QED
      BY <1>1, <3>1, FS_Subset
  <2>5. Cardinality(Below(R, 1..m, k)) \in Nat /\ Cardinality(Below(R, 1..m, l)) \in Nat
    BY <2>4, FS_CardinalityType
  <2> QED
    BY <2>1, <2>3, <2>5
<1> HIDE DEF rank
<1>4. \A k, l \in 1..m : k # l => rank[k] # rank[l]
  <2> SUFFICES ASSUME NEW k \in 1..m, NEW l \in 1..m, k # l PROVE rank[k] # rank[l]
    OBVIOUS
  <2>1. rank[k] \in Int /\ rank[l] \in Int
    BY <1>2
  <2>2. <<k, l>> \in R \/ <<l, k>> \in R
    BY DEF StrictOrder
  <2>3. rank[k] < rank[l] \/ rank[l] < rank[k]
    BY <1>3, <2>2
  <2> QED
    BY <2>1, <2>3
<1>5. rank \in Injection(1..m, 1..m)
  BY <1>2, <1>4 DEF Injection, IsInjective
<1>6. rank \in Surjection(1..m, 1..m)
  BY <1>1, <1>5, FS_Injection
<1>7. \A i \in 1..m : \E k \in 1..m : rank[k] = i
  BY <1>6 DEF Surjection
<1> DEFINE g == [i \in 1..m |-> CHOOSE k \in 1..m : rank[k] = i]
<1>8. g \in [1..m -> 1..m] /\ \A i \in 1..m : rank[g[i]] = i
  BY <1>7
<1> HIDE DEF g
<1>9. \A i, j \in 1..m : i # j => g[i] # g[j]
  BY <1>8
<1>10. \A k \in 1..m : \E i \in 1..m : g[i] = k
  <2> SUFFICES ASSUME NEW k \in 1..m PROVE \E i \in 1..m : g[i] = k
    OBVIOUS
  <2>1. rank[k] \in 1..m /\ rank[g[rank[k]]] = rank[k] /\ g[rank[k]] \in 1..m
    BY <1>2, <1>8
  <2> QED
    BY <1>4, <2>1
<1>11. \A i, j \in 1..m : i < j => <<g[i], g[j]>> \in R
  <2> SUFFICES ASSUME NEW i \in 1..m, NEW j \in 1..m, i < j PROVE <<g[i], g[j]>> \in R
    OBVIOUS
  <2>1. g[i] \in 1..m /\ g[j] \in 1..m /\ rank[g[i]] = i /\ rank[g[j]] = j
    BY <1>8
  <2>2. <<g[j], g[i]>> \notin R
    BY <1>3, <2>1
  <2>3. g[i] # g[j]
    BY <2>1
  <2> QED
    BY <2>1, <2>2, <2>3 DEF StrictOrder
<1>12. Enumerates(g, m, R)
  BY <1>8, <1>9, <1>10, <1>11 DEF Enumerates
<1> QED
  BY <1>12

(* f gives the first n of S in the order R.                                *)
HeadOf(f, n, R, S) ==
  /\ f \in [1..n -> S]
  /\ \A i, j \in 1..n : i # j => f[i] # f[j]
  /\ \A i, j \in 1..n : i < j => <<f[i], f[j]>> \in R
  /\ \A i \in 1..n, k \in S : (\A j \in 1..n : f[j] # k) => <<f[i], k>> \in R

LEMMA HeadAhead ==
  ASSUME NEW R, NEW S, NEW n \in Nat, NEW f, NEW g, HeadOf(f, n, R, S), HeadOf(g, n, R, S),
         NEW m \in 1..n, f[m] # g[m], \A i \in 1..m - 1 : f[i] = g[i]
  PROVE  <<f[m], g[m]>> \in R
<1>1. /\ f \in [1..n -> S] /\ g \in [1..n -> S]
      /\ \A i, j \in 1..n : i # j => f[i] # f[j] /\ g[i] # g[j]
      /\ \A i, j \in 1..n : i < j => <<f[i], f[j]>> \in R
      /\ \A i \in 1..n, k \in S : (\A j \in 1..n : f[j] # k) => <<f[i], k>> \in R
  BY DEF HeadOf
<1>2. g[m] \in S
  BY <1>1
<1>3. CASE \A j \in 1..n : f[j] # g[m]
  BY <1>1, <1>2, <1>3
<1>4. CASE \E j \in 1..n : f[j] = g[m]
  <2>1. PICK j \in 1..n : f[j] = g[m]
    BY <1>4
  <2>2. ~(j \in 1..m - 1)
    <3>1. ASSUME j \in 1..m - 1 PROVE FALSE
      <4>1. f[j] = g[j] /\ j # m
        BY <3>1
      <4> QED
        BY <1>1, <2>1, <4>1
    <3> QED
      BY <3>1
  <2>3. m < j
    BY <2>1, <2>2
  <2>4. <<f[m], f[j]>> \in R
    BY <1>1, <2>3
  <2> QED
    BY <2>1, <2>4
<1> QED
  BY <1>3, <1>4

LEMMA HeadUnique ==
  ASSUME NEW R, NEW S, NEW n \in Nat, NEW f, NEW g, HeadOf(f, n, R, S), HeadOf(g, n, R, S),
         \A k, l \in S : k # l => ~(<<k, l>> \in R /\ <<l, k>> \in R)
  PROVE  f = g
<1>1. f \in [1..n -> S] /\ g \in [1..n -> S]
  BY DEF HeadOf
<1>2. SUFFICES ASSUME f # g PROVE FALSE
  OBVIOUS
<1> DEFINE Differ == {i \in 1..n : f[i] # g[i]}
<1>3. Differ # {}
  BY <1>1, <1>2
<1>4. PICK m \in Differ : \A i \in Differ : m <= i
  <2>1. Differ \subseteq Nat
    OBVIOUS
  <2> HIDE DEF Differ
  <2> QED
    BY <1>3, <2>1, LeastElement
<1>5. m \in 1..n /\ f[m] # g[m] /\ \A i \in 1..m - 1 : f[i] = g[i]
  <2>1. \A i \in 1..m - 1 : i \in 1..n /\ i \notin Differ
    BY <1>4
  <2> QED
    BY <1>4, <2>1
<1> HIDE DEF Differ
<1>6. <<f[m], g[m]>> \in R
  BY <1>5, HeadAhead
<1>7. <<g[m], f[m]>> \in R
  <2>1. g[m] # f[m] /\ \A i \in 1..m - 1 : g[i] = f[i]
    BY <1>5
  <2> QED
    BY <1>5, <2>1, HeadAhead
<1>8. f[m] \in S /\ g[m] \in S
  BY <1>1, <1>5
<1> QED
  BY <1>5, <1>6, <1>7, <1>8

(* A list of everything begins with the head.                              *)
LEMMA ListBegins ==
  ASSUME NEW m \in Nat, NEW n \in 0..m, NEW R, StrictOrder(R, 1..m), NEW g, Enumerates(g, m, R),
         NEW f, HeadOf(f, n, R, 1..m)
  PROVE  \A i \in 1..n : g[i] = f[i]
<1>1. /\ g \in [1..m -> 1..m]
      /\ \A i, j \in 1..m : i # j => g[i] # g[j]
      /\ \A k \in 1..m : \E i \in 1..m : g[i] = k
      /\ \A i, j \in 1..m : i < j => <<g[i], g[j]>> \in R
  BY DEF Enumerates
<1> DEFINE h == [i \in 1..n |-> g[i]]
<1>2. \A i \in 1..n : i \in 1..m /\ h[i] = g[i]
  OBVIOUS
<1>3. h \in [1..n -> 1..m]
  BY <1>1
<1> HIDE DEF h
<1>4. \A i \in 1..n, k \in 1..m : (\A j \in 1..n : h[j] # k) => <<h[i], k>> \in R
  <2> SUFFICES ASSUME NEW i \in 1..n, NEW k \in 1..m, \A j \in 1..n : h[j] # k
               PROVE  <<h[i], k>> \in R
    OBVIOUS
  <2>1. PICK j \in 1..m : g[j] = k
    BY <1>1
  <2>2. j \notin 1..n
    BY <1>2, <2>1
  <2>3. i < j /\ i \in 1..m
    BY <2>1, <2>2
  <2> QED
    BY <1>1, <1>2, <2>1, <2>3
<1>5. HeadOf(h, n, R, 1..m)
  BY <1>1, <1>2, <1>3, <1>4 DEF HeadOf
<1>6. \A k, l \in 1..m : k # l => ~(<<k, l>> \in R /\ <<l, k>> \in R)
  BY DEF StrictOrder
<1>7. n \in Nat
  OBVIOUS
<1>8. h = f
  BY <1>5, <1>6, <1>7, HeadUnique
<1> QED
  BY <1>2, <1>8
===============================================================================
