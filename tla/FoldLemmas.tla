------------------------------- MODULE FoldLemmas ------------------------------
(***************************************************************************)
(* What a fold from the left computes, for any operation: FoldLeft is a    *)
(* recursive function on the sets of positions of its argument, of which   *)
(* only the first ones matter.  The operation has a third argument, which  *)
(* stays the same throughout a fold.  A module instantiates this one for   *)
(* each operation that it folds.                                           *)
(***************************************************************************)
EXTENDS SequenceLemmas

CONSTANT Op(_, _, _)

Fold(base, seq, k) == FoldLeft(LAMBDA x, e : Op(x, e, k), base, seq)

(* f is the function for the sets of the first n positions.                *)
Folds(f, base, seq, k, n) ==
  f = [s \in SUBSET (1..n) |->
        IF s = {} THEN base ELSE Op(f[s \ {Max(s)}], seq[Max(s)], k)]

LEMMA FoldsValue ==
  ASSUME NEW base, NEW seq, NEW k, NEW n, NEW f, Folds(f, base, seq, k, n),
         NEW s \in SUBSET (1..n)
  PROVE  f[s] = IF s = {} THEN base ELSE Op(f[s \ {Max(s)}], seq[Max(s)], k)
<1> DEFINE Value(t) == IF t = {} THEN base ELSE Op(f[t \ {Max(t)}], seq[Max(t)], k)
<1>1. f = [t \in SUBSET (1..n) |-> Value(t)]
  BY DEF Folds
<1>2. f[s] = Value(s)
  <2> HIDE DEF Value
  <2> QED
    BY <1>1
<1> QED
  BY <1>2

LEMMA MaxOfPositions ==
  ASSUME NEW n \in Nat, NEW s \in SUBSET (1..n), s # {}
  PROVE  Max(s) \in s /\ \A x \in s : x <= Max(s)
<1>1. s \subseteq Int /\ n \in Int /\ \A x \in s : x <= n
  OBVIOUS
<1> QED
  BY <1>1, GreatestElement

LEMMA MaxOfAll ==
  ASSUME NEW n \in Nat \ {0}
  PROVE  Max(1..n) = n /\ (1..n) \ {n} = 1..n - 1
<1>1. Max(1..n) \in 1..n /\ \A x \in 1..n : x <= Max(1..n)
  <2>1. 1..n \in SUBSET (1..n) /\ 1..n # {} /\ n \in Nat
    OBVIOUS
  <2> QED
    BY <2>1, MaxOfPositions
<1> QED
  BY <1>1

LEMMA FoldsNone ==
  ASSUME NEW base, NEW seq, NEW k, NEW n, NEW f, Folds(f, base, seq, k, n)
  PROVE  f[{}] = base
<1>1. \A s : s \in SUBSET (1..n) =>
        f[s] = IF s = {} THEN base ELSE Op(f[s \ {Max(s)}], seq[Max(s)], k)
  <2> SUFFICES ASSUME NEW s, s \in SUBSET (1..n)
               PROVE  f[s] = IF s = {} THEN base ELSE Op(f[s \ {Max(s)}], seq[Max(s)], k)
    OBVIOUS
  <2> QED
    BY FoldsValue
<1>2. {} \in SUBSET (1..n)
  OBVIOUS
<1> QED
  BY <1>1, <1>2

(* On the first i positions it is one step after what it is on i - 1.      *)
LEMMA FoldsStep ==
  ASSUME NEW base, NEW seq, NEW k, NEW n \in Nat, NEW f, Folds(f, base, seq, k, n)
  PROVE  \A i \in 1..n : f[1..i] = Op(f[1..i - 1], seq[i], k)
<1>1. \A s : s \in SUBSET (1..n) =>
        f[s] = IF s = {} THEN base ELSE Op(f[s \ {Max(s)}], seq[Max(s)], k)
  <2> SUFFICES ASSUME NEW s, s \in SUBSET (1..n)
               PROVE  f[s] = IF s = {} THEN base ELSE Op(f[s \ {Max(s)}], seq[Max(s)], k)
    OBVIOUS
  <2> QED
    BY FoldsValue
<1>2. \A i \in 1..n : f[1..i] = Op(f[1..i - 1], seq[i], k)
  <2> SUFFICES ASSUME NEW i \in 1..n PROVE f[1..i] = Op(f[1..i - 1], seq[i], k)
    OBVIOUS
  <2>1. PICK p : p = 1..i
    OBVIOUS
  <2>2. p \in SUBSET (1..n)
    BY <2>1
  <2>3. p # {}
    BY <2>1
  <2>4. f[p] = Op(f[p \ {Max(p)}], seq[Max(p)], k)
    BY ONLY <1>1, <2>2, <2>3
  <2>5. Max(p) = i /\ p \ {i} = 1..i - 1
    <3>1. i \in Nat \ {0}
      OBVIOUS
    <3> QED
      BY <2>1, <3>1, MaxOfAll
  <2> QED
    BY ONLY <2>1, <2>4, <2>5
<1> QED
  BY <1>2

(* The function exists: were there a least n for which it does not, the    *)
(* one for n - 1 could be extended to the sets that n is in.               *)
LEMMA FoldsExists ==
  ASSUME NEW base, NEW seq, NEW k, NEW n \in Nat
  PROVE  \E f : Folds(f, base, seq, k, n)
<1> DEFINE Missing == {m \in Nat : ~ \E f : Folds(f, base, seq, k, m)}
<1>1. SUFFICES ASSUME Missing # {} PROVE FALSE
  OBVIOUS
<1>2. PICK m \in Missing : \A i \in Missing : m <= i
  <2>1. Missing \subseteq Nat
    OBVIOUS
  <2> HIDE DEF Missing
  <2> QED
    BY <1>1, <2>1, LeastElement
<1>3. m # 0
  <2> DEFINE f == [s \in SUBSET (1..0) |-> base]
  <2>1. SUBSET (1..0) = {{}}
    OBVIOUS
  <2>2. Folds(f, base, seq, k, 0)
    <3>1. \A s \in SUBSET (1..0) :
            base = IF s = {} THEN base ELSE Op(f[s \ {Max(s)}], seq[Max(s)], k)
      BY <2>1
    <3>2. [s \in SUBSET (1..0) |-> base]
            = [s \in SUBSET (1..0) |->
                IF s = {} THEN base ELSE Op(f[s \ {Max(s)}], seq[Max(s)], k)]
      <4> HIDE DEF f
      <4> QED
        BY <3>1
    <3> QED
      BY <3>2 DEF Folds
  <2> QED
    BY <2>2
<1>4. m - 1 \in Nat /\ m - 1 \notin Missing
  BY <1>2, <1>3
<1>5. PICK f : Folds(f, base, seq, k, m - 1)
  BY <1>4
<1> DEFINE Step(s) == IF s = {} THEN base ELSE Op(f[s \ {Max(s)}], seq[Max(s)], k)
           g == [s \in SUBSET (1..m) |-> Step(s)]
<1>6. \A s \in SUBSET (1..m - 1) : g[s] = f[s]
  <2> SUFFICES ASSUME NEW s \in SUBSET (1..m - 1) PROVE g[s] = f[s]
    OBVIOUS
  <2>1. f[s] = Step(s)
    BY <1>5, FoldsValue
  <2>2. s \in SUBSET (1..m)
    BY <1>4
  <2> HIDE DEF Step
  <2> QED
    BY <2>1, <2>2
<1>7. \A s \in SUBSET (1..m) : s # {} => s \ {Max(s)} \in SUBSET (1..m - 1)
  <2> SUFFICES ASSUME NEW s \in SUBSET (1..m), s # {}
               PROVE  s \ {Max(s)} \in SUBSET (1..m - 1)
    OBVIOUS
  <2>1. Max(s) \in s /\ \A x \in s : x <= Max(s)
    BY <1>4, MaxOfPositions
  <2>2. \A x \in s : x \in Nat /\ 1 <= x /\ x <= m
    BY <1>4
  <2>3. \A x \in s \ {Max(s)} : x \in 1..m - 1
    <3> SUFFICES ASSUME NEW x \in s \ {Max(s)} PROVE x \in 1..m - 1
      OBVIOUS
    <3>1. PICK top : top = Max(s)
      OBVIOUS
    <3>2. x \in Nat /\ 1 <= x /\ top \in Nat /\ top <= m /\ x <= top /\ x # top /\ m \in Nat
      BY <1>4, <2>1, <2>2, <3>1
    <3> QED
      BY ONLY <3>2
  <2> QED
    BY <2>3
<1>8. \A s \in SUBSET (1..m) :
        Step(s) = IF s = {} THEN base ELSE Op(g[s \ {Max(s)}], seq[Max(s)], k)
  <2> HIDE DEF g
  <2> QED
    BY <1>6, <1>7
<1>9. Folds(g, base, seq, k, m)
  <2>1. [s \in SUBSET (1..m) |-> Step(s)]
          = [s \in SUBSET (1..m) |->
              IF s = {} THEN base ELSE Op(g[s \ {Max(s)}], seq[Max(s)], k)]
    <3> HIDE DEF g, Step
    <3> QED
      BY <1>8
  <2> QED
    BY <2>1 DEF Folds
<1> QED
  BY <1>2, <1>9

Agree(s, t, m) == \A i \in 1..m : s[i] = t[i]

(* Two sequences with the same beginning fold to the same there.           *)
LEMMA FoldsUnique ==
  ASSUME NEW base, NEW k, NEW n \in Nat, NEW m \in 0..n, NEW s, NEW t,
         Agree(s, t, m), NEW f, NEW g, Folds(f, base, s, k, m), Folds(g, base, t, k, n)
  PROVE  \A i \in 0..m : f[1..i] = g[1..i]
<1> DEFINE Differ == {i \in 0..m : f[1..i] # g[1..i]}
<1>1. SUFFICES ASSUME Differ # {} PROVE FALSE
  OBVIOUS
<1>2. PICK d \in Differ : \A i \in Differ : d <= i
  <2>1. Differ \subseteq Nat
    OBVIOUS
  <2> HIDE DEF Differ
  <2> QED
    BY <1>1, <2>1, LeastElement
<1>3. d # 0
  <2>1. f[{}] = base /\ g[{}] = base
    BY FoldsNone
  <2>2. 1..0 = {}
    OBVIOUS
  <2> QED
    BY <1>2, <2>1, <2>2
<1>4. d \in 1..m /\ d \in 1..n /\ d - 1 \in 0..m /\ d - 1 \notin Differ
  BY <1>2, <1>3
<1>5. f[1..d - 1] = g[1..d - 1] /\ s[d] = t[d]
  BY <1>4 DEF Agree
<1>6. f[1..d] = Op(f[1..d - 1], s[d], k)
  BY <1>4, FoldsStep
<1>7. g[1..d] = Op(g[1..d - 1], t[d], k)
  BY <1>4, FoldsStep
<1> QED
  BY <1>2, <1>5, <1>6, <1>7

(* A fold is the last of the values that it goes through.                  *)
LEMMA FoldIs ==
  ASSUME NEW base, NEW k, NEW seq, NEW n \in Nat, DOMAIN seq = 1..n,
         NEW f, Folds(f, base, seq, k, n)
  PROVE  Fold(base, seq, k) = f[1..n]
<1> DEFINE h == CHOOSE g : Folds(g, base, seq, k, n)
<1>1. Folds(h, base, seq, k, n)
  OBVIOUS
<1>2. Fold(base, seq, k) = h[1..n]
  BY DEF Fold, FoldLeft, MapThenFoldSet, Folds
<1>3. h[1..n] = f[1..n]
  <2> HIDE DEF h
  <2>1. n \in 0..n /\ Agree(seq, seq, n)
    BY DEF Agree
  <2>2. \A i \in 0..n : h[1..i] = f[1..i]
    BY <1>1, <2>1, FoldsUnique
  <2> QED
    BY <2>1, <2>2
<1> QED
  BY <1>2, <1>3

Steps(v, base, seq, k, n) ==
  v[0] = base /\ \A i \in 1..n : v[i] = Op(v[i - 1], seq[i], k)

LEMMA FoldValues ==
  ASSUME NEW base, NEW k, NEW seq, NEW n \in Nat, DOMAIN seq = 1..n
  PROVE  \E v : Steps(v, base, seq, k, n) /\ Fold(base, seq, k) = v[n]
<1>1. PICK f : Folds(f, base, seq, k, n)
  BY FoldsExists
<1> DEFINE v == [i \in 0..n |-> f[1..i]]
<1>2. f[{}] = base /\ \A i \in 1..n : f[1..i] = Op(f[1..i - 1], seq[i], k)
  BY <1>1, FoldsStep, FoldsNone
<1>3. v[0] = base /\ \A i \in 1..n : v[i] = Op(v[i - 1], seq[i], k)
  <2>1. \A i \in 0..n : v[i] = f[1..i]
    OBVIOUS
  <2>2. 1..0 = {} /\ 0 \in 0..n /\ \A i \in 1..n : i \in 0..n /\ i - 1 \in 0..n
    OBVIOUS
  <2> HIDE DEF v
  <2> QED
    BY ONLY <1>2, <2>1, <2>2
<1>4. Fold(base, seq, k) = v[n]
  <2>1. Fold(base, seq, k) = f[1..n]
    BY <1>1, FoldIs
  <2> QED
    BY <2>1
<1> HIDE DEF v
<1> QED
  BY <1>3, <1>4 DEF Steps

(* Nothing is folded.                                                      *)
LEMMA FoldEmpty ==
  ASSUME NEW base, NEW k
  PROVE  Fold(base, <<>>, k) = base
<1>1. DOMAIN <<>> = 1..0 /\ 0 \in Nat
  OBVIOUS
<1> QED
  BY <1>1, FoldValues DEF Steps

(* One more is folded.                                                     *)
LEMMA FoldLast ==
  ASSUME NEW base, NEW k, NEW n \in Nat, NEW s, NEW t,
         DOMAIN s = 1..n, DOMAIN t = 1..n + 1, \A i \in 1..n : s[i] = t[i]
  PROVE  Fold(base, t, k) = Op(Fold(base, s, k), t[n + 1], k)
<1>1. PICK m : m = n + 1
  OBVIOUS
<1>2. m \in Nat /\ n \in 0..m /\ m \in 1..m /\ m - 1 = n
  BY <1>1
<1>3. PICK f : Folds(f, base, s, k, n)
  BY FoldsExists
<1>4. PICK g : Folds(g, base, t, k, m)
  BY <1>2, FoldsExists
<1>5. f[1..n] = g[1..n]
  <2>1. \A i \in 0..n : f[1..i] = g[1..i]
    <3>1. Agree(s, t, n)
      BY DEF Agree
    <3> QED
      BY ONLY <1>2, <1>3, <1>4, <3>1, FoldsUnique
  <2> QED
    BY <2>1
<1>6. Fold(base, s, k) = f[1..n]
  <2>1. n \in Nat /\ DOMAIN s = 1..n
    OBVIOUS
  <2> QED
    BY ONLY <1>3, <2>1, FoldIs
<1>7. Fold(base, t, k) = g[1..m]
  <2>1. m \in Nat /\ DOMAIN t = 1..m
    BY <1>1, <1>2
  <2> QED
    BY ONLY <1>4, <2>1, FoldIs
<1>8. g[1..m] = Op(g[1..m - 1], t[m], k)
  BY <1>2, <1>4, FoldsStep
<1> QED
  BY <1>1, <1>2, <1>5, <1>6, <1>7, <1>8

(* What holds for the base and is kept by each step, said of a set.        *)
LEMMA FoldInSet ==
  ASSUME NEW V, NEW S, NEW base \in V, NEW k, NEW seq \in Seq(S),
         \A x \in V, e \in S : Op(x, e, k) \in V
  PROVE  Fold(base, seq, k) \in V
<1>1. PICK n \in Nat : n = Len(seq) /\ DOMAIN seq = 1..n
  BY LenProperties
<1>2. PICK v : Steps(v, base, seq, k, n) /\ Fold(base, seq, k) = v[n]
  BY <1>1, FoldValues
<1> DEFINE Wrong == {i \in 0..n : v[i] \notin V}
<1>3. Wrong = {}
  <2>1. SUFFICES ASSUME Wrong # {} PROVE FALSE
    OBVIOUS
  <2>2. PICK w \in Wrong : \A i \in Wrong : w <= i
    <3>1. Wrong \subseteq Nat
      OBVIOUS
    <3> HIDE DEF Wrong
    <3> QED
      BY <2>1, <3>1, LeastElement
  <2>3. w # 0
    BY <1>2, <2>2 DEF Steps
  <2>4. w \in 1..n /\ w - 1 \in 0..n /\ w - 1 \notin Wrong
    BY <2>2, <2>3
  <2>5. v[w - 1] \in V /\ seq[w] \in S
    BY <1>1, <2>4, ElementOfSeq
  <2>6. v[w] = Op(v[w - 1], seq[w], k)
    BY <1>2, <2>4 DEF Steps
  <2> QED
    BY <2>2, <2>5, <2>6
<1> QED
  BY <1>2, <1>3
===============================================================================
