------------------------------- MODULE Selection ------------------------------
(***************************************************************************)
(* What the options promise about the tokens that come out, whatever       *)
(* memory is used on the way: the first occurrences (--unique), in the     *)
(* order asked for (--sort, --sort-reverse, --stable), the given range of  *)
(* them counted from the front (--out) or from the back (--tail), turned   *)
(* around last (--flip).  Tokens arrive one at a time; the result appears  *)
(* once, when no arrival to come could still change it or none will come.  *)
(***************************************************************************)
EXTENDS Integers, SequencesExt

CONSTANT NoLimit

VARIABLES options, arrivals, result

svars == <<options, arrivals, result>>

NoResult == [given |-> FALSE, tokens |-> <<>>]
Result(s) == [given |-> TRUE, tokens |-> s]

Precedes(o, s, t) == IF o.sort_reverse THEN t.sort < s.sort ELSE s.sort < t.sort

(* t is kept unless a token that arrived before it is of its class.        *)
WithFirst(kept, t, s) ==
  IF \A i \in 1..t.id - 1 : s[i].unique # t.unique THEN Append(kept, t) ELSE kept

FirstOccurrences(o, s) ==
  IF o.unique THEN FoldLeft(LAMBDA kept, t : WithFirst(kept, t, s), <<>>, s) ELSE s

(* All orders of s the sort may leave it in.                               *)
Sorted(o, s) ==
  {[i \in DOMAIN s |-> s[f[i]]] :
     f \in {g \in Bijection(DOMAIN s, DOMAIN s) :
              \A i, j \in DOMAIN s :
                i < j => \/ Precedes(o, s[g[i]], s[g[j]])
                         \/ /\ ~Precedes(o, s[g[j]], s[g[i]])
                            /\ o.sort_stable => g[i] < g[j]}}

Orders(o, s) == IF o.sort THEN Sorted(o, s) ELSE {s}

(* Positions are counted from 0; the start is kept, the stop is not.       *)
InRange(n, start, stop) == n >= start /\ n < stop

Ranged(o, s) ==
  LET kept == IF o.tail_end # NoLimit
              THEN {i \in DOMAIN s : InRange(Len(s) - i, o.tail_start, o.tail_end)}
              ELSE IF o.out_end # NoLimit
              THEN {i \in DOMAIN s : InRange(i - 1, o.out_start, o.out_end)}
              ELSE DOMAIN s
      first == CHOOSE i \in kept : \A j \in kept : i <= j
  IN [i \in 1..Cardinality(kept) |-> s[first + i - 1]]

Turned(o, s) == IF o.flip THEN Reverse(s) ELSE s

Results(o, s) == {Turned(o, Ranged(o, order)) : order \in Orders(o, FirstOccurrences(o, s))}

(* No arrival to come can matter: the range is counted from the front of   *)
(* the arrival order and is full.                                          *)
Settled(o, s) ==
  /\ ~o.sort
  /\ o.tail_end = NoLimit
  /\ o.out_end # NoLimit
  /\ Len(FirstOccurrences(o, s)) >= o.out_end

SInit == arrivals = <<>> /\ result = NoResult

Arrived == arrivals' # <<>> /\ Front(arrivals') = arrivals

Take == /\ ~result.given
        /\ Arrived
        /\ UNCHANGED <<options, result>>

Deliver == /\ ~result.given
           /\ Arrived \/ UNCHANGED arrivals
           /\ \E s \in Results(options, arrivals') : result' = Result(s)
           /\ UNCHANGED options

SNext == Take \/ Deliver

SSpec == SInit /\ [][SNext]_svars

===============================================================================
