--------------------------------- MODULE Utf8 ---------------------------------
(***************************************************************************)
(* The namespace utf8 of string_utils.hpp: where characters begin and end  *)
(* in a buffer of bytes.  A position p is an offset from 0, as the         *)
(* pointers of the code are: the byte at p is s[p + 1], and the bytes from *)
(* p up to but not including q are Span(s, p, q).                          *)
(***************************************************************************)
EXTENDS Integers, SequencesExt

CONSTANTS Bytes,
          Length,                   \* bytes in the character a byte begins
          MAX_BYTES_PER_CHARACTER

ASSUME Utf8Assumption ==
  /\ MAX_BYTES_PER_CHARACTER \in Nat \ {0}
  /\ Length \in [Bytes -> -1..MAX_BYTES_PER_CHARACTER]

Span(s, p, q) == SubSeq(s, p + 1, q)

(* length() returns -1 for a byte no character begins with: here, 0 is for *)
(* a continuation byte and -1 for a byte no character has.                 *)
IsContinuation(b) == Length[b] = 0

(* NULL                                                                    *)
NoPosition == -1

(* Only as far back as a character can be long.                            *)
LastCharacterStart(s, begin, end) ==
  LET starts == {p \in begin..end - 1 : /\ p >= end - MAX_BYTES_PER_CHARACTER
                                        /\ ~IsContinuation(s[p + 1])}
  IN IF starts = {} THEN NoPosition ELSE Max(starts)

LastCompletedCharacterEnd(s, begin, end) ==
  LET start == LastCharacterStart(s, begin, end)
  IN IF start = NoPosition THEN NoPosition
     ELSE IF Length[s[start + 1]] <= 0 \/ start + Length[s[start + 1]] > end THEN start
     ELSE start + Length[s[start + 1]]

DecrementUntilCharacterStart_Never(s, pos, begin, end) == pos

DecrementUntilCharacterStart(s, pos, begin, end) ==
  IF pos = end THEN pos
  ELSE LET start == LastCharacterStart(s, begin, pos + 1)
       IN IF start = NoPosition THEN pos ELSE start

===============================================================================
