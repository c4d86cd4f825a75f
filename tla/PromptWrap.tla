------------------------------- MODULE PromptWrap ------------------------------
(***************************************************************************)
(* create_prompt_lines (string_utils.hpp): the word wrapping of the prompt *)
(* of the tui.  A character is what wcwidth and iswspace tell of it.  Each *)
(* turn of the loop reads one; the inner loop that drops the white space   *)
(* at a wrap is turns too, told apart by "dropping".                       *)
(***************************************************************************)
EXTENDS Integers, SequencesExt

Characters == {"narrow", "wide", "combining", "blank", "newline"}
Lines == Seq(Seq(Characters))

Width(c) ==
  CASE c \in {"narrow", "blank"} -> 1
    [] c = "wide" -> 2
    [] c = "combining" -> 0
    [] c = "newline" -> -1

IsSpace(c) == c \in {"blank", "newline"}
NotSpace(c) == ~IsSpace(c)

LineWidth(line) == FoldLeft(LAMBDA w, c : w + Width(c), 0, line)

(* remove_trailing_invisible                                               *)
Trimmed(line) == SubSeq(line, 1, SelectLastInSeq(line, NotSpace))

(* The part of a line after its last blank: none if there is no blank.     *)
LastWord(line) ==
  LET blank == SelectLastInSeq(line, IsSpace)
  IN IF blank = 0 THEN <<>> ELSE SubSeq(line, blank + 1, Len(line))

NewWrap(columns) == [lines |-> <<<<>>>>, room |-> columns, dropping |-> FALSE]

Broken(w, columns) ==
  [w EXCEPT !.lines = Append(Front(@) \o <<Trimmed(Last(@))>>, <<>>), !.room = columns]

Pushed(w, c) == [w EXCEPT !.lines = Front(@) \o <<Append(Last(@), c)>>, !.dropping = FALSE]

(* The last line makes room for c: a line of blanks is used again, and     *)
(* where the wrap separates a word, its beginning moves to the next line.  *)
NextLine_WordCut(w, separates) ==
  IF SelectInSeq(Last(w.lines), NotSpace) = 0
  THEN [w EXCEPT !.lines = Front(@) \o << <<>> >>]
  ELSE [w EXCEPT !.lines = Front(@) \o <<Trimmed(Last(@)), <<>>>>]

NextLine_RoomKept(w, separates) ==
  LET moved == IF separates THEN LastWord(Last(w.lines)) ELSE <<>>
      kept == SubSeq(Last(w.lines), 1, Len(Last(w.lines)) - Len(moved))
  IN [w EXCEPT !.lines = Front(@) \o
        IF SelectInSeq(kept, NotSpace) = 0 /\ moved = <<>> THEN << <<>> >>
        ELSE <<Trimmed(kept), moved>>]

NextLine(w, separates) ==
  LET line == Last(w.lines)
      moved == IF separates THEN LastWord(line) ELSE <<>>
  IN IF SelectInSeq(line, NotSpace) = 0
     THEN [w EXCEPT !.lines = Front(@) \o << <<>> >>]
     ELSE [w EXCEPT !.lines = Front(@) \o <<Trimmed(SubSeq(line, 1, Len(line) - Len(moved))), moved>>,
                    !.room = @ - LineWidth(moved)]

(* A character that does not fit.  White space begins the dropping, which  *)
(* leaves the room as it is after that one character.                      *)
Wrapped(w, c, columns) ==
  LET refilled == [w EXCEPT !.room = columns - Width(c)]
  IN IF IsSpace(c) THEN [refilled EXCEPT !.dropping = TRUE]
     ELSE Pushed(NextLine(refilled, NotSpace(Last(Last(w.lines)))), c)

Turn(w, c, columns) ==
  LET left == w.room - Width(c)
  IN IF w.dropping THEN IF IsSpace(c) THEN w ELSE Pushed(NextLine(w, FALSE), c)
     ELSE IF c = "newline" THEN Broken(w, columns)
     ELSE IF Width(c) <= 0 THEN w
     ELSE IF left >= 0 \/ Last(w.lines) = <<>> THEN Pushed([w EXCEPT !.room = left], c)
     ELSE Wrapped(w, c, columns)

CreatePromptLines(prompt, columns) ==
  LET w == FoldLeft(LAMBDA v, c : Turn(v, c, columns), NewWrap(columns), prompt)
  IN IF w.dropping THEN Front(w.lines) \o <<Trimmed(Last(w.lines))>> ELSE w.lines

-------------------------------------------------------------------------------
(* What wrapping promises, of any lines.                                   *)

(* Every line fits, unless a single character does not.  Wide characters   *)
(* may go over by one column: the room of a new line is counted with the   *)
(* blank that was dropped, and the word moved to it is not measured again. *)
Fits(prompt, lines, columns) ==
  \A i \in DOMAIN lines :
    \/ LineWidth(lines[i]) <= columns + (IF Contains(prompt, "wide") THEN 1 ELSE 0)
    \/ Len(lines[i]) <= 1

IsGlyph(c) == NotSpace(c) /\ Width(c) > 0
Seen(glyphs, c) == IF IsGlyph(c) THEN Append(glyphs, c) ELSE glyphs
Glyphs(s) == FoldLeft(Seen, <<>>, s)

(* There is white space in a prompt after n glyphs and before the next.    *)
Spaced(prompt, n) ==
  \E i \in DOMAIN prompt : IsSpace(prompt[i]) /\ Len(Glyphs(SubSeq(prompt, 1, i))) = n

(* A line that ends within a word has only that word, and is full.         *)
Uncut(prompt, lines, columns) ==
  \A i \in 1..Len(lines) - 1 :
    LET n == Len(Glyphs(FlattenSeq(SubSeq(lines, 1, i))))
    IN (n > 0 /\ n < Len(Glyphs(prompt)) /\ ~Spaced(prompt, n)) =>
         /\ SelectInSeq(lines[i], IsSpace) = 0
         /\ LineWidth(lines[i]) + Width(Glyphs(prompt)[n + 1]) > columns
===============================================================================
