-------------------------------- MODULE Cursor --------------------------------
(***************************************************************************)
(* Where the cursor of the tui is (main.cpp, UIState): position is         *)
(* selection_position, the line the cursor is on, and scroll is            *)
(* scroll_position, the line at the top of the selection window.  Lines    *)
(* are counted from 0; size is the number of tokens and rows the height    *)
(* of the window, selection_rows.                                          *)
(***************************************************************************)
EXTENDS Integers

Cursors == [position : Int, scroll : Int]

(* How near the cursor comes to the edge of the window while scrolling.    *)
ScrollBorder(rows) == rows \div 3

Constrained(position, size) ==
  IF position < 0 THEN 0
  ELSE IF position >= size THEN size - 1 ELSE position

(* The scroll that does not leave the position above the window ...        *)
RaisedScroll(position, scroll, rows) ==
  LET top == scroll + IF position >= ScrollBorder(rows) THEN ScrollBorder(rows) ELSE 0
  IN  IF position < top THEN scroll - (top - position) ELSE scroll

(* ... nor below it.                                                       *)
LoweredScroll_RowLate(position, scroll, size, rows) ==
  LET bottom == scroll + rows -
                  IF position < size - ScrollBorder(rows) THEN ScrollBorder(rows) ELSE 0
  IN  IF position > bottom THEN scroll - (bottom - position) ELSE scroll

LoweredScroll(position, scroll, size, rows) ==
  LET bottom == scroll + rows - 1 -
                  IF position < size - ScrollBorder(rows) THEN ScrollBorder(rows) ELSE 0
  IN  IF position > bottom THEN scroll - (bottom - position) ELSE scroll

ApplyConstraints(c, size, rows) ==
  LET position == Constrained(c.position, size)
      raised == RaisedScroll(position, c.scroll, rows)
  IN  [position |-> position, scroll |-> LoweredScroll(position, raised, size, rows)]

(* After a resize: no empty lines below the last token if the tokens can   *)
(* fill the window.                                                        *)
PulledDown_Never(c, size, rows) == c

PulledDown(c, size, rows) ==
  IF c.scroll + rows > size /\ size >= rows THEN [c EXCEPT !.scroll = size - rows] ELSE c

Halfway(scroll, rows) == [position |-> scroll + rows \div 2, scroll |-> scroll]

PageUp(c, rows) ==
  IF c.scroll - rows < 0 THEN [position |-> 0, scroll |-> 0]
  ELSE Halfway(c.scroll - rows, rows)

PageDown(c, size, rows) ==
  IF c.scroll + rows > size - rows
  THEN [position |-> size - 1, scroll |-> IF size > rows THEN size - rows ELSE 0]
  ELSE Halfway(c.scroll + rows, rows)

(* The cursor after a key that is none of the others' (one that means      *)
(* nothing still has the constraints applied).                             *)
Moved(key, c, size, rows) ==
  CASE key = "page_up"   -> PageUp(c, rows)
    [] key = "page_down" -> PageDown(c, size, rows)
    [] OTHER ->
         ApplyConstraints(
           [c EXCEPT !.position = CASE key = "up"   -> c.position - 1
                                    [] key = "down" -> c.position + 1
                                    [] key = "home" -> 0
                                    [] key = "end"  -> size - 1
                                    [] OTHER        -> c.position], size, rows)

(* The cursor is on a token, and its line is in the window.                *)
IsVisible(c, size, rows) ==
  /\ c.position \in 0..size - 1
  /\ c.scroll >= 0
  /\ c.position \in c.scroll..c.scroll + rows - 1
===============================================================================
