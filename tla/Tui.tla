---------------------------------- MODULE Tui ---------------------------------
(***************************************************************************)
(* UIState and main (main.cpp): the selection tui, a loop that draws,      *)
(* waits for a key and handles it, interrupted at any point by SIGINT,     *)
(* whose handler only sets a flag.  The tokens are their positions; what   *)
(* is drawn is abstracted to where the cursor and the windows are.  A key  *)
(* is what it means.  "none" is what wgetch returns when no key came: a    *)
(* signal ended the wait, or the (very long) timeout.                      *)
(*                                                                         *)
(* ncurses is external: the terminal is "curses" while it captures what is *)
(* written, "released" after reset_prog_mode and "ended" after endwin; the *)
(* refresh in wgetch captures it again.                                    *)
(***************************************************************************)
EXTENDS Cursor, BatchOutput, PromptWrap

CONSTANTS
  ArgSets,     (* the options to try, of ArgType                           *)
  Sizes(_),    (* the numbers of tokens to try with each                   *)
  Screens(_),  (* the terminal sizes to try with each, of ScreenType       *)
  Keys(_),     (* the keys the user may press                              *)
  MaxBatches,  (* how many batches the user may confirm                    *)
  MaxPicks,    (* how many tokens the user may toggle between two batches  *)
  MayFail      (* whether a write to the output may fail                   *)

(* prompt has one element, or none where the pointer is null.              *)
ArgType == [tenacious : BOOLEAN, multiple_selections : BOOLEAN,
            selection_order : BOOLEAN, end : BOOLEAN, prompt : Lines,
            delimit_not_at_end : BOOLEAN, delimit_on_empty : BOOLEAN, tty : BOOLEAN]

ScreenType == [rows : Nat, columns : Nat]

(* The lines of each prompt in each screen; the box around them takes two  *)
(* columns.  (TLC computes a table that it has compared only once.)        *)
LinesOf(prompt, columns) ==
  IF prompt = <<>> THEN <<>> ELSE CreatePromptLines(prompt[1], columns - 2)

PromptLines ==
  CHOOSE table \in {[p \in UNION {{a} \X Screens(a) : a \in ArgSets} |->
                      LinesOf(p[1].prompt, p[2].columns)]} :
    table = table

MoveKeys == {"up", "down", "home", "end", "page_up", "page_down", "other"}

ASSUME ArgSetsAssumption == ArgSets \subseteq ArgType /\ \A a \in ArgSets : Len(a.prompt) <= 1
ASSUME SizesAssumption == \A a \in ArgSets : Sizes(a) \subseteq Nat
ASSUME ScreensAssumption == \A a \in ArgSets : Screens(a) \subseteq ScreenType

ASSUME KeysAssumption ==
  \A a \in ArgSets : Keys(a) \subseteq MoveKeys \cup {"clear", "space", "confirm", "quit"}
ASSUME BoundsAssumption == MaxBatches \in Nat /\ MaxPicks \in Nat /\ MayFail \in BOOLEAN

VARIABLES
  args, size,         (* the options and tokens.size(); never change       *)
  screen,             (* the size of the terminal                          *)
  cursor,             (* selection_position and scroll_position            *)
  prompt_lines, prompt_rows, selection_rows,
  indicator,          (* tenacious_single_select_indicator                 *)
  selections,         (* the positions of the selected tokens              *)
  os,                 (* the BatchOutputStream                             *)
  terminal,           (* what ncurses does with what is written            *)
  endwins,            (* how often endwin was called                       *)
  sigint_occurred,
  ch,                 (* the key wgetch returned                           *)
  phase,              (* where the program is                              *)
  exit_code,
  picks, confirmed    (* history: the tokens toggled since the selection   *)
                      (* was last empty by "clear" or "confirm", and the   *)
                      (* batches the user confirmed                        *)

layout == <<screen, cursor, prompt_lines, prompt_rows, selection_rows>>
output == <<os, terminal, endwins>>
history == <<picks, confirmed>>
vars == <<args, size, layout, indicator, selections, output, sigint_occurred,
          ch, phase, exit_code, history>>

Phases == {"starting", "drawing", "waiting", "pressed", "locked", "leaving", "exited"}
ExitSuccess == 0
ExitFailure == 1
ExitSigint == 130

(* The cursor begins at the token of --tui-select (0 if none equals it) or *)
(* else at the end asked for.                                              *)
Init ==
  /\ args \in ArgSets /\ size \in Sizes(args) /\ screen \in Screens(args)
  /\ cursor \in [position : (0..size - 1) \cup {0, IF args.end THEN size - 1 ELSE 0}, scroll : {0}]
  /\ prompt_lines = <<>> /\ prompt_rows = 0 /\ selection_rows = 0
  /\ indicator = 0 /\ selections = <<>>
  /\ os = NewStream /\ terminal = "curses" /\ endwins = 0
  /\ sigint_occurred = FALSE /\ ch = "none" /\ phase = "starting" /\ exit_code = ExitSuccess
  /\ picks = <<>> /\ confirmed = <<>>

-------------------------------------------------------------------------------
(* Layout: on_resize.                                                      *)

TooSmall(s) == s.rows < 1 + Len(args.prompt) \/ s.columns < 1

PromptRows(lines) == IF args.prompt = <<>> THEN 0 ELSE Len(lines) + 2

SelectionRows_Whole(rows, lines) == rows - PromptRows(lines)

(* The selection is given at least one row, taken from the prompt.         *)
SelectionRows(rows, lines) ==
  IF rows - PromptRows(lines) <= 0 THEN 1 ELSE rows - PromptRows(lines)

(* Where the screen is too small, the program stays in a loop that ignores *)
(* every key until the next resize.                                        *)
OnResize ==
  IF TooSmall(screen')
  THEN /\ phase' = "locked"
       /\ UNCHANGED <<cursor, prompt_lines, prompt_rows, selection_rows>>
  ELSE /\ phase' = "drawing"
       /\ prompt_lines' = PromptLines[<<args, screen'>>]
       /\ selection_rows' = SelectionRows(screen'.rows, prompt_lines')
       /\ prompt_rows' = screen'.rows - selection_rows'
       /\ cursor' = ApplyConstraints(PulledDown(cursor, size, selection_rows'),
                                     size, selection_rows')

Start ==
  /\ phase = "starting"
  /\ screen' = screen
  /\ OnResize
  /\ UNCHANGED <<args, size, indicator, selections, output, sigint_occurred, ch,
                 exit_code, history>>

(* Locked out, the program reads KEY_RESIZE.                               *)
Unlock ==
  /\ phase = "locked"
  /\ screen' \in Screens(args)
  /\ OnResize
  /\ UNCHANGED <<args, size, indicator, selections, output, sigint_occurred, ch,
                 exit_code, history>>

-------------------------------------------------------------------------------
(* The wait for a key.                                                     *)

(* draw_tui, and the refresh at the beginning of wgetch.                   *)
Draw ==
  /\ phase = "drawing"
  /\ phase' = "waiting" /\ terminal' = "curses"
  /\ UNCHANGED <<args, size, layout, indicator, selections, os, endwins,
                 sigint_occurred, ch, exit_code, history>>

(* The bounds are on what the user does.                                   *)
WithinBounds(key) ==
  /\ key = "confirm" => Len(confirmed) < MaxBatches
  /\ key = "space" => Len(picks) < MaxPicks

Press ==
  /\ phase = "waiting"
  /\ ch' \in {k \in Keys(args) : WithinBounds(k)}
  /\ phase' = "pressed"
  /\ UNCHANGED <<args, size, layout, indicator, selections, output,
                 sigint_occurred, exit_code, history>>

(* The terminal is resized: wgetch returns KEY_RESIZE.                     *)
ResizeScreen ==
  /\ phase = "waiting"
  /\ screen' \in Screens(args)
  /\ ch' = "resize" /\ phase' = "pressed"
  /\ UNCHANGED <<args, size, cursor, prompt_lines, prompt_rows, selection_rows, indicator,
                 selections, output, sigint_occurred, exit_code, history>>

Timeout ==
  /\ phase = "waiting"
  /\ ch' = "none" /\ phase' = "pressed"
  /\ UNCHANGED <<args, size, layout, indicator, selections, output,
                 sigint_occurred, exit_code, history>>

(* SIGINT arrives.  It ends a wait in wgetch, but not the wait of a        *)
(* program that is locked out.                                             *)
Interrupt ==
  /\ phase # "exited"
  /\ sigint_occurred' = TRUE
  /\ IF phase = "waiting" THEN ch' = "none" /\ phase' = "pressed" ELSE UNCHANGED <<ch, phase>>
  /\ UNCHANGED <<args, size, layout, indicator, selections, output, exit_code, history>>

-------------------------------------------------------------------------------
(* The keys: handle_user_input.                                            *)

Leaves_OnKeyOnly == ch = "quit"

Leaves == (ch = "quit") \/ sigint_occurred

(* A key is handled only if there was no SIGINT when wgetch returned.      *)
Handles(keys) == phase = "pressed" /\ ch \in keys /\ ~Leaves

(* What a call to endwin adds, before a write in this mode, and by main    *)
(* when the write has failed: "if (!isendwin())".                          *)
EndwinBefore(mode) == IF mode = "ended" THEN 1 ELSE 0

EndwinOnFailure_Always(mode) == 1

EndwinOnFailure(mode) == IF mode = "ended" THEN 0 ELSE 1

(* A call leaves ncurses as mode says and then writes to the output: what  *)
(* is left of it in the stream is after, unless the write fails part of    *)
(* the way.  A failure ends the program.                                   *)
Wrote(before, after, mode, next) ==
  \/ /\ os' = after /\ terminal' = mode /\ phase' = next
     /\ endwins' = endwins + EndwinBefore(mode)
     /\ exit_code' = exit_code
  \/ /\ MayFail
     /\ \E n \in Len(before.out)..Len(after.out) - 1 :
          os' = [before EXCEPT !.out = SubSeq(after.out, 1, n)]
     /\ terminal' = "ended" /\ phase' = "exited"
     /\ endwins' = endwins + EndwinBefore(mode) + EndwinOnFailure(mode)
     /\ exit_code' = ExitFailure

Quit ==
  /\ phase = "pressed" /\ Leaves
  /\ Wrote(os, FinishOutput(os, args), "ended", "leaving")
  /\ UNCHANGED <<args, size, layout, indicator, selections, sigint_occurred, ch, history>>

Resize ==
  /\ Handles({"resize"})
  /\ screen' = screen
  /\ OnResize
  /\ UNCHANGED <<args, size, indicator, selections, output, sigint_occurred, ch,
                 exit_code, history>>

Clear ==
  /\ Handles({"clear"})
  /\ selections' = <<>> /\ picks' = <<>>
  /\ phase' = "drawing"
  /\ UNCHANGED <<args, size, layout, indicator, output, sigint_occurred, ch,
                 exit_code, confirmed>>

Toggled(s, n) == IF Contains(s, n) THEN RemoveFirst(s, n) ELSE Append(s, n)

Toggle ==
  /\ Handles({"space"}) /\ args.multiple_selections
  /\ selections' = Toggled(selections, cursor.position)
  /\ picks' = Append(picks, cursor.position)
  /\ phase' = "drawing"
  /\ UNCHANGED <<args, size, layout, indicator, output, sigint_occurred, ch,
                 exit_code, confirmed>>

Sorted(s) ==
  LET p == CHOOSE p \in Bijection(DOMAIN s, DOMAIN s) :
             \A i, j \in DOMAIN s : i < j => s[p[i]] <= s[p[j]]
  IN  [i \in DOMAIN s |-> s[p[i]]]

(* The tokens a confirmation writes: without a selection the one under the *)
(* cursor.                                                                 *)
Chosen ==
  IF selections = <<>> THEN <<cursor.position>>
  ELSE IF args.selection_order THEN selections
  ELSE Sorted(selections)

(* What ncurses is told before a confirmation writes.                      *)
ModeToWrite_LeftAlone == IF args.tenacious THEN terminal ELSE "ended"

ModeToWrite_NeverEnded == IF IsQueued(args) THEN terminal ELSE "released"

ModeToWrite ==
  IF ~args.tenacious THEN "ended"
  ELSE IF IsQueued(args) THEN terminal ELSE "released"

ConfirmNothing ==
  /\ Handles({"confirm"}) /\ size = 0
  /\ terminal' = "ended" /\ endwins' = endwins + 1
  /\ phase' = "leaving"
  /\ UNCHANGED <<args, size, layout, indicator, selections, os, sigint_occurred,
                 ch, exit_code, history>>

KeptSelections_Always == Chosen

KeptSelections == IF args.tenacious THEN <<>> ELSE Chosen

Confirm ==
  /\ Handles({"confirm"}) /\ size > 0
  /\ indicator' = IF selections = <<>> THEN 1 - indicator ELSE indicator
  /\ LET written == WriteBatch(os, args, Chosen)
     IN  IF args.tenacious
         THEN Wrote(os, written, ModeToWrite, "drawing")
         ELSE Wrote(os, FinishOutput(written, args), ModeToWrite, "leaving")
  /\ selections' = KeptSelections
  /\ confirmed' = Append(confirmed, Chosen)
  /\ picks' = <<>>
  /\ UNCHANGED <<args, size, layout, sigint_occurred, ch>>

(* Every other key, space too if it does not select.                       *)
Move ==
  /\ \/ Handles(MoveKeys \cup {"none"})
     \/ Handles({"space"}) /\ ~args.multiple_selections
  /\ indicator' = 0
  /\ cursor' = Moved(ch, cursor, size, selection_rows)
  /\ phase' = "drawing"
  /\ UNCHANGED <<args, size, screen, prompt_lines, prompt_rows, selection_rows,
                 selections, output, sigint_occurred, ch, exit_code, history>>

(* The end of main.                                                        *)
Leave ==
  /\ phase = "leaving"
  /\ exit_code' = IF sigint_occurred THEN ExitSigint ELSE ExitSuccess
  /\ phase' = "exited"
  /\ UNCHANGED <<args, size, layout, indicator, selections, output,
                 sigint_occurred, ch, history>>

Terminated == phase = "exited" /\ UNCHANGED vars

-------------------------------------------------------------------------------
Handle == Quit \/ Resize \/ Clear \/ Toggle \/ ConfirmNothing \/ Confirm \/ Move

(* What the program does by itself; the timeout of wgetch is part of it.   *)
Step == Start \/ Draw \/ Timeout \/ Handle \/ Leave

Next == Step \/ Unlock \/ Press \/ ResizeScreen \/ Interrupt \/ Terminated

Spec == Init /\ [][Next]_vars

FairSpec == Spec /\ WF_vars(Step)

-------------------------------------------------------------------------------
(* Properties.                                                             *)

TypeOK ==
  /\ args \in ArgType /\ size \in Nat /\ screen \in ScreenType
  /\ cursor \in Cursors
  /\ prompt_lines \in Lines /\ prompt_rows \in Nat /\ selection_rows \in Nat
  /\ indicator \in {0, 1} /\ selections \in Seq(Int)
  /\ os \in Streams /\ terminal \in {"curses", "released", "ended"} /\ endwins \in Nat
  /\ sigint_occurred \in BOOLEAN /\ ch \in Keys(args) \cup {"resize", "none"}
  /\ phase \in Phases /\ exit_code \in {ExitSuccess, ExitFailure, ExitSigint}
  /\ picks \in Seq(Int) /\ confirmed \in Seq(Seq(Int))

(* Whatever keys were pressed and however the terminal was resized, when   *)
(* the program draws there is a token under the cursor and its line is in  *)
(* the selection window (apply_constraints and the special cases of page   *)
(* up and page down, which do without it).                                 *)
CursorVisible ==
  phase \in {"drawing", "waiting"} /\ size > 0 => IsVisible(cursor, size, selection_rows)

(* The window ends with the last token or before it if the tokens fill it: *)
(* neither keys nor resizes leave empty lines below (on_resize pulls the   *)
(* scroll down, the keys never push it beyond).                            *)
NoEmptyLines ==
  phase \in {"drawing", "waiting"} /\ size >= selection_rows
    => cursor.scroll + selection_rows <= size

(* A window with empty lines has no tokens hidden above it, as the comment *)
(* in on_resize has it: "if there are available token above then pull the  *)
(* entire scroll down".                                                    *)
NothingHiddenAbove ==
  phase \in {"drawing", "waiting"} /\ cursor.scroll + selection_rows > size
    => cursor.scroll <= 0

Drawn == phase \in {"drawing", "waiting"}

(* However often the terminal is resized, the prompt that is drawn is      *)
(* within its box (create_prompt_lines).                                   *)
PromptFits ==
  \A i \in DOMAIN args.prompt :
    Drawn => Fits(args.prompt[i], prompt_lines, screen.columns - 2)

(* Wrapping loses no visible character and swaps none, and cuts a word     *)
(* only if a line cannot hold it (combining characters, which are nearly   *)
(* always dropped, disturb that).                                          *)
PromptKept ==
  \A i \in DOMAIN args.prompt :
    Drawn =>
      /\ Glyphs(FlattenSeq(prompt_lines)) = Glyphs(args.prompt[i])
      /\ ~Contains(args.prompt[i], "combining") =>
           Uncut(args.prompt[i], prompt_lines, screen.columns - 2)

(* The tokens picked an odd number of times, in the order of the last      *)
(* pick: what the user has selected.                                       *)
LastPick(n) == Max({i \in DOMAIN picks : picks[i] = n})
Selected == {n \in ToSet(picks) : Cardinality({i \in DOMAIN picks : picks[i] = n}) % 2 = 1}
InPickOrder(m, n) == LastPick(m) < LastPick(n)
Ordered(S, Before(_, _)) ==
  CHOOSE s \in [1..Cardinality(S) -> S] : \A i, j \in DOMAIN s : i < j => Before(s[i], s[j])
Asked ==
  IF Selected = {} THEN <<cursor.position>>
  ELSE IF args.selection_order THEN Ordered(Selected, InPickOrder)
  ELSE Ordered(Selected, <)

(* A confirmed batch is what the user selected since the last batch or     *)
(* clear, in the order the options ask for, or else the token under the    *)
(* cursor (handle_user_input and handle_confirmation_input).               *)
ConfirmsWhatWasPicked ==
  [][confirmed' # confirmed => confirmed' = Append(confirmed, Asked)]_vars

(* At any time what is written or queued is the text of the batches that   *)
(* were confirmed; a failed write leaves a beginning of it.                *)
OutputSoFar ==
  /\ phase \in {"drawing", "waiting", "pressed", "locked"}
       => os.out \o os.queue = Text(confirmed)
  /\ IsPrefix(os.out, FullText(confirmed, args))

(* However the tui was left, the output has every confirmed batch, and the *)
(* delimiter after the last batch (finish_output).  A confirmation without *)
(* tokens leaves past finish_output, so --delimit-on-empty has no effect.  *)
OutputComplete ==
  (phase = "exited" /\ exit_code # ExitFailure /\ (size > 0 \/ ~args.delimit_on_empty))
    => os.out = FullText(confirmed, args) /\ os.queue = <<>>

(* Nothing is written while ncurses captures the output (main.cpp: "either *)
(* endwin() or reset_prog_mode() must be called before putting to stdout   *)
(* or stderr").                                                            *)
WritesOutsideCurses == [][os'.out # os.out => terminal' # "curses"]_vars

(* endwin is called before the program exits, and not twice, also if a     *)
(* write failed.                                                           *)
EndwinOnce == endwins <= 1 /\ (phase = "exited" => endwins = 1)

(* After a SIGINT the program exits, if only at the end of the timeout of  *)
(* wgetch; but a screen too small locks that out as well.                  *)
SigintExits == sigint_occurred ~> phase \in {"exited", "locked"}
===============================================================================
