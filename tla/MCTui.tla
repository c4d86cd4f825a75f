--------------------------------- MODULE MCTui --------------------------------
(***************************************************************************)
(* Tui on small instances: arguments that matter for where the cursor, the *)
(* windows and the prompt are, with many tokens and screens, and those     *)
(* that matter for what is selected and written, with few.                 *)
(***************************************************************************)
EXTENDS Tui

CONSTANT MaxPrompt  \* bound: characters of a prompt

Args(end, prompt, tenacious, multi, order, notAtEnd, onEmpty, tty) ==
  [end : end, prompt : prompt, tenacious : tenacious, multiple_selections : multi,
   selection_order : order, delimit_not_at_end : notAtEnd,
   delimit_on_empty : onEmpty, tty : tty]

F == {FALSE}

(* One line in a wide screen, three in a narrow one.                       *)
Word == <<"narrow", "narrow">>
ThreeWords == <<Word \o <<"blank">> \o Word \o <<"blank">> \o Word>>

LayoutArgs == Args(BOOLEAN, {<<>>, ThreeWords}, F, F, F, F, F, F)
OutputArgs == Args(F, {<<>>}, BOOLEAN, BOOLEAN, BOOLEAN, BOOLEAN, BOOLEAN, BOOLEAN)

Prompts == UNION {[1..n -> Characters] : n \in 0..MaxPrompt}
PromptArgs == Args(F, {<<p>> : p \in Prompts}, F, F, F, F, F, F)

AllArgs == LayoutArgs \cup PromptArgs \cup OutputArgs

(* Arguments of both kinds are taken to be about the layout.               *)
Kind(a) == IF a \in LayoutArgs THEN "layout" ELSE IF a.prompt # <<>> THEN "prompt" ELSE "output"

Wide == 12
Narrow == 4
AllScreens(a) ==
  CASE Kind(a) = "layout" -> [rows : 0..8, columns : IF a.prompt = <<>> THEN {Wide} ELSE {Narrow, Wide}]
    [] Kind(a) = "prompt" -> [rows : {5}, columns : 0..6]
    [] Kind(a) = "output" -> [rows : {0, 6}, columns : {Wide}]

AllSizes(a) ==
  CASE Kind(a) = "layout" -> {0, 1, 2, 3, 5, 8}
    [] Kind(a) = "prompt" -> {1}
    [] Kind(a) = "output" -> {0, 2}
AllKeys(a) ==
  CASE Kind(a) = "layout" -> MoveKeys
    [] Kind(a) = "prompt" -> {"up"}
    [] Kind(a) = "output" -> {"up", "down", "clear", "space", "confirm", "quit"}
===============================================================================
