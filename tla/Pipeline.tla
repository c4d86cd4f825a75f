------------------------------- MODULE Pipeline -------------------------------
(***************************************************************************)
(* process_token as a whole (token.hpp): the ordered operations in front   *)
(* of the collector, which they share three things with.  --head ends the  *)
(* input for both; an edit that is the last operation is applied by the    *)
(* stream if tokens are not stored; and --tui-select takes its token from  *)
(* the end of the vector.                                                  *)
(***************************************************************************)
EXTENDS OrderedOps

CONSTANTS Texts,      (* the texts a token can have                        *)
          OpLists,    (* the operations to try                             *)
          MaxInputs,  (* how many tokens there are in the input            *)
          Keys, OptionSets, MaxTokens, MaxFragments  (* see Collector      *)

VARIABLES
  given,      (* the operations as the command line gives them             *)
  ops,        (* args.ordered_ops, with their counts                       *)
  inputs,     (* history: the texts of the tokens of the input             *)
  passed,     (* history: the tokens that reached the collector            *)
  selected,   (* initial_selected_token: the number of its token or NoToken *)
  matched,    (* history: the numbers of the tokens --tui-select matched    *)
  options, args, arrivals, fragments, output, stream, next, phase

C == INSTANCE Collector

pvars == <<given, ops, inputs, passed, selected, matched>>
vars == <<pvars, options, args, arrivals, fragments, output, stream, next, phase>>

NoToken == 0
(* --tui-select implies --tui, see Init.                                   *)
ASSUME OpListsAssumption ==
  \A l \in OpLists :
    /\ l \in Seq(Range(l))
    /\ LegalOps(l)
    /\ \A i \in DOMAIN l :
         Uncounted(l[i]) /\ (l[i].kind \in {"sub", "replace"} => l[i].replacement \in Texts)

ASSUME MaxInputsAssumption == MaxInputs \in Nat

ASSUME CollectorAssumption ==
  /\ Keys \subseteq Int
  /\ OptionSets \subseteq C!OptionType /\ \A o \in OptionSets : C!Consistent(o)
  /\ MaxTokens \in Nat /\ MaxFragments \in Nat

IsKind(kind) == \E i \in DOMAIN given : given[i].kind = kind

Init ==
  /\ C!Init
  /\ given \in OpLists
  /\ IsKind("tui_select") => args.tui
  /\ ops = given
  /\ inputs = <<>> /\ passed = <<>>
  /\ selected = NoToken /\ matched = {}

(* The last operation is applied as the token is written.                  *)
EditsOnOutput ==
  C!TokensNotStored(args) /\ given # <<>> /\ Last(given).kind \in EditKinds

(* A token that is not written is not edited on the output either.         *)
Applied ==
  IF EditsOnOutput /\ C!BeginDiscard(stream, args) THEN Len(given) - 1 ELSE Len(given)

(* The token --tui-select takes: the one at the end of the vector.         *)
Selection_Front(s) == s[1].id

Selection(s) == Last(s).id

Pass(r, k, u) ==
  /\ C!ForwardToken(C!Arrival(k, u)) \/ C!StoreToken(C!Arrival(k, u))
  /\ passed' = Append(passed, r.token)
  /\ matched' = IF r.selects THEN matched \cup {Len(passed')} ELSE matched
  /\ selected' = IF r.selects /\ selected = NoToken THEN Selection(output') ELSE selected

AfterAll(text) == AfterOps(ops, NewToken(text), Applied)

(* The token has this text; the comparisons see k and u of what passes.    *)
ProcessToken(text, k, u) ==
  /\ C!Reading
  /\ Len(inputs) < MaxInputs
  /\ inputs' = Append(inputs, text)
  /\ LET r == AfterAll(text)
     IN /\ ops' = r.ops
        /\ CASE r.verdict = "pass" -> Pass(r, k, u)
             [] r.verdict = "done" -> C!EndOfInput /\ UNCHANGED <<passed, matched, selected>>
             [] OTHER ->
                  UNCHANGED <<passed, matched, selected, options, args, arrivals,
                              fragments, output, stream, next, phase>>
  /\ UNCHANGED given

EndOfInput == C!EndOfInput /\ UNCHANGED pvars

(* What create_tokens does after the input.                                *)
Conclude ==
  /\ C!Finalise \/ C!WriteNext \/ C!Finish
  /\ UNCHANGED pvars

Terminated == phase = "done" /\ UNCHANGED vars

Next ==
  \/ \E text \in Texts, k, u \in Keys : ProcessToken(text, k, u)
  \/ EndOfInput
  \/ Conclude
  \/ Terminated

Spec == Init /\ [][Next]_vars

-------------------------------------------------------------------------------
(* Properties.                                                             *)

TypeOK ==
  /\ given \in OpLists
  /\ Len(ops) = Len(given)
  /\ \A i \in DOMAIN ops :
       /\ ops[i].kind = given[i].kind
       /\ ops[i].kind = "head" => ops[i].in_count \in 0..Len(inputs)
  /\ inputs \in Seq(Texts) /\ Len(inputs) <= MaxInputs
  /\ \A i \in DOMAIN passed : passed[i].text \in Texts
  /\ Len(passed) = Len(arrivals) /\ matched \subseteq DOMAIN passed
  /\ selected \in {NoToken} \cup DOMAIN passed

(* The tokens that are in the output or may come to be.                    *)
Kept == {stream.out[i].id : i \in {j \in DOMAIN stream.out : stream.out[j].kind = "token"}}
          \cup {output[i].id : i \in DOMAIN output}

(* An index put on tokens as they are written does not count those before  *)
(* the start of --out.                                                     *)
IndexesWritten ==
  EditsOnOutput /\ Last(given).kind = "index" /\ args.out_start # C!NoLimit

(* One token at a time through all operations comes to the same as one     *)
(* operation at a time on the whole input: no count is missed or made      *)
(* twice, whichever operation removed a token and whether the last one is  *)
(* applied here or on the output (process_token).                          *)
OutputAsComposed ==
  LET composed == Composed(given, inputs)
  IN  /\ Len(passed) = Len(composed)
      /\ \A i \in Kept : IF IndexesWritten THEN passed[i].text = composed[i].text
                                          ELSE passed[i] = composed[i]

(* What --head leaves unread could not have reached the collector, so the  *)
(* output does not depend on it (InLimitOp::DONE ends create_tokens' loop).*)
LosesNoToken ==
  [][inputs' # inputs /\ passed' = passed /\ phase' # "reading"
       => \A text \in Texts :
            Composed(given, Append(inputs', text)) = Composed(given, inputs')]_vars

(* The token --tui-select puts the cursor at is one that it matched (it is *)
(* taken from the end of the vector, where a token that was just matched   *)
(* need not be).                                                           *)
SelectsMatched == selected # NoToken => selected \in matched
===============================================================================
