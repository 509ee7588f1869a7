------------------------------ MODULE MCPtyLoop ------------------------------
(***************************************************************************)
(* Instances of PtyLoop for model checking.  Liveness is explored in two   *)
(* situations side by side: `situation`, chosen at the start, says whether *)
(* the child prints and exits while other children do, or the user types   *)
(* and resizes.  What a situation leaves out is nothing that fairness asks *)
(* for.  For safety there is one situation, in which anything may happen.  *)
(***************************************************************************)
EXTENDS PtyLoop

CONSTANT Situations

VARIABLE situation

MCThreads == {reader, ui}

(* Plain output; an update that ends; an update that never ends. *)
MCScripts == {<<"text", "text">>, <<"begin", "text", "end">>, <<"begin", "text">>}
MCShortScripts == {<<"text">>, <<"begin", "text">>}
MCInputSizes == <<2, 1>>
MCOneInput == <<1>>

MCInit == Init /\ situation \in Situations /\ (situation = "input" => script = <<"text">>)

MCNext ==
    /\ Next /\ UNCHANGED situation
    /\ situation = "output" => inputs' = 0 /\ resizes' = 0
    /\ situation = "input" => signals' = 0

MCSpec == MCInit /\ [][MCNext]_<<vars, situation>>
LiveSpec == MCSpec /\ Fairness

=============================================================================
