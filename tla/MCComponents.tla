------------------------------ MODULE MCComponents ------------------------------
(***************************************************************************)
(* The components that keep to themselves, explored side by side: the      *)
(* variable `part`, chosen at the start, says which of them a behaviour is *)
(* about, so that their state spaces add up and do not multiply.           *)
(***************************************************************************)
EXTENDS Row, ConfigMonitor, Ipc, Messages, Conpty, Imports, Strings

CONSTANT Parts

VARIABLE part

staticVars == <<files, text>>

vars == <<part, row, monitorVars, ipcVars, messageVars, conptyVars, staticVars>>

(* The child prints more than is read at once, or the pipe to it overflows. *)
SmallLoads == {<<3, 1>>, <<0, 3>>}

File(own, import) == [read |-> "ok", own |-> Table(own), import |-> import, array |-> TRUE]

Unreadable(how) == [File([size |-> Scalar(how)], <<>>) EXCEPT !.read = how]

(* What a file sets itself: values, an array, and parts of a table. *)
Owns(v) ==
    {[size |-> Scalar(v)], [font |-> Table([a |-> Scalar(v)]), bind |-> Array(<<v>>)],
     [font |-> Table([b |-> Scalar(v)]), bind |-> Array(<<v>>), size |-> Scalar(v)]}

(* Imports that are missing, repeated, circular or too deep, or no array. *)
SmallFileSystems ==
    {[main |-> [File(m, im) EXCEPT !.array = Len(im) # 1], x |-> x, y |-> y] :
     m \in Owns("m"), im \in {<<"x", "y">>, <<"y", "invalid", "x", "x">>, <<"x">>},
     x \in {Unreadable("missing")} \cup {File(o, i) : o \in Owns("x"), i \in {<<>>, <<"y">>, <<"x", "main">>}},
     y \in {Unreadable("broken")} \cup {File(o, i) : o \in Owns("y"), i \in {<<>>, <<"x", "x">>}}}

(* A component that is not explored has one initial state. *)
Init ==
    /\ part \in Parts
    /\ RowInit /\ (part # "row" => Length = 1)
    /\ MonitorInit /\ (part # "monitor" => disk.main = "plain")
    /\ IpcInit
    /\ MessageInit /\ (part # "text" => barText = <<>>) /\ (part # "message" => ~logfile.exists)
    /\ ConptyInit /\ (part # "conpty" => console.output = 0)
    /\ IF part = "imports" THEN ImportsInit ELSE files = [main |-> Unreadable("missing")]
    /\ IF part = "strings" THEN StringsInit ELSE text = [of |-> <<>>, as |-> "none"]

Only(name, Action, others) == part = name /\ Action /\ UNCHANGED <<part, others, staticVars>>

RowPart == Only("row", RowNext, <<monitorVars, ipcVars, messageVars, conptyVars>>)
MonitorPart(Action) == Only("monitor", Action, <<row, ipcVars, messageVars, conptyVars>>)
IpcPart(Action) == Only("ipc", Action, <<row, monitorVars, messageVars, conptyVars>>)
MessagePart == Only("message", MessageNext, <<row, monitorVars, ipcVars, conptyVars>>)
ConptyPart(Action) == Only("conpty", Action, <<row, monitorVars, ipcVars, messageVars>>)

Next == RowPart \/ MessagePart \/ MonitorPart(MonitorNext) \/ IpcPart(IpcNext) \/ ConptyPart(ConptyNext)

(* Every thread goes on, the lock of the terminal is obtained and the       *)
(* callback of the system ends; nobody has to type, to edit or to exit.     *)
Fairness ==
    /\ WF_vars(MonitorPart(WatcherStep)) /\ WF_vars(MonitorPart(UiStep))
    /\ WF_vars(IpcPart(ListenerStep)) /\ WF_vars(IpcPart(IpcEventStep))
    /\ \A c \in Clients : WF_vars(IpcPart(ClientStep(c)))
    /\ WF_vars(ConptyPart(ConptyThread)) /\ WF_vars(ConptyPart(ConptyWriter))
    /\ WF_vars(ConptyPart(ConptyLoop)) /\ WF_vars(ConptyPart(ConptyParses))
    /\ WF_vars(ConptyPart(child_exit_callback_Posts))

Spec == Init /\ [][Next]_vars /\ Fairness

-----------------------------------------------------------------------------
(* The configuration in effect is made of its layers in the order of precedence:
   imports below the file that imports them, the options sent to all windows
   above the files, those of one window on top (parse_config, update_config,
   IpcConfig), whatever came first. *)
ConfigurationLayered == WindowsCurrent /\ GlobalOptionsReachAll /\ ImportsLayered

(* Texts arrive whole where they are meant to: messages in the bar and in the
   log, titles and search patterns in the cells there are, arguments in the
   process that is started (message_bar.rs, logging.rs, string.rs, format_search,
   cmdline). *)
TextsArrive == MessageFits /\ ShownIsLogged /\ ShortenedFits /\ SearchBarFits /\ ArgumentsArrive

=============================================================================
