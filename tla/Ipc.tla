---------------------------------- MODULE Ipc ----------------------------------
(***************************************************************************)
(* Configuration at runtime: clients of the IPC socket and its listener    *)
(* thread (velacritty/src/ipc.rs), the events the window thread handles    *)
(* (event.rs), and the overrides of every window (window_context.rs,       *)
(* cli.rs).  A configuration is [base, value]: the version of the file and *)
(* the value of one option, which overrides set; NoOverride is its value   *)
(* in the file.                                                            *)
(***************************************************************************)
EXTENDS Integers, Sequences, FiniteSets, TLC

CONSTANTS
    Clients,        \* IPC clients, each sending one message
    MaxReloads      \* bound on reloads of the configuration file

VARIABLES
    base,           \* version of the configuration of the Processor
    global_ipc_options,
    windows,        \* from the ids of the open windows
    client,         \* the state of every client, with its message
    pending,        \* connections the listener has not accepted, in order
    listener,       \* the connection it reads from, if any
    events          \* events sent to the window thread, in order

ipcVars == <<base, global_ipc_options, windows, client, pending, listener, events>>

NoOverride == 0
Option(value) == [ok |-> TRUE, value |-> value]
BrokenOption == [ok |-> FALSE, value |-> NoOverride]

AnyWindow == 0   \* no window id: a message for all windows

Messages ==
    {[type |-> "Config", window |-> w, option |-> o, reset |-> FALSE] :
        w \in {AnyWindow, 1}, o \in {Option(1), Option(2), BrokenOption}}
    \cup {[type |-> "Config", window |-> w, option |-> BrokenOption, reset |-> TRUE] :
            w \in {AnyWindow, 1}}
    \cup {[type |-> "GetConfig", window |-> w, option |-> BrokenOption, reset |-> FALSE] :
            w \in {AnyWindow, 2}}
    \cup {[type |-> t, window |-> AnyWindow, option |-> BrokenOption, reset |-> FALSE] :
            t \in {"CreateWindow", "Invalid"}}

-----------------------------------------------------------------------------
(* Overrides *)

RECURSIVE Override(_, _, _)

(* ParsedOptions::override_config from option i on: a broken one is replaced by
   the last (swap_remove). *)
Override(options, i, config) ==
    IF i > Len(options) THEN [options |-> options, config |-> config]
    ELSE IF options[i].ok
    THEN Override(options, i + 1, [config EXCEPT !.value = options[i].value])
    ELSE LET last == Len(options)
         IN  Override(SubSeq([options EXCEPT ![i] = options[last]], 1, last - 1), i, config)

override_config(options, version) ==
    Override(options, 1, [base |-> version, value |-> NoOverride])

(* Faulty variant: the overrides are only applied when they are given. *)
update_config_FileOnly(window, version) ==
    [window EXCEPT !.config = [base |-> version, value |-> NoOverride]]

(* WindowContext::update_config, with whether an option was refused. *)
update_config(window, version) ==
    LET result == override_config(window.options, version)
    IN  [window EXCEPT !.options = result.options, !.config = result.config]

(* `own` marks windows that were ever given options of their own. *)
NewWindow(options, version) ==
    update_config([options |-> options, config |-> [base |-> version, value |-> NoOverride],
                   own |-> FALSE], version)

IpcInit ==
    /\ base = 1 /\ global_ipc_options = <<>>
    /\ windows = (1 :> NewWindow(<<>>, 1))
    /\ client = [c \in Clients |-> [state |-> "new", message |-> {}, reply |-> {}]]
    /\ pending = <<>> /\ listener = {} /\ events = <<>>

-----------------------------------------------------------------------------
(* Clients and the listener *)

(* ipc::send_message: connect, write, and close the writing end. *)
Connect(c) ==
    /\ client[c].state = "new"
    /\ \E m \in Messages : client' = [client EXCEPT ![c].state = "connected", ![c].message = {m}]
    /\ pending' = Append(pending, c)
    /\ UNCHANGED <<base, global_ipc_options, windows, listener, events>>

WriteMessage(c) ==
    /\ client[c].state = "connected"
    /\ client' = [client EXCEPT ![c].state = "written"]
    /\ UNCHANGED <<base, global_ipc_options, windows, pending, listener, events>>

Accept ==
    /\ listener = {} /\ pending # <<>>
    /\ listener' = {Head(pending)} /\ pending' = Tail(pending)
    /\ UNCHANGED <<base, global_ipc_options, windows, client, events>>

(* Faulty variant: the stream of a request is closed like any other. *)
Listen_ClosesStream ==
    \E c \in listener :
      /\ client[c].state = "written"
      /\ listener' = {}
      /\ client' = [client EXCEPT ![c].state = "done"]
      /\ UNCHANGED <<base, global_ipc_options, windows, pending, events>>

(* The message is read when the client has written it, and the stream is closed
   unless the event takes it along for the reply. *)
Listen ==
    \E c \in listener : \E m \in client[c].message :
      /\ client[c].state = "written"
      /\ listener' = {}
      /\ client' = [client EXCEPT ![c].state = IF m.type = "GetConfig" THEN "waiting" ELSE "done"]
      /\ events' = IF m.type = "Invalid" THEN events
                   ELSE Append(events, [client |-> c, message |-> m])
      /\ UNCHANGED <<base, global_ipc_options, windows, pending>>

-----------------------------------------------------------------------------
(* The window thread *)

Event == Head(events)
Handling(type) == events # <<>> /\ Event.message.type = type

Addressed(m) == {w \in DOMAIN windows : m.window \in {AnyWindow, w}}

IpcConfig ==
    /\ Handling("Config")
    /\ LET m == Event.message
           Changed(w) == [windows[w] EXCEPT
                            !.options = IF m.reset THEN <<>> ELSE Append(@, m.option),
                            !.own = @ \/ m.window # AnyWindow]
       IN  /\ windows' = [w \in DOMAIN windows |->
                            IF w \in Addressed(m) THEN update_config(Changed(w), base)
                            ELSE windows[w]]
           /\ global_ipc_options' = IF m.window # AnyWindow THEN global_ipc_options
                                    ELSE IF m.reset THEN <<>>
                                    ELSE Append(global_ipc_options, m.option)
    /\ events' = Tail(events)
    /\ UNCHANGED <<base, client, pending, listener>>

(* The configuration of the window, or the one for new windows, for which the
   global options are pruned. *)
IpcGetConfig ==
    /\ Handling("GetConfig")
    /\ LET w == Event.message.window
           global == override_config(global_ipc_options, base)
       IN  /\ client' = [client EXCEPT ![Event.client].state = "done",
                           ![Event.client].reply =
                              {IF w \in DOMAIN windows THEN windows[w].config ELSE global.config}]
           /\ global_ipc_options' = IF w \in DOMAIN windows THEN global_ipc_options
                                    ELSE global.options
    /\ events' = Tail(events)
    /\ UNCHANGED <<base, windows, pending, listener>>

CreateWindow ==
    /\ Handling("CreateWindow")
    /\ windows' = (Cardinality(DOMAIN windows) + 1 :> NewWindow(global_ipc_options, base)) @@ windows
    /\ events' = Tail(events)
    /\ UNCHANGED <<base, global_ipc_options, client, pending, listener>>

(* ConfigReload: every window takes the new file and its own overrides. *)
FileReload ==
    /\ base <= MaxReloads
    /\ base' = base + 1
    /\ windows' = [w \in DOMAIN windows |-> update_config(windows[w], base')]
    /\ UNCHANGED <<global_ipc_options, client, pending, listener, events>>

ListenerStep == Accept \/ Listen
IpcEventStep == IpcConfig \/ IpcGetConfig \/ CreateWindow
ClientStep(c) == WriteMessage(c)

IpcNext == (\E c \in Clients : Connect(c) \/ ClientStep(c)) \/ ListenerStep \/ IpcEventStep \/ FileReload

-----------------------------------------------------------------------------

(* Whatever order messages and reloads come in, every window shows the current
   file with its overrides on top, in the order they are kept. *)
WindowsCurrent ==
    \A w \in DOMAIN windows : windows[w].config = override_config(windows[w].options, base).config

(* "Persist global options for future windows": a window that was never given
   options of its own has the configuration new windows get, whether it was
   opened before or after the options were sent, unless one of them is broken. *)
GlobalOptionsReachAll ==
    (\A c \in Clients : \A m \in client[c].message : m.type = "Config" /\ ~m.reset => m.option.ok) =>
      \A w \in DOMAIN windows : windows[w].own \/
        windows[w].config = override_config(global_ipc_options, base).config

(* A request for the configuration is answered, although the listener serves one
   connection at a time and the answer comes from another thread. *)
RequestsAnswered ==
    \A c \in Clients :
      (client[c].state = "written" /\ \E m \in client[c].message : m.type = "GetConfig")
        ~> client[c].reply # {}

=============================================================================
