----------------------------- MODULE ConfigMonitor -----------------------------
(***************************************************************************)
(* Reloading of the configuration: the watcher thread that debounces file  *)
(* events (velacritty/src/config/monitor.rs), the ConfigReload and Message *)
(* events it and the logger send to the window thread, and the window      *)
(* thread reloading and restarting the watcher (event.rs, config/mod.rs).  *)
(*                                                                         *)
(* There are two files in one directory, the primary one, which is         *)
(* "plain", "importing" the other, or "broken", and the one it may import. *)
(***************************************************************************)
EXTENDS Integers, Sequences, FiniteSets

CONSTANT MaxEdits   \* bound on the number of file events

VARIABLES
    disk,      \* what the files hold
    config,    \* what was loaded from them, and the paths that were read
    watcher,   \* the watcher thread and its channel
    proxy,     \* events sent to the window thread, in order
    ui,        \* the window thread: what it does, and the config error it shows
    edits,     \* number of file events so far
    missed     \* whether a change was dropped while the watcher was restarted

monitorVars == <<disk, config, watcher, proxy, ui, edits, missed>>

(* parse_config: the primary file, then the imports; a path counts even if it
   cannot be read. *)
Load(d) ==
    [main   |-> d.main,
     import |-> IF d.main = "importing" THEN d.import ELSE 0,
     paths  |-> IF d.main = "importing" THEN {"main", "import"} ELSE {"main"}]

(* ConfigMonitor::new; the directory is watched once the thread has started. *)
NewWatcher(paths) ==
    [state |-> "starting", paths |-> paths, hash |-> paths,
     queue |-> <<>>, received |-> {}, debouncing |-> FALSE]

MonitorInit ==
    /\ disk \in [main : {"plain", "importing"}, import : {1}]
    /\ config = Load(disk)
    /\ watcher = NewWatcher(config.paths)
    /\ proxy = <<>> /\ edits = 0 /\ missed = FALSE
    /\ ui = [doing |-> "idle", error |-> FALSE]

(* A file of the directory is written, or only read; the notification goes to
   the watcher that runs. *)
Edit(d, path, kind) ==
    /\ edits < MaxEdits /\ edits' = edits + 1
    /\ disk' = d
    /\ IF watcher.state = "running"
       THEN /\ watcher' = [watcher EXCEPT !.queue = Append(@, [kind |-> kind, path |-> path])]
            /\ UNCHANGED missed
       ELSE /\ missed' = (missed \/ kind = "Modify")
            /\ UNCHANGED watcher
    /\ UNCHANGED <<config, proxy, ui>>

EditFile ==
    \/ \E main \in {"plain", "importing", "broken"} :
         Edit([disk EXCEPT !.main = main], "main", "Modify")
    \/ Edit([disk EXCEPT !.import = 3 - disk.import], "import", "Modify")
    \/ Edit(disk, "main", "Access")

-----------------------------------------------------------------------------
(* The watcher thread *)

StartWatch ==
    /\ watcher.state = "starting"
    /\ watcher' = [watcher EXCEPT !.state = "running"]
    /\ UNCHANGED <<disk, config, proxy, ui, edits, missed>>

(* Faulty variant: events that come while the watcher debounces are dropped. *)
Receive_OnlyFirst ==
    LET event == Head(watcher.queue)
        rest  == Tail(watcher.queue)
    IN  /\ watcher.state = "running" /\ watcher.queue # <<>>
        /\ watcher' = IF event.kind = "shutdown"
                      THEN [watcher EXCEPT !.state = "ended", !.queue = <<>>, !.received = {}]
                      ELSE [watcher EXCEPT !.queue = rest, !.debouncing = TRUE,
                                           !.received = IF watcher.debouncing THEN @
                                                        ELSE @ \cup {event.path}]
        /\ UNCHANGED <<disk, config, proxy, ui, edits, missed>>

(* An event is taken from the channel; any event starts the debouncing.  What
   was received and not yet reported is lost on a request to stop. *)
Receive ==
    LET event   == Head(watcher.queue)
        rest    == Tail(watcher.queue)
        dropped == \/ watcher.received # {}
                   \/ \E i \in DOMAIN rest : rest[i].kind = "Modify"
    IN  /\ watcher.state = "running" /\ watcher.queue # <<>>
        /\ IF event.kind = "shutdown"
           THEN /\ watcher' = [watcher EXCEPT !.state = "ended", !.queue = <<>>, !.received = {}]
                /\ missed' = (missed \/ dropped)
           ELSE /\ watcher' = [watcher EXCEPT !.queue = rest, !.debouncing = TRUE,
                                              !.received = IF event.kind = "Modify"
                                                           THEN @ \cup {event.path} ELSE @]
                /\ UNCHANGED missed
        /\ UNCHANGED <<disk, config, proxy, ui, edits>>

(* The deadline passes with nothing in the channel. *)
DebounceTimeout ==
    /\ watcher.state = "running" /\ watcher.debouncing /\ watcher.queue = <<>>
    /\ watcher' = [watcher EXCEPT !.debouncing = FALSE, !.received = {}]
    /\ proxy' = IF watcher.received \cap watcher.paths # {} THEN Append(proxy, "reload") ELSE proxy
    /\ UNCHANGED <<disk, config, ui, edits, missed>>

-----------------------------------------------------------------------------
(* The window thread *)

needs_restart(w, paths) == paths = w.hash

(* EventType::ConfigReload.  Old errors are cleared; a file that cannot be
   loaded changes nothing else, and its error comes back as a Message event. *)
ReloadConfig ==
    /\ ui.doing = "idle" /\ proxy # <<>> /\ Head(proxy) = "reload"
    /\ IF disk.main = "broken"
       THEN /\ proxy' = Append(Tail(proxy), "error")
            /\ ui' = [ui EXCEPT !.error = FALSE]
            /\ UNCHANGED <<config, watcher>>
       ELSE /\ proxy' = Tail(proxy)
            /\ config' = Load(disk)
            /\ IF needs_restart(watcher, config'.paths)
               THEN /\ watcher' = [watcher EXCEPT
                                     !.queue = Append(@, [kind |-> "shutdown", path |-> ""])]
                    /\ ui' = [doing |-> "joining", error |-> FALSE]
               ELSE /\ UNCHANGED watcher
                    /\ ui' = [ui EXCEPT !.error = FALSE]
    /\ UNCHANGED <<disk, edits, missed>>

(* ConfigMonitor::shutdown waits for the thread; then a new one is started. *)
RestartWatcher ==
    /\ ui.doing = "joining" /\ watcher.state = "ended"
    /\ watcher' = NewWatcher(config.paths)
    /\ ui' = [ui EXCEPT !.doing = "idle"]
    /\ UNCHANGED <<disk, config, proxy, edits, missed>>

ShowError ==
    /\ ui.doing = "idle" /\ proxy # <<>> /\ Head(proxy) = "error"
    /\ ui' = [ui EXCEPT !.error = TRUE]
    /\ proxy' = Tail(proxy)
    /\ UNCHANGED <<disk, config, watcher, edits, missed>>

WatcherStep == StartWatch \/ Receive \/ DebounceTimeout
UiStep == ReloadConfig \/ RestartWatcher \/ ShowError

MonitorNext == EditFile \/ WatcherStep \/ UiStep

-----------------------------------------------------------------------------

(* Once nobody edits the files any more, the terminal shows what they hold: the
   primary file, and the import where it is watched, are loaded, and an error is
   shown exactly if the primary file is broken.  The exception is a change made
   while the watcher is being restarted, which is lost. *)
ConfigConverges ==
    LET Current ==
          /\ disk.main # "broken" =>
               /\ config.main = disk.main
               /\ "import" \in config.paths \cap watcher.paths => config.import = disk.import
          /\ ui.error = (disk.main = "broken")
    IN  <>[](missed \/ Current)

(* ConfigMonitor::shutdown joins the watcher from the window thread: that always
   ends, with whatever is in the channel. *)
ShutdownJoins == ui.doing = "joining" ~> ui.doing = "idle"

(* The configuration that is shown becomes the one on the disk, and the window
   thread never hangs on the watcher that it restarts on the way. *)
MonitorConverges == ConfigConverges /\ ShutdownJoins

=============================================================================
