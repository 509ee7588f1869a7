------------------------------- MODULE PtyLoop -------------------------------
(***************************************************************************)
(* The PTY event loop (velacritty_terminal/src/event_loop.rs) as a thread  *)
(* of its own, against the window thread that shares the terminal with it  *)
(* and the child process behind the PTY.                                   *)
(*                                                                         *)
(* Output of the child is a sequence of items, numbered as they are        *)
(* emitted; their kind says whether one begins or ends a synchronized      *)
(* update.  An item moves from `tty` (kernel) to `buf` (read, not parsed)  *)
(* to the parser, which applies it to the terminal (`screen`) or holds it  *)
(* back in `sync_buf` until the update ends.  Input of the user moves from *)
(* the channel to `write_list` and `writing` to the PTY (`written`).       *)
(*                                                                         *)
(* One action of the reader is one call that the other thread or the       *)
(* kernel can observe: a poll, a channel receive, a lock, a read, a write. *)
(***************************************************************************)
EXTENDS FairMutex, Integers, Sequences, FiniteSets, SequencesExt

CONSTANTS
    Scripts,           \* what the child may print: sequences of item kinds
    InputSizes,        \* inputs of the user, in order: their lengths
    MaxResizes,        \* bound on the resizes of the window
    MaxSignals,        \* bound on the SIGCHLDs of other windows' children
    READ_BUFFER_SIZE,  \* items that fit the read buffer
    MAX_LOCKED_READ,   \* items after which the terminal lock is given up
    drain_on_exit,     \* tty::Options::drain_on_exit
    FatalErrors        \* whether PTY I/O may fail with an error that ends the loop

reader == "PTY reader"
ui == "window"

ASSUME PtyAssumption ==
    /\ Threads = {reader, ui}
    /\ \A s \in Scripts : s \in Seq({"text", "begin", "end"})
    /\ InputSizes \in Seq(Nat \ {0})
    /\ MaxResizes \in Nat
    /\ MaxSignals \in Nat
    /\ READ_BUFFER_SIZE \in Nat \ {0}
    /\ MAX_LOCKED_READ \in Nat \ {0}
    /\ drain_on_exit \in BOOLEAN
    /\ FatalErrors \in BOOLEAN

VARIABLES
    \* child process and kernel side of the PTY
    script, emitted, tty, room, written, pty_size, exited, sigchld, signals,
    \* channel, poller and events to the window thread
    chan, notified, wakeup, exit_event,
    \* reader thread: program counter, where pty_read returns, poll result
    pc, ret, events, timed_out,
    \* reader thread: State and the locals of pty_read
    buf, processed, syncing, sync_buf, screen, write_list, writing, interest,
    \* window thread
    uipc, inputs, resizes, drawn, open

childVars == <<script, emitted, tty, room, written, pty_size, exited, sigchld, signals>>
queueVars == <<chan, notified, wakeup, exit_event>>
pollVars  == <<pc, ret, events, timed_out>>
parseVars == <<buf, processed, syncing, sync_buf, screen>>
writeVars == <<write_list, writing, interest>>
uiVars    == <<uipc, inputs, resizes, drawn, open>>
vars == <<mutexVars, childVars, queueVars, pollVars, parseVars, writeVars, uiVars>>

None == <<>>

Init ==
    /\ MutexInit
    /\ script \in Scripts /\ emitted = 0 /\ tty = <<>>
    /\ room = TRUE /\ written = <<>> /\ pty_size = 0
    /\ exited = FALSE /\ sigchld = FALSE /\ signals = 0
    /\ chan = <<>> /\ notified = FALSE /\ wakeup = FALSE /\ exit_event = FALSE
    /\ pc = "poll" /\ ret = "loop" /\ events = {} /\ timed_out = FALSE
    /\ buf = <<>> /\ processed = 0
    /\ syncing = FALSE /\ sync_buf = <<>> /\ screen = <<>>
    /\ write_list = <<>> /\ writing = None /\ interest = FALSE
    /\ uipc = "idle" /\ inputs = 0 /\ resizes = 0 /\ drawn = 0 /\ open = TRUE

-----------------------------------------------------------------------------
(* The child process and the kernel *)

Emit ==
    /\ ~exited
    /\ emitted < Len(script)
    /\ emitted' = emitted + 1
    /\ tty' = Append(tty, emitted + 1)
    /\ UNCHANGED <<script, room, written, pty_size, exited, sigchld, signals>>

ConsumeInput ==
    /\ ~room
    /\ room' = TRUE
    /\ UNCHANGED <<script, emitted, tty, written, pty_size, exited, sigchld, signals>>

ChildExits ==
    /\ ~exited
    /\ exited' = TRUE
    /\ sigchld' = TRUE
    /\ UNCHANGED <<script, emitted, tty, room, written, pty_size, signals>>

(* SIGCHLD of another window's child. *)
OtherChildExits ==
    /\ signals < MaxSignals
    /\ signals' = signals + 1
    /\ sigchld' = TRUE
    /\ UNCHANGED <<script, emitted, tty, room, written, pty_size, exited>>

Child ==
    /\ Emit \/ ConsumeInput \/ ChildExits \/ OtherChildExits
    /\ UNCHANGED <<mutexVars, queueVars, pollVars, parseVars, writeVars, uiVars>>

-----------------------------------------------------------------------------
(* The parser: what vte's Processor does with the bytes it is given *)

advance_one(p, item) ==
    IF ~p.syncing
    THEN [p EXCEPT !.screen = Append(@, item), !.syncing = (script[item] = "begin")]
    ELSE IF script[item] = "end"
    THEN [p EXCEPT !.screen = @ \o Append(p.sync_buf, item),
                   !.sync_buf = <<>>, !.syncing = FALSE]
    ELSE [p EXCEPT !.sync_buf = Append(@, item)]

advance(items) ==
    FoldLeft(advance_one, [syncing |-> syncing, sync_buf |-> sync_buf, screen |-> screen],
             items)

-----------------------------------------------------------------------------
(* The reader thread *)

Ready ==
    (IF tty # <<>> \/ exited THEN {"readable"} ELSE {})
      \cup (IF exited THEN {"hangup"} ELSE {})
      \cup (IF interest /\ room THEN {"writable"} ELSE {})
      \cup (IF sigchld THEN {"child"} ELSE {})

(* poll.wait returns with what is ready, on a notification, or when the timeout
   of a synchronized update has passed. *)
PollWait ==
    /\ pc = "poll"
    /\ Ready # {} \/ notified \/ syncing
    /\ events' = Ready
    /\ timed_out' = (Ready = {} /\ ~notified)
    /\ notified' = FALSE
    /\ pc' = "check"
    /\ UNCHANGED <<mutexVars, childVars, chan, wakeup, exit_event, ret, parseVars,
                   writeVars, uiVars>>

(* Faulty variant: that a timeout was set is taken for its having passed. *)
CheckTimeout_WheneverSyncing ==
    /\ pc = "check"
    /\ pc' = IF (events = {} \/ syncing) /\ chan = <<>> THEN "sync_next" ELSE "drain"
    /\ UNCHANGED <<mutexVars, childVars, queueVars, ret, events, timed_out, parseVars,
                   writeVars, uiVars>>

CheckTimeout ==
    /\ pc = "check"
    /\ pc' = IF events = {} /\ chan = <<>> THEN "sync_next" ELSE "drain"
    /\ UNCHANGED <<mutexVars, childVars, queueVars, ret, events, timed_out, parseVars,
                   writeVars, uiVars>>

StopSyncNext ==
    /\ pc = "sync_next"
    /\ lock_next(reader)
    /\ pc' = "sync_data"
    /\ UNCHANGED <<childVars, queueVars, ret, events, timed_out, parseVars, writeVars,
                   uiVars>>

(* Faulty variant: the update is shown to the terminal and no redraw asked for. *)
StopSync_WithoutWakeup ==
    /\ pc = "sync_data"
    /\ next = reader /\ data = Nobody
    /\ next' = Nobody /\ UNCHANGED data
    /\ screen' = screen \o sync_buf
    /\ sync_buf' = <<>>
    /\ syncing' = FALSE
    /\ pc' = "poll"
    /\ UNCHANGED <<childVars, queueVars, ret, events, timed_out, buf, processed, writeVars,
                   uiVars>>

(* The guard is a temporary: the terminal is unlocked at the end of the
   statement, and the wakeup is sent after it. *)
StopSync ==
    /\ pc = "sync_data"
    /\ next = reader /\ data = Nobody
    /\ next' = Nobody /\ UNCHANGED data
    /\ screen' = screen \o sync_buf
    /\ sync_buf' = <<>>
    /\ syncing' = FALSE
    /\ wakeup' = TRUE
    /\ pc' = "poll"
    /\ UNCHANGED <<childVars, chan, notified, exit_event, ret, events, timed_out, buf,
                   processed, writeVars, uiVars>>

(* drain_recv_channel, one message at a time. *)
RecvInput ==
    /\ pc = "drain" /\ chan # <<>> /\ Head(chan).type = "Input"
    /\ write_list' = Append(write_list, Head(chan).bytes)
    /\ chan' = Tail(chan)
    /\ UNCHANGED <<mutexVars, childVars, notified, wakeup, exit_event, pollVars, parseVars,
                   writing, interest, uiVars>>

RecvResize ==
    /\ pc = "drain" /\ chan # <<>> /\ Head(chan).type = "Resize"
    /\ pty_size' = Head(chan).size
    /\ chan' = Tail(chan)
    /\ UNCHANGED <<mutexVars, script, emitted, tty, room, written, exited, sigchld, signals, notified,
                   wakeup, exit_event, pollVars, parseVars, writeVars, uiVars>>

RecvShutdown ==
    /\ pc = "drain" /\ chan # <<>> /\ Head(chan).type = "Shutdown"
    /\ chan' = Tail(chan)
    /\ pc' = "done"
    /\ UNCHANGED <<mutexVars, childVars, notified, wakeup, exit_event, ret, events, timed_out,
                   parseVars, writeVars, uiVars>>

ChannelEmpty ==
    /\ pc = "drain" /\ chan = <<>>
    /\ pc' = "events"
    /\ UNCHANGED <<mutexVars, childVars, queueVars, ret, events, timed_out, parseVars,
                   writeVars, uiVars>>

(* The child token: the child has exited, or somebody else's has. *)
ChildEvent ==
    /\ pc = "events" /\ "child" \in events
    /\ sigchld' = FALSE
    /\ events' = events \ {"child"}
    /\ pc' = IF ~exited THEN "events" ELSE IF drain_on_exit THEN "lease" ELSE "exit_next"
    /\ ret' = IF exited THEN "exit" ELSE ret
    /\ UNCHANGED <<mutexVars, script, emitted, tty, room, written, pty_size, exited, signals, queueVars,
                   timed_out, parseVars, writeVars, uiVars>>

(* The read/write token: no I/O on a PTY that has hung up. *)
ReadWriteEvent ==
    /\ pc = "events" /\ events \cap {"readable", "writable"} # {}
    /\ IF "hangup" \in events
       THEN pc' = "events" /\ events' = events \cap {"child"} /\ UNCHANGED ret
       ELSE IF "readable" \in events
       THEN pc' = "lease" /\ events' = events \ {"readable"} /\ ret' = "write"
       ELSE pc' = "write" /\ events' = events \ {"writable"} /\ UNCHANGED ret
    /\ UNCHANGED <<mutexVars, childVars, queueVars, timed_out, parseVars, writeVars, uiVars>>

(* Faulty variant: only a message in progress counts as something to write. *)
EventsHandled_IgnoresQueue ==
    /\ pc = "events" /\ events \cap {"child", "readable", "writable"} = {}
    /\ interest' = (writing # None)
    /\ pc' = "poll"
    /\ UNCHANGED <<mutexVars, childVars, queueVars, ret, events, timed_out, parseVars,
                   write_list, writing, uiVars>>

EventsHandled ==
    /\ pc = "events" /\ events \cap {"child", "readable", "writable"} = {}
    /\ interest' = (writing # None \/ write_list # <<>>)
    /\ pc' = "poll"
    /\ UNCHANGED <<mutexVars, childVars, queueVars, ret, events, timed_out, parseVars,
                   write_list, writing, uiVars>>

-----------------------------------------------------------------------------
(* pty_read *)

(* Faulty variant: the lease is not bound to a variable and dropped at once. *)
Lease_NotBound ==
    /\ pc = "lease"
    /\ next = Nobody
    /\ processed' = 0
    /\ pc' = "read"
    /\ UNCHANGED <<mutexVars, childVars, queueVars, ret, events, timed_out, buf, syncing,
                   sync_buf, screen, writeVars, uiVars>>

Lease ==
    /\ pc = "lease"
    /\ lease(reader)
    /\ processed' = 0
    /\ pc' = "read"
    /\ UNCHANGED <<childVars, queueVars, ret, events, timed_out, buf, syncing, sync_buf,
                   screen, writeVars, uiVars>>

(* Faulty variant: the unprocessed bytes are not subtracted from the space left. *)
ReadSome_PastEnd ==
    /\ pc = "read" /\ tty # <<>>
    /\ \E n \in 1..Len(tty) :
         /\ n <= READ_BUFFER_SIZE
         /\ buf' = buf \o SubSeq(tty, 1, n)
         /\ tty' = SubSeq(tty, n + 1, Len(tty))
    /\ pc' = "try"
    /\ UNCHANGED <<mutexVars, script, emitted, room, written, pty_size, exited, sigchld, signals,
                   queueVars, ret, events, timed_out, processed, syncing, sync_buf, screen,
                   writeVars, uiVars>>

(* The kernel hands over at least one item, and at most what fits; a full
   buffer is a read of zero bytes. *)
ReadSome ==
    /\ pc = "read" /\ tty # <<>>
    /\ \E n \in 0..Len(tty) :
         /\ n + Len(buf) <= READ_BUFFER_SIZE
         /\ n > 0 \/ Len(buf) = READ_BUFFER_SIZE
         /\ buf' = buf \o SubSeq(tty, 1, n)
         /\ tty' = SubSeq(tty, n + 1, Len(tty))
    /\ pc' = "try"
    /\ UNCHANGED <<mutexVars, script, emitted, room, written, pty_size, exited, sigchld, signals,
                   queueVars, ret, events, timed_out, processed, syncing, sync_buf, screen,
                   writeVars, uiVars>>

ReadWouldBlock ==
    /\ pc = "read" /\ tty = <<>> /\ ~exited
    /\ pc' = IF buf = <<>> THEN "finish" ELSE "try"
    /\ UNCHANGED <<mutexVars, childVars, queueVars, ret, events, timed_out, parseVars,
                   writeVars, uiVars>>

(* EIO after a hang-up, or another error: pty_read returns, its locals and both
   guards are dropped.  EIO goes on with the next event, others end the loop;
   the result is ignored when draining on exit. *)
ReadError ==
    /\ pc = "read" /\ tty = <<>> /\ exited
    /\ drop_lease(reader)
    /\ buf' = <<>>
    /\ \/ pc' = IF ret = "exit" THEN "exit_next" ELSE "events"
       \/ FatalErrors /\ pc' = IF ret = "exit" THEN "exit_next" ELSE "done"
    /\ events' = events \cap {"child"}
    /\ UNCHANGED <<childVars, queueVars, ret, timed_out, processed, syncing, sync_buf, screen,
                   writeVars, uiVars>>

TryLock ==
    /\ pc = "try"
    /\ \/ data = reader /\ pc' = "parse" /\ UNCHANGED mutexVars
       \/ lock_unfair(reader) /\ pc' = "parse"
       \/ /\ data = ui
          /\ pc' = IF Len(buf) >= READ_BUFFER_SIZE THEN "force" ELSE "read"
          /\ UNCHANGED mutexVars
    /\ UNCHANGED <<childVars, queueVars, ret, events, timed_out, parseVars, writeVars, uiVars>>

ForceLock ==
    /\ pc = "force"
    /\ lock_unfair(reader)
    /\ pc' = "parse"
    /\ UNCHANGED <<childVars, queueVars, ret, events, timed_out, parseVars, writeVars, uiVars>>

Parse ==
    /\ pc = "parse"
    /\ LET p == advance(buf)
       IN  syncing' = p.syncing /\ sync_buf' = p.sync_buf /\ screen' = p.screen
    /\ processed' = processed + Len(buf)
    /\ buf' = <<>>
    /\ pc' = IF processed' >= MAX_LOCKED_READ THEN "finish" ELSE "read"
    /\ UNCHANGED <<mutexVars, childVars, queueVars, ret, events, timed_out, writeVars, uiVars>>

(* Redraw unless all processed bytes were synchronized. *)
FinishRead ==
    /\ pc = "finish"
    /\ wakeup' = (wakeup \/ (Len(sync_buf) < processed /\ processed > 0))
    /\ drop_lease(reader)
    /\ pc' = CASE ret = "exit" -> "exit_next"
               [] ret = "write" /\ "writable" \in events -> "write"
               [] OTHER -> "events"
    /\ events' = events \ {"writable"}
    /\ UNCHANGED <<childVars, chan, notified, exit_event, ret, timed_out, parseVars, writeVars,
                   uiVars>>

-----------------------------------------------------------------------------
(* pty_write: one call of write at a time *)

ensure_next == IF writing = None /\ write_list # <<>> THEN Head(write_list) ELSE writing
unqueued == IF writing = None /\ write_list # <<>> THEN Tail(write_list) ELSE write_list

WriteSome ==
    /\ pc = "write" /\ ensure_next # None /\ room
    /\ \E n \in 1..Len(ensure_next) :
         /\ written' = written \o SubSeq(ensure_next, 1, n)
         /\ writing' = SubSeq(ensure_next, n + 1, Len(ensure_next))
    /\ write_list' = unqueued
    /\ room' \in BOOLEAN
    /\ UNCHANGED <<mutexVars, script, emitted, tty, pty_size, exited, sigchld, signals, queueVars,
                   pollVars, parseVars, interest, uiVars>>

(* Faulty variant: the message taken for writing is not put back. *)
WriteWouldBlock_DropsCurrent ==
    /\ pc = "write" /\ ensure_next # None /\ ~room
    /\ writing' = None
    /\ write_list' = unqueued
    /\ pc' = "events"
    /\ UNCHANGED <<mutexVars, childVars, queueVars, ret, events, timed_out, parseVars,
                   interest, uiVars>>

WriteWouldBlock ==
    /\ pc = "write" /\ ensure_next # None /\ ~room
    /\ writing' = ensure_next
    /\ write_list' = unqueued
    /\ pc' = "events"
    /\ UNCHANGED <<mutexVars, childVars, queueVars, ret, events, timed_out, parseVars,
                   interest, uiVars>>

WriteError ==
    /\ pc = "write" /\ ensure_next # None /\ exited /\ FatalErrors
    /\ writing' = ensure_next
    /\ write_list' = unqueued
    /\ pc' = "done"
    /\ UNCHANGED <<mutexVars, childVars, queueVars, ret, events, timed_out, parseVars,
                   interest, uiVars>>

WriteDone ==
    /\ pc = "write" /\ ensure_next = None
    /\ pc' = "events"
    /\ UNCHANGED <<mutexVars, childVars, queueVars, ret, events, timed_out, parseVars,
                   writeVars, uiVars>>

-----------------------------------------------------------------------------
(* The child has exited: terminal.lock().exit(), a wakeup, and out *)

ExitNext ==
    /\ pc = "exit_next"
    /\ lock_next(reader)
    /\ pc' = "exit_data"
    /\ UNCHANGED <<childVars, queueVars, ret, events, timed_out, parseVars, writeVars, uiVars>>

(* Faulty variant: the loop wakes the window without Term::exit. *)
Exit_WithoutEvent ==
    /\ pc = "exit_data"
    /\ next = reader /\ data = Nobody
    /\ next' = Nobody /\ UNCHANGED data
    /\ wakeup' = TRUE
    /\ pc' = "done"
    /\ UNCHANGED <<childVars, chan, notified, exit_event, ret, events, timed_out, parseVars,
                   writeVars, uiVars>>

Exit ==
    /\ pc = "exit_data"
    /\ next = reader /\ data = Nobody
    /\ next' = Nobody /\ UNCHANGED data
    /\ exit_event' = TRUE
    /\ wakeup' = TRUE
    /\ pc' = "done"
    /\ UNCHANGED <<childVars, chan, notified, ret, events, timed_out, parseVars, writeVars,
                   uiVars>>

pty_read == Lease \/ ReadSome \/ ReadWouldBlock \/ ReadError \/ TryLock \/ ForceLock
              \/ Parse \/ FinishRead
pty_write == WriteSome \/ WriteWouldBlock \/ WriteError \/ WriteDone
drain_recv_channel == RecvInput \/ RecvResize \/ RecvShutdown \/ ChannelEmpty
EventLoop ==
    \/ PollWait \/ CheckTimeout \/ StopSyncNext \/ StopSync
    \/ drain_recv_channel
    \/ ChildEvent \/ ReadWriteEvent \/ EventsHandled
    \/ pty_read \/ pty_write
    \/ ExitNext \/ Exit

-----------------------------------------------------------------------------
(* The window thread *)

(* EventLoopSender::send: the message first, the notification in a second step. *)
Send(msg) ==
    /\ uipc = "idle" /\ open
    /\ chan' = Append(chan, msg)
    /\ uipc' = "notify"
    /\ UNCHANGED <<notified, wakeup, exit_event, drawn>>

(* The bytes of the k-th input. *)
InputBytes(k) == [j \in 1..InputSizes[k] |-> <<k, j>>]

SendInput ==
    /\ inputs < Len(InputSizes)
    /\ inputs' = inputs + 1
    /\ Send([type |-> "Input", bytes |-> InputBytes(inputs + 1)])
    /\ UNCHANGED <<mutexVars, resizes, open>>

SendResize ==
    /\ resizes < MaxResizes
    /\ resizes' = resizes + 1
    /\ Send([type |-> "Resize", size |-> resizes + 1])
    /\ UNCHANGED <<mutexVars, inputs, open>>

(* WindowContext::drop: the user closes the window, or the child has exited. *)
CloseWindow ==
    /\ Send([type |-> "Shutdown"])
    /\ open' = FALSE
    /\ UNCHANGED <<mutexVars, inputs, resizes>>

Notify ==
    /\ uipc = "notify"
    /\ notified' = TRUE
    /\ uipc' = "idle"
    /\ UNCHANGED <<mutexVars, chan, wakeup, exit_event, inputs, resizes, drawn, open>>

(* The window locks the terminal to draw, once it has taken a wakeup from its
   queue, and to handle events of its own. *)
UiLockNext ==
    /\ uipc = "idle" /\ open
    /\ lock_next(ui)
    /\ \/ wakeup /\ wakeup' = FALSE /\ uipc' = "wait_draw"
       \/ uipc' = "wait" /\ UNCHANGED wakeup
    /\ UNCHANGED <<chan, notified, exit_event, inputs, resizes, drawn, open>>

UiLockData ==
    /\ uipc \in {"wait", "wait_draw"}
    /\ lock_data(ui)
    /\ uipc' = IF uipc = "wait" THEN "locked" ELSE "drawing"
    /\ UNCHANGED <<queueVars, inputs, resizes, drawn, open>>

UiUnlock ==
    /\ uipc \in {"locked", "drawing"}
    /\ drawn' = IF uipc = "drawing" THEN Len(screen) ELSE drawn
    /\ unlock(ui)
    /\ uipc' = "idle"
    /\ UNCHANGED <<queueVars, inputs, resizes, open>>

Window ==
    /\ SendInput \/ SendResize \/ CloseWindow \/ Notify \/ UiLockNext \/ UiLockData \/ UiUnlock
    /\ UNCHANGED <<childVars, pollVars, parseVars, writeVars>>

Next == Child \/ EventLoop \/ Window

-----------------------------------------------------------------------------
(* Fairness.  The reader thread runs whenever it can; its lock acquisitions
   compete with the window thread and succeed because parking_lot's mutexes are
   eventually fair.  The window thread finishes what it has begun, draws after
   a wakeup and closes the window when the child has exited.  The child
   consumes its input.  Nothing obliges the child to print or to exit, or the
   user to type. *)
ReaderLocks == StopSyncNext \/ StopSync \/ Lease \/ ForceLock \/ ExitNext \/ Exit

UiDraws == UiLockNext /\ uipc' = "wait_draw"

Fairness ==
    /\ WF_vars(EventLoop)
    /\ SF_vars(EventLoop /\ ReaderLocks)
    /\ WF_vars(Window /\ (Notify \/ UiLockData \/ UiUnlock))
    /\ SF_vars(Window /\ UiDraws)
    /\ SF_vars(Window /\ CloseWindow /\ exit_event)
    /\ WF_vars(Child /\ ConsumeInput)

Spec == Init /\ [][Next]_vars
FairSpec == Spec /\ Fairness

-----------------------------------------------------------------------------
(* Properties *)

(* The values every variable keeps: a script is parsed within its length, what
   is buffered fits into the read buffer, and both threads are at one of their
   program points (EventLoop::spawn, pty_read, pty_write). *)
TypeOK ==
    /\ next \in Threads \cup {Nobody} /\ data \in Threads \cup {Nobody}
    /\ emitted \in 0..Len(script) /\ Range(tty) \subseteq 1..emitted
    /\ {room, exited, sigchld, notified, wakeup, exit_event, timed_out, syncing, interest,
        open} \subseteq BOOLEAN
    /\ pty_size \in 0..MaxResizes /\ resizes \in 0..MaxResizes /\ signals \in 0..MaxSignals
    /\ pc \in {"poll", "check", "sync_next", "sync_data", "drain", "events", "lease", "read",
              "try", "force", "parse", "finish", "write", "exit_next", "exit_data", "done"}
    /\ ret \in {"loop", "write", "exit"}
    /\ events \subseteq {"readable", "writable", "hangup", "child"}
    /\ Len(buf) <= READ_BUFFER_SIZE /\ processed \in Nat
    /\ uipc \in {"idle", "notify", "wait", "wait_draw", "locked", "drawing"}
    /\ inputs \in 0..Len(InputSizes) /\ drawn \in 0..Len(script)

(* Who holds which half of the mutex at every point of the two threads: the
   reader keeps its lease for the whole of pty_read, including every early
   return, and gives both locks back before it polls, writes or ends; the window
   thread never holds `next` while it holds the terminal. *)
LockDiscipline ==
    /\ next \in Threads \cup {Nobody}
    /\ data \in Threads \cup {Nobody}
    /\ next = reader <=> pc \in {"sync_data", "read", "try", "force", "parse", "finish",
                                "exit_data"}
    /\ data = reader => pc \in {"read", "try", "parse", "finish"}
    /\ pc = "parse" => data = reader
    /\ next = ui <=> uipc \in {"wait", "wait_draw"}
    /\ data = ui <=> uipc \in {"locked", "drawing"}

(* "if one thread is waiting that it will get the lock before a single thread
   can re-lock it" (FairMutex): while a thread holds `next`, waiting for the
   terminal or reading ahead under its lease, no other thread acquires it. *)
WaiterIsNext ==
    [][\A t \in Threads : next = t => data' \in {data, Nobody, t}]_vars

(* The bytes of all inputs sent so far, in the order they were sent. *)
SentBytes == FlattenSeq([k \in 1..inputs |-> InputBytes(k)])
QueuedBytes ==
    FlattenSeq([k \in 1..Len(chan) |->
                  IF chan[k].type = "Input" THEN chan[k].bytes ELSE <<>>])

(* Input reaches the PTY in order, each byte exactly once, whatever the kernel
   accepts at a time and however often the loop comes back to a partly written
   message: what is written, in progress, queued and in the channel is always
   what was sent. *)
InputExactlyOnce ==
    written \o writing \o FlattenSeq(write_list) \o QueuedBytes = SentBytes

(* Output is neither lost nor reordered nor parsed twice on its way from the
   kernel through the read buffer and a synchronized update to the screen, as
   long as the child lives; after that the end of it may be dropped. *)
OutputConserved ==
    LET seen == screen \o sync_buf \o buf \o tty
    IN  IF exited THEN \A i, j \in DOMAIN seen : i < j => seen[i] < seen[j]
        ELSE seen = [k \in 1..emitted |-> k]

(* Both streams through the event loop arrive whole and in order: what the child
   prints (pty_read, the parser) and what the user types (drain_recv_channel,
   pty_write), however reads, writes, locks and errors interleave. *)
StreamsConserved == InputExactlyOnce /\ OutputConserved

(* Whatever reaches the terminal is drawn, even when the wakeup races with a
   draw in progress (the wakeups of pty_read, of the synchronized update timeout
   and of the exit path). *)
OutputDrawn == (drawn < Len(screen)) ~> (drawn = Len(screen) \/ ~open)

(* A synchronized update that the child never ends is ended by the timeout. *)
SyncEnds == syncing ~> (~syncing \/ pc = "done")

(* Nothing the child prints stays invisible for ever, neither parsed and not
   drawn nor held back by an update without an end (EventLoop::spawn, pty_read). *)
OutputShown == OutputDrawn /\ SyncEnds

(* Every input is written to the PTY unless the child or the window goes away:
   write interest is registered whenever something is left to write. *)
InputWritten ==
    \A k \in 1..Len(InputSizes) :
        inputs >= k ~> (<<k, InputSizes[k]>> \in Range(written) \/ exited \/ ~open)

(* The PTY is told the latest size of the window. *)
ResizeReachesPty ==
    \A k \in 1..MaxResizes : resizes >= k ~> (pty_size >= k \/ exited \/ ~open)

(* A message of the window takes effect although sending it and notifying the
   poller are two steps between which the reader may take it, or begin to poll
   (Notifier::notify, EventLoopSender::send, drain_recv_channel). *)
MessagesTakeEffect == InputWritten /\ ResizeReachesPty

(* When the child exits the window closes: the exit event is sent on every path
   that ends the reader after SIGCHLD. *)
ExitClosesWindow == exited ~> ~open

(* When the window closes the reader thread ends: the Shutdown message of
   WindowContext::drop is found however many inputs and resizes precede it. *)
ShutdownEndsReader == ~open ~> pc = "done"

(* Whichever side goes first, the other one follows: no window without a child,
   no thread without a window (the Exit event, the Shutdown message). *)
ThreadsEnd == ExitClosesWindow /\ ShutdownEndsReader

(* "Drain the child process output before exiting the terminal"
   (tty::Options::drain_on_exit): when the exit has been announced, everything
   the child printed has been parsed. *)
DrainedOnExit ==
    exit_event /\ drain_on_exit => screen \o sync_buf = [k \in 1..emitted |-> k]

(* "Handle synchronized update timeout" (EventLoop::spawn): however output,
   signals and exits interleave, an update is cut short only by its timeout --
   or by the window, whose message may be taken before its notification comes:
   poll then returns without events and without a message, as on a timeout. *)
OnlyMessagesCutSync ==
    [][pc = "sync_data" /\ pc' = "poll" /\ syncing
       => timed_out \/ inputs + resizes > 0 \/ ~open]_vars

=============================================================================
