-------------------------------- MODULE Conpty --------------------------------
(***************************************************************************)
(* The PTY of Windows (tty/windows): the console is read and written by    *)
(* two blocking threads, each joined to the PTY event loop by a pipe, and  *)
(* the level-triggered readiness of a Unix file descriptor is imitated by  *)
(* packets posted to the poller, by `register` and by the wakers that a    *)
(* pipe calls when its other end advances (blocking.rs).  The exit of the  *)
(* child is a callback of the system (child.rs).                           *)
(* The pipes (piper) and the poller (polling) are libraries: a poll that   *)
(* cannot advance leaves its waker in the pipe, one that can takes it      *)
(* away, and whoever advances the other end calls it once.                 *)
(* Bytes are counted; the parsing of them is PtyLoop's.                    *)
(***************************************************************************)
EXTENDS Naturals, Sequences

CONSTANTS
    PIPE_CAPACITY,   \* conpty.rs: READ_BUFFER_SIZE, which the read buffer has too
    MaxLocked,       \* event_loop.rs: MAX_LOCKED_READ
    Loads            \* pairs of bytes the child prints and bytes sent to it

ASSUME ConptyAssumption == PIPE_CAPACITY \in Nat \ {0} /\ MaxLocked \in Nat \ {0}

VARIABLES
    conout,      \* UnblockedReader: pipe, its end, its Registration, first_register
    conin,       \* UnblockedWriter: pipe and Registration
    readerThread,  \* "velacritty-tty-reader-thread"
    writerThread,  \* "velacritty-tty-writer-thread"
    packets,     \* posted to the poller and not yet waited for
    eventLoop,   \* the thread of EventLoop::spawn
    child,       \* ChildExitWatcher and the callback
    console      \* the other side: bytes still to print, to type and typed

conptyVars == <<conout, conin, readerThread, writerThread, packets, eventLoop, child, console>>

NoInterest == [some |-> FALSE, readable |-> FALSE, writable |-> FALSE]

Interest(writable) == [some |-> TRUE, readable |-> TRUE, writable |-> writable]

Packet(key, interest) == [key |-> key, readable |-> interest.readable, writable |-> interest.writable]

ConptyInit ==
    /\ conout = [bytes |-> 0, closed |-> FALSE, waker |-> FALSE, interest |-> NoInterest, first |-> TRUE]
    /\ conin = [bytes |-> 0, waker |-> FALSE, interest |-> NoInterest]
    /\ readerThread = "read" /\ writerThread = "write"
    /\ packets = <<>>
    /\ eventLoop = [pc |-> "register_in", events |-> <<>>, queue |-> 0, writable |-> FALSE,
                    unprocessed |-> 0, processed |-> 0, limited |-> FALSE, filled |-> FALSE]
    /\ child = [state |-> "running", channel |-> 0, interest |-> FALSE, heard |-> FALSE]
    /\ \E load \in Loads :
        console = [output |-> load[1], untyped |-> load[2], channel |-> 0]

(* Registration::wake_by_ref.  The mode is always Level: the interest stays. *)
Woken(interest, wanted) ==
    IF interest.some /\ wanted THEN Append(packets, Packet("read_write", interest)) ELSE packets

-----------------------------------------------------------------------------
(* The blocking threads. *)

(* Writer::poll_fill from the source: a full pipe parks the thread, which is *)
(* not enabled until the event loop reads.                                  *)
Fill ==
    /\ readerThread = "read" /\ console.output > 0 /\ conout.bytes < PIPE_CAPACITY
    /\ \E n \in 1..console.output :
        /\ conout.bytes + n <= PIPE_CAPACITY
        /\ conout' = [conout EXCEPT !.bytes = @ + n]
        /\ console' = [console EXCEPT !.output = @ - n]
    /\ readerThread' = "wake"
    /\ UNCHANGED <<conin, writerThread, packets, eventLoop, child>>

(* Ready(Ok(0)): the source is at its end; dropping the writer closes the pipe. *)
SourceEnds ==
    /\ readerThread = "read" /\ console.output = 0 /\ child.state = "gone"
    /\ conout' = [conout EXCEPT !.closed = TRUE]
    /\ readerThread' = "last_wake"
    /\ UNCHANGED <<conin, writerThread, packets, eventLoop, child, console>>

WakeReader ==
    /\ readerThread \in {"wake", "last_wake"}
    /\ packets' = IF conout.waker THEN Woken(conout.interest, conout.interest.readable) ELSE packets
    /\ conout' = [conout EXCEPT !.waker = FALSE]
    /\ readerThread' = IF readerThread = "wake" THEN "read" ELSE "done"
    /\ UNCHANGED <<conin, writerThread, eventLoop, child, console>>

(* Reader::poll_drain into the sink. *)
Drain ==
    /\ writerThread = "write" /\ conin.bytes > 0
    /\ \E n \in 1..conin.bytes : conin' = [conin EXCEPT !.bytes = @ - n]
    /\ writerThread' = "wake"
    /\ UNCHANGED <<conout, readerThread, packets, eventLoop, child, console>>

WakeWriter ==
    /\ writerThread = "wake"
    /\ packets' = IF conin.waker THEN Woken(conin.interest, conin.interest.writable) ELSE packets
    /\ conin' = [conin EXCEPT !.waker = FALSE]
    /\ writerThread' = "write"
    /\ UNCHANGED <<conout, readerThread, eventLoop, child, console>>

-----------------------------------------------------------------------------
(* child_exit_callback: the event is sent, then the poller is told. *)
child_exit_callback_Sends ==
    /\ child.state = "running"
    /\ child' = [child EXCEPT !.state = "exited", !.channel = 1]
    /\ UNCHANGED <<conout, conin, readerThread, writerThread, packets, eventLoop, console>>

child_exit_callback_Posts ==
    /\ child.state = "exited"
    /\ child' = [child EXCEPT !.state = "gone", !.heard = child.interest]
    /\ packets' = IF child.interest
                  THEN Append(packets, Packet("child", Interest(eventLoop.writable))) ELSE packets
    /\ UNCHANGED <<conout, conin, readerThread, writerThread, eventLoop, console>>

-----------------------------------------------------------------------------
(* The event loop. *)

Type ==
    /\ eventLoop.pc # "ended"
    /\ \E n \in 1..console.untyped :
        console' = [console EXCEPT !.channel = @ + n, !.untyped = @ - n]
    /\ UNCHANGED <<conout, conin, readerThread, writerThread, packets, eventLoop, child>>

(* Poller::wait, and drain_recv_channel behind it. *)
Wait ==
    /\ eventLoop.pc = "wait" /\ (packets # <<>> \/ console.channel > 0)
    /\ eventLoop' = [eventLoop EXCEPT !.pc = "event", !.events = packets, !.queue = @ + console.channel]
    /\ packets' = <<>>
    /\ console' = [console EXCEPT !.channel = 0]
    /\ UNCHANGED <<conout, conin, readerThread, writerThread, child>>

(* drain_on_exit is PtyLoop's; the end of the loop deregisters. *)
HandleEvent ==
    /\ eventLoop.pc = "event" /\ eventLoop.events # <<>>
    /\ LET event == Head(eventLoop.events) IN
        IF event.key = "child"
        THEN /\ eventLoop' = IF child.channel = 0 THEN [eventLoop EXCEPT !.events = Tail(@)]
                             ELSE [eventLoop EXCEPT !.pc = "ended", !.events = <<>>]
             /\ child' = [child EXCEPT !.channel = 0, !.interest = @ /\ child.channel = 0]
             /\ conout' = IF child.channel = 0 THEN conout ELSE [conout EXCEPT !.interest = NoInterest]
             /\ conin' = IF child.channel = 0 THEN conin ELSE [conin EXCEPT !.interest = NoInterest]
        ELSE /\ eventLoop' = [eventLoop EXCEPT !.pc = IF event.readable THEN "read" ELSE "write"]
             /\ UNCHANGED <<conout, conin, child>>
    /\ UNCHANGED <<readerThread, writerThread, packets, console>>

(* Faulty variant: an empty read leaves no waker. *)
try_read_Forgets(got) ==
    conout' = [conout EXCEPT !.bytes = @ - got, !.waker = FALSE]

(* UnblockedReader::try_read of the rest of the buffer. *)
try_read(got) ==
    conout' = IF conout.bytes = 0 THEN [conout EXCEPT !.waker = ~conout.closed]
              ELSE [conout EXCEPT !.bytes = @ - got, !.waker = FALSE]

(* One round of pty_read: the lock of the terminal may be taken by others *)
(* until the buffer is full.                                              *)
pty_read ==
    /\ eventLoop.pc = "read"
    /\ LET got == IF conout.bytes > PIPE_CAPACITY - eventLoop.unprocessed
                  THEN PIPE_CAPACITY - eventLoop.unprocessed ELSE conout.bytes
           unprocessed == eventLoop.unprocessed + got
           processed == eventLoop.processed + unprocessed
           Ends(limited) == [eventLoop EXCEPT !.pc = "write", !.unprocessed = 0, !.processed = 0,
                                              !.limited = limited]
       IN
        /\ try_read(got)
        /\ IF unprocessed = 0 THEN eventLoop' = Ends(FALSE)
           ELSE \/ eventLoop' = IF processed >= MaxLocked THEN Ends(TRUE)
                                ELSE [eventLoop EXCEPT !.unprocessed = 0, !.processed = processed]
                \/ /\ unprocessed < PIPE_CAPACITY
                   /\ eventLoop' = [eventLoop EXCEPT !.unprocessed = unprocessed]
    /\ UNCHANGED <<conin, readerThread, writerThread, packets, child, console>>

(* Faulty variant: a write to a full pipe leaves no waker. *)
try_write_Forgets(n) ==
    conin' = [conin EXCEPT !.bytes = @ + n, !.waker = FALSE]

(* UnblockedWriter::try_write. *)
try_write(n) ==
    conin' = [conin EXCEPT !.bytes = @ + n, !.waker = n = 0]

(* One write of pty_write, if the event is writable. *)
pty_write ==
    /\ eventLoop.pc = "write"
    /\ LET room == PIPE_CAPACITY - conin.bytes
           n == IF eventLoop.queue < room THEN eventLoop.queue ELSE room
       IN
        IF Head(eventLoop.events).writable /\ eventLoop.queue > 0
        THEN /\ try_write(n)
             /\ eventLoop' = IF n = 0 THEN [eventLoop EXCEPT !.pc = "event", !.events = Tail(@)]
                             ELSE [eventLoop EXCEPT !.queue = @ - n,
                                        !.filled = n = eventLoop.queue /\ n = room]
        ELSE /\ eventLoop' = [eventLoop EXCEPT !.pc = "event", !.events = Tail(@)]
             /\ UNCHANGED conin
    /\ UNCHANGED <<conout, readerThread, writerThread, packets, child, console>>

(* "Register write interest if necessary." *)
NeedsWrite ==
    /\ eventLoop.pc = "event" /\ eventLoop.events = <<>>
    /\ LET needs_write == eventLoop.queue > 0 IN
        eventLoop' = IF needs_write = eventLoop.writable THEN [eventLoop EXCEPT !.pc = "wait"]
                     ELSE [eventLoop EXCEPT !.pc = "register_in", !.writable = needs_write]
    /\ UNCHANGED <<conout, conin, readerThread, writerThread, packets, child, console>>

(* Pty::register and reregister: conin, then conout and the child watcher, *)
(* each under its own mutex.                                               *)
RegisterIn ==
    /\ eventLoop.pc = "register_in"
    /\ LET interest == Interest(eventLoop.writable) IN
        /\ conin' = [conin EXCEPT !.interest = interest]
        /\ packets' = IF conin.bytes < PIPE_CAPACITY /\ interest.writable
                      THEN Append(packets, Packet("read_write", interest)) ELSE packets
    /\ eventLoop' = [eventLoop EXCEPT !.pc = "register_out"]
    /\ UNCHANGED <<conout, readerThread, writerThread, child, console>>

RegisterOut ==
    /\ eventLoop.pc = "register_out"
    /\ LET interest == Interest(eventLoop.writable) IN
        /\ conout' = [conout EXCEPT !.interest = interest, !.first = FALSE]
        /\ packets' = IF conout.bytes > 0 \/ conout.first
                      THEN Append(packets, Packet("read_write", interest)) ELSE packets
    /\ child' = [child EXCEPT !.interest = TRUE]
    /\ eventLoop' = [eventLoop EXCEPT !.pc = "wait"]
    /\ UNCHANGED <<conin, readerThread, writerThread, console>>

ConptyThread ==
    Fill \/ SourceEnds \/ WakeReader

ConptyWriter ==
    Drain \/ WakeWriter

ConptyLoop ==
    Wait \/ HandleEvent \/ pty_read \/ pty_write \/ NeedsWrite \/ RegisterIn \/ RegisterOut

(* The loop gets the lock of the terminal. *)
ConptyParses == pty_read /\ eventLoop'.unprocessed = 0

ConptyNext ==
    \/ ConptyThread \/ ConptyWriter \/ ConptyLoop \/ Type
    \/ child_exit_callback_Sends \/ child_exit_callback_Posts

-----------------------------------------------------------------------------
(* Output in the pipe is never left behind: when the event loop sleeps, the *)
(* reader thread is not about to wake it and nothing is posted, there is    *)
(* nothing to read -- unless the last pty_read stopped at MAX_LOCKED_READ,  *)
(* after which no waker is left in the pipe and nothing is posted           *)
(* (blocking.rs try_read, register, wake_by_ref; event_loop.rs pty_read).   *)
OutputAnnounced ==
    eventLoop.pc = "wait" /\ packets = <<>> /\ readerThread \notin {"wake", "last_wake"}
        => conout.bytes = 0 \/ eventLoop.limited

(* Everything typed reaches the console although the pipe to it may be full *)
(* at any write -- unless a write filled the pipe to the last byte: the     *)
(* next interest is then registered on a full pipe, which posts nothing and *)
(* leaves no waker (blocking.rs try_write, register).                       *)
ConsoleInputDelivered ==
    <>[](eventLoop.filled \/ eventLoop.pc = "ended"
         \/ console.channel + eventLoop.queue + conin.bytes = 0)

(* When the child exits after the event loop registered with the watcher,   *)
(* the loop ends, whatever it is reading, writing or registering at that    *)
(* moment (child.rs child_exit_callback, windows/mod.rs next_child_event).  *)
(* An exit before that is never noticed: the event waits in the channel,    *)
(* nothing is posted, and register does not look at the channel.            *)
HeardExitEndsLoop ==
    child.state = "gone" /\ child.heard ~> eventLoop.pc = "ended"

(* Neither input nor the end of the child is missed by an event loop that sleeps
   between registrations (with the two exceptions above). *)
ConsoleServed == ConsoleInputDelivered /\ HeardExitEndsLoop

=============================================================================
