----------------------------- MODULE WindowLoop -----------------------------
(***************************************************************************)
(* The window thread: winit's event loop driving the Processor of          *)
(* velacritty/src/event.rs and one WindowContext per open window           *)
(* (velacritty/src/window_context.rs), with the frame throttling of        *)
(* display/mod.rs and the timers of Scheduler.                             *)
(*                                                                         *)
(* winit is external.  It delivers the events of the windows and the user  *)
(* events each in their own order, remembers which windows asked for a     *)
(* redraw, and calls about_to_wait between batches of them.  Window events *)
(* are staged in the context's event_queue and processed in one go, under  *)
(* the terminal's lock, when winit is about to wait or a redraw is due.    *)
(*                                                                         *)
(* A handler is an operator on a context: the window's own state together  *)
(* with what handlers reach through the ActionContext (the timers, events  *)
(* they send, whether they asked winit for a redraw).                      *)
(***************************************************************************)
EXTENDS Scheduler, FiniteSets

CONSTANTS
    Windows,             \* windows open at the start
    Sizes,               \* window sizes in pixels, 0 for a minimised window
    CellSize,            \* pixels per cell
    Kinds,               \* kinds of events that come from outside
    MaxInputs,           \* bound on the events that come from outside
    BlinkInterval, BlinkTimeout, ResizeDebounce, FrameInterval, BellDuration,   \* in ticks
    Wayland,             \* {TRUE} on Wayland, where the compositor paces frames, {FALSE} elsewhere,
                         \* BOOLEAN for both
    unfocused_hollow,    \* config.cursor.unfocused_hollow
    Hold,                \* windows started with --hold
    daemon               \* cli_options.daemon

ASSUME WindowAssumption ==
    /\ IsFiniteSet(Windows)
    /\ Sizes \subseteq Nat /\ Sizes \ {0} # {}
    /\ CellSize \in Nat \ {0}
    /\ MaxInputs \in Nat
    /\ {BlinkInterval, BlinkTimeout, ResizeDebounce, FrameInterval} \subseteq Nat \ {0}
    /\ BellDuration \in Nat
    /\ Wayland \subseteq BOOLEAN /\ {unfocused_hollow, daemon} \subseteq BOOLEAN
    /\ Hold \subseteq Windows

VARIABLES
    timers,        \* Scheduler::timers
    open,          \* Processor::windows
    win,           \* the WindowContext of each window
    exiting,       \* event_loop.exit() was called
    pc, todo,      \* inside about_to_wait: the windows still to be handled
    os_events,     \* window events not delivered yet
    user_events,   \* user events not delivered yet
    redraw,        \* windows that winit will send RedrawRequested
    os_size,       \* the size each window has on the desktop
    blinking,      \* whether each terminal's cursor style blinks
    shown,         \* what each window shows: text up to date, cursor, size
    inputs         \* events that came from outside so far

loopVars == <<timers, open, win, exiting, pc, todo, redraw, shown>>
outVars  == <<os_events, os_size, blinking, inputs>>
vars == <<loopVars, user_events, outVars>>

(* Nothing tells the windows apart. *)
WindowSymmetry == Permutations(Windows)

FirstSize == CHOOSE s \in Sizes \ {0} : TRUE

NewWindow(w, wayland) ==
    [wayland |-> wayland, event_queue |-> <<>>, dirty |-> FALSE, occluded |-> FALSE, hold |-> w \in Hold,
     has_frame |-> TRUE, requested_redraw |-> FALSE,
     pending |-> 0, size |-> FirstSize, pty_size |-> FirstSize \div CellSize,
     focused |-> FALSE, cursor_hidden |-> FALSE, blink_timed_out |-> FALSE,
     bell |-> 0, frame_known |-> FALSE, frame_synced |-> 0]

Init ==
    /\ timers = <<>> /\ open = Windows /\ exiting = FALSE
    /\ \E wayland \in Wayland : win = [w \in Windows |-> NewWindow(w, wayland)]
    /\ pc = "dispatch" /\ todo = {} /\ redraw = {}
    /\ os_events = <<>> /\ user_events = <<>> /\ inputs = 0
    /\ os_size = [w \in Windows |-> FirstSize]
    /\ blinking = [w \in Windows |-> FALSE]
    /\ shown = [w \in Windows |-> [fresh |-> TRUE, hidden |-> FALSE, size |-> FirstSize]]

-----------------------------------------------------------------------------
(* Contexts: what the handlers of one window work on *)

Context(w) == [win |-> win[w], timers |-> timers, sent |-> <<>>, redraw |-> FALSE]

TimerId(topic, w) == [topic |-> topic, window |-> w]
Event(type, w) == [type |-> type, window |-> w]

(* Leave the handlers of window w with context c. *)
Leave(w, c) ==
    /\ win' = [win EXCEPT ![w] = c.win]
    /\ timers' = c.timers
    /\ redraw' = (redraw \cup IF c.redraw THEN {w} ELSE {})
    /\ user_events' = user_events \o c.sent

(* The same after a redraw, for which winit now owes none. *)
Redrawn(w, c) ==
    /\ win' = [win EXCEPT ![w] = c.win]
    /\ timers' = c.timers
    /\ redraw' = IF c.redraw THEN redraw ELSE redraw \ {w}
    /\ user_events' = user_events \o c.sent

request_redraw(c) ==
    [c EXCEPT !.win.requested_redraw = TRUE,
              !.redraw = c.redraw \/ ~c.win.requested_redraw]

schedule_blinking(w, c) ==
    [c EXCEPT !.timers = schedule(@, Event("BlinkCursor", w), BlinkInterval, TRUE,
                                  TimerId("BlinkCursor", w))]

schedule_blinking_timeout(w, c) ==
    [c EXCEPT !.timers = schedule(@, Event("BlinkCursorTimeout", w), BlinkTimeout, FALSE,
                                  TimerId("BlinkTimeout", w))]

update_cursor_blinking(w, c) ==
    LET t == [c EXCEPT !.timers = unschedule(unschedule(@, TimerId("BlinkCursor", w)),
                                             TimerId("BlinkTimeout", w)),
                       !.win.blink_timed_out = FALSE]
    IN  IF blinking[w] /\ c.win.focused
        THEN schedule_blinking_timeout(w, schedule_blinking(w, t))
        ELSE [t EXCEPT !.win.cursor_hidden = FALSE, !.win.dirty = TRUE]

on_typing_start(w, c) ==
    IF scheduled(c.timers, TimerId("BlinkCursor", w))
    THEN [schedule_blinking(w, [c EXCEPT !.timers = unschedule(@, TimerId("BlinkCursor", w))])
            EXCEPT !.win.cursor_hidden = FALSE, !.win.dirty = @ \/ c.win.cursor_hidden]
    ELSE IF c.win.blink_timed_out THEN update_cursor_blinking(w, c)
    ELSE c

-----------------------------------------------------------------------------
(* input::Processor::handle_event: one staged event *)

(* Faulty variant: the debounce timer is started once more, the old one kept. *)
Resized_WithoutUnschedule(w, c, size) ==
    IF size = 0 THEN c
    ELSE [c EXCEPT !.timers =
            schedule(@, [type |-> "Resize", window |-> w, size |-> size],
                     ResizeDebounce, FALSE, TimerId("ResizeDebounce", w))]

(* Faulty variant: a running debounce timer keeps the size it was started with. *)
Resized_KeepsFirst(w, c, size) ==
    IF size = 0 \/ scheduled(c.timers, TimerId("ResizeDebounce", w)) THEN c
    ELSE Resized_WithoutUnschedule(w, c, size)

Resized(w, c, size) ==
    IF size = 0 THEN c
    ELSE [c EXCEPT !.timers =
            schedule(unschedule(@, TimerId("ResizeDebounce", w)),
                     [type |-> "Resize", window |-> w, size |-> size],
                     ResizeDebounce, FALSE, TimerId("ResizeDebounce", w))]

Focused(w, c, focused) ==
    update_cursor_blinking(w, [c EXCEPT !.win.focused = focused,
                                        !.win.dirty = @ \/ unfocused_hollow])

(* Faulty variant: the hold option is not lifted. *)
CloseRequested_KeepsHold(w, c) == [c EXCEPT !.sent = Append(@, Event("Exit", w))]

CloseRequested(w, c) ==
    [c EXCEPT !.win.hold = FALSE, !.sent = Append(@, Event("Exit", w))]

(* Faulty variant: a tick that comes after the timeout is not ignored. *)
BlinkCursor_Always(c) == [c EXCEPT !.win.cursor_hidden = ~@, !.win.dirty = TRUE]

BlinkCursor(c) ==
    IF c.win.blink_timed_out THEN c
    ELSE [c EXCEPT !.win.cursor_hidden = ~@, !.win.dirty = TRUE]

BlinkCursorTimeout(w, c) ==
    [c EXCEPT !.timers = unschedule(@, TimerId("BlinkCursor", w)),
              !.win.blink_timed_out = TRUE, !.win.cursor_hidden = FALSE, !.win.dirty = TRUE]

handle_one(w, c, e) ==
    CASE e.type = "Resized"  -> Resized(w, c, e.size)
      [] e.type = "Focused"  -> Focused(w, c, e.on)
      [] e.type = "Occluded" -> [c EXCEPT !.win.occluded = e.on]
      [] e.type = "Key"      -> on_typing_start(w, c)
      [] e.type = "CloseRequested" -> CloseRequested(w, c)
      [] e.type = "Resize"   -> [c EXCEPT !.win.pending = e.size]
      [] e.type = "Bell"     -> [c EXCEPT !.win.bell = BellDuration + 1]
      [] e.type = "BlinkCursor" -> BlinkCursor(c)
      [] e.type = "BlinkCursorTimeout" -> BlinkCursorTimeout(w, c)
      [] e.type = "CursorBlinkingChange" -> update_cursor_blinking(w, c)

(* Display::handle_update: the PTY and the terminal are resized only when the
   number of cells changes, the display always. *)
handle_update(c) ==
    IF c.win.pending = 0 THEN c
    ELSE [c EXCEPT !.win.size = c.win.pending, !.win.pending = 0,
                   !.win.pty_size = c.win.pending \div CellSize, !.win.dirty = TRUE]

(* WindowContext::handle_event for AboutToWait and RedrawRequested: the staged
   events and the display update, and whether the window then has to be redrawn. *)
handle_event(w, c) ==
    IF c.win.event_queue = <<>> THEN c
    ELSE handle_update(FoldLeft(LAMBDA d, e : handle_one(w, d, e),
                                [c EXCEPT !.win.event_queue = <<>>], c.win.event_queue))

wants_redraw(c) == c.win.dirty /\ c.win.has_frame /\ ~c.win.occluded

(* Faulty variant: an occluded window returns before the request is forgotten. *)
start_draw_UnlessOccluded(c) ==
    IF c.win.occluded THEN c ELSE [c EXCEPT !.win.requested_redraw = FALSE]

(* WindowContext::draw forgets the request before it looks at anything else. *)
start_draw(c) == [c EXCEPT !.win.requested_redraw = FALSE]

(* WindowContext::draw from there up to Display::draw.  `bell` is 0 when the visual bell is
   silent and otherwise one more than the ticks it still has; the draw that
   finds it over silences it and still asks for another. *)
prepare_draw(c) ==
    LET t == [c EXCEPT !.win.dirty = FALSE, !.win.bell = IF @ = 1 THEN 0 ELSE @]
    IN  IF c.win.bell = 0 THEN t
        ELSE IF c.win.has_frame THEN request_redraw(t)
        ELSE [t EXCEPT !.win.dirty = TRUE]

(* FrameTimer::compute_timeout: `frame_synced` is last_synced_timestamp relative
   to now, `frame_known` tells whether the refresh interval has been seen. *)
next_frame(c) == c.win.frame_synced + FrameInterval

compute_timeout(c) ==
    IF ~c.win.frame_known THEN FrameInterval
    ELSE IF next_frame(c) < 0 THEN 0
    ELSE next_frame(c)

synced_timestamp(c) ==
    IF ~c.win.frame_known THEN 0
    ELSE IF next_frame(c) < 0 THEN 0 - ((0 - c.win.frame_synced) % FrameInterval)
    ELSE next_frame(c)

(* Display::request_frame. *)
request_frame(w, c) ==
    [c EXCEPT !.win.has_frame = FALSE,
              !.win.frame_known = TRUE,
              !.win.frame_synced = synced_timestamp(c),
              !.timers = schedule(@, Event("Frame", w), compute_timeout(c), FALSE,
                                  TimerId("Frame", w))]

-----------------------------------------------------------------------------
(* ApplicationHandler for Processor *)

window_event ==
    /\ pc = "dispatch" /\ os_events # <<>>
    /\ os_events' = Tail(os_events)
    /\ LET e == Head(os_events)
       IN  win' = IF e.window \in open
                  THEN [win EXCEPT ![e.window].event_queue = Append(@, e)] ELSE win
    /\ UNCHANGED <<timers, open, exiting, pc, todo, redraw, shown, user_events,
                   os_size, blinking, inputs>>

RedrawRequested(w) ==
    /\ pc = "dispatch" /\ w \in redraw
    /\ \E c \in {start_draw(handle_event(w, Context(w)))} :
        \/ c.win.occluded /\ Redrawn(w, c) /\ UNCHANGED shown
        \/ /\ ~c.win.occluded
           /\ \E d \in {IF c.win.wayland THEN prepare_draw(c) ELSE request_frame(w, prepare_draw(c))} :
                /\ Redrawn(w, d)
                /\ shown' = [shown EXCEPT ![w] =
                      [fresh |-> TRUE, hidden |-> d.win.cursor_hidden, size |-> d.win.size]]
    /\ UNCHANGED <<open, exiting, pc, todo, outVars>>

(* user_event *)
NextUserEvent(type) ==
    /\ pc = "dispatch" /\ user_events # <<>> /\ Head(user_events).type = type
    /\ user_events' = Tail(user_events)
    /\ UNCHANGED <<pc, todo, shown, outVars>>

(* Wakeup and Frame bypass the event queue. *)
Immediately(w, c, redraws) ==
    LET d == IF redraws THEN request_redraw(c) ELSE c
    IN  IF w \in open
        THEN /\ win' = [win EXCEPT ![w] = d.win]
             /\ redraw' = (redraw \cup IF d.redraw THEN {w} ELSE {})
        ELSE UNCHANGED <<win, redraw>>

Wakeup ==
    /\ NextUserEvent("Wakeup")
    /\ LET w == Head(user_events).window
       IN  Immediately(w, [Context(w) EXCEPT !.win.dirty = TRUE], win[w].has_frame)
    /\ UNCHANGED <<timers, open, exiting>>

(* Faulty variant: what became dirty while waiting for the frame is forgotten. *)
Frame_WithoutRedraw ==
    /\ NextUserEvent("Frame")
    /\ LET w == Head(user_events).window
       IN  Immediately(w, [Context(w) EXCEPT !.win.has_frame = TRUE], FALSE)
    /\ UNCHANGED <<timers, open, exiting>>

Frame ==
    /\ NextUserEvent("Frame")
    /\ LET w == Head(user_events).window
       IN  Immediately(w, [Context(w) EXCEPT !.win.has_frame = TRUE], win[w].dirty)
    /\ UNCHANGED <<timers, open, exiting>>

(* winit redraws no window that is gone. *)
Exit ==
    /\ NextUserEvent("Exit")
    /\ LET w == Head(user_events).window
       IN  IF w \in open /\ ~win[w].hold
           THEN /\ open' = open \ {w}
                /\ timers' = unschedule_window(timers, w)
                /\ redraw' = redraw \ {w}
                /\ exiting' = (open' = {} /\ ~daemon)
           ELSE UNCHANGED <<open, timers, redraw, exiting>>
    /\ UNCHANGED win

(* Everything else is staged in the event queue of its window. *)
StageUserEvent(type) ==
    /\ NextUserEvent(type)
    /\ LET e == Head(user_events)
       IN  win' = IF e.window \in open
                  THEN [win EXCEPT ![e.window].event_queue = Append(@, e)] ELSE win
    /\ UNCHANGED <<timers, open, exiting, redraw>>

user_event ==
    \/ Wakeup \/ Frame \/ Exit
    \/ \E type \in {"Resize", "Bell", "BlinkCursor", "BlinkCursorTimeout",
                    "CursorBlinkingChange"} : StageUserEvent(type)

(* about_to_wait: the staged events of every window, then the timers.  winit has
   delivered what was queued before; what arrives later waits for the next
   round. *)
about_to_wait ==
    /\ pc = "dispatch" /\ os_events = <<>> /\ user_events = <<>>
    /\ pc' = "about_to_wait"
    /\ todo' = open
    /\ UNCHANGED <<timers, open, win, exiting, redraw, shown, user_events, outVars>>

HandleStaged(w) ==
    /\ pc = "about_to_wait" /\ w \in todo
    /\ \E c \in {handle_event(w, Context(w))} :
        Leave(w, IF win[w].event_queue # <<>> /\ wants_redraw(c) THEN request_redraw(c) ELSE c)
    /\ todo' = todo \ {w}
    /\ UNCHANGED <<open, exiting, pc, shown, outVars>>

UpdateTimers ==
    /\ pc = "about_to_wait" /\ todo = {}
    /\ timers' = update(timers).timers
    /\ user_events' = user_events \o update(timers).events
    /\ pc' = "dispatch"
    /\ UNCHANGED <<open, win, exiting, todo, redraw, shown, outVars>>

Loop ==
    /\ ~exiting
    /\ \/ window_event
       \/ \E w \in Windows : RedrawRequested(w)
       \/ user_event
       \/ about_to_wait
       \/ \E w \in Windows : HandleStaged(w)
       \/ UpdateTimers

-----------------------------------------------------------------------------
(* The outside: the desktop, the user, the PTY thread, and time *)

Deliver(kind) ==
    /\ kind \in Kinds /\ inputs < MaxInputs
    /\ inputs' = inputs + 1
    /\ UNCHANGED <<timers, open, win, exiting, pc, todo>>

DesktopEvent(kind, e) ==
    /\ Deliver(kind)
    /\ os_events' = Append(os_events, e)
    /\ UNCHANGED <<user_events, redraw, blinking, shown>>

Resizing(w, size) ==
    /\ size # os_size[w]
    /\ os_size' = [os_size EXCEPT ![w] = size]
    /\ DesktopEvent("Resized", [type |-> "Resized", window |-> w, size |-> size])

Switching(w, kind, on) ==
    /\ DesktopEvent(kind, [type |-> kind, window |-> w, on |-> on])
    /\ UNCHANGED os_size

Input(w, kind) == DesktopEvent(kind, Event(kind, w)) /\ UNCHANGED os_size

(* The desktop wants a window drawn again: a redraw that bypasses the frame
   throttling. *)
Expose(w) ==
    /\ Deliver("Expose")
    /\ redraw' = redraw \cup {w}
    /\ UNCHANGED <<user_events, os_events, os_size, blinking, shown>>

TerminalEvents(w, kind, types) ==
    /\ Deliver(kind)
    /\ user_events' = user_events \o [k \in DOMAIN types |-> Event(types[k], w)]
    /\ UNCHANGED <<os_events, os_size, redraw>>

(* The PTY thread has parsed output, which may ring the bell. *)
Output(w, types) ==
    /\ TerminalEvents(w, "Output", types)
    /\ shown' = [shown EXCEPT ![w].fresh = FALSE]
    /\ UNCHANGED blinking

CursorStyle(w) ==
    /\ TerminalEvents(w, "CursorStyle", <<"CursorBlinkingChange", "Wakeup">>)
    /\ blinking' = [blinking EXCEPT ![w] = ~@]
    /\ UNCHANGED shown

ChildExit(w) ==
    /\ TerminalEvents(w, "ChildExit", <<"Exit", "Wakeup">>)
    /\ UNCHANGED <<blinking, shown>>

Outside ==
    /\ ~exiting
    /\ \E w \in open :
        \/ \E size \in Sizes : Resizing(w, size)
        \/ \E kind \in {"Focused", "Occluded"}, on \in BOOLEAN : Switching(w, kind, on)
        \/ \E kind \in {"Key", "CloseRequested"} : Input(w, kind)
        \/ Expose(w)
        \/ \E types \in {<<"Wakeup">>, <<"Bell", "Wakeup">>} : Output(w, types)
        \/ CursorStyle(w)
        \/ ChildExit(w)

(* A tick passes for the timers, the visual bells and the frame timers; of a
   frame timer that is far behind only the phase matters. *)
Elapsed(x) ==
    [x EXCEPT !.bell = IF @ > 1 THEN @ - 1 ELSE @,
              !.frame_synced = IF ~x.frame_known THEN @
                               ELSE IF @ <= 0 - 2 * FrameInterval THEN @ - 1 + FrameInterval
                               ELSE @ - 1]

Tick ==
    /\ ~exiting /\ pc = "dispatch"
    /\ timers' = elapse(timers)
    /\ win' = [w \in Windows |-> Elapsed(win[w])]
    /\ UNCHANGED <<open, exiting, pc, todo, redraw, shown, user_events, outVars>>

Next == Loop \/ Outside \/ Tick

Spec == Init /\ [][Next]_vars

(* winit goes on as long as it has something to deliver (it waits only after the
   queues have been emptied), delivers every redraw it was asked for, and time
   passes. *)
Fairness ==
    /\ WF_vars(Loop)
    /\ \A w \in Windows : SF_vars(~exiting /\ RedrawRequested(w))
    /\ SF_vars(Tick)

FairSpec == Spec /\ Fairness

-----------------------------------------------------------------------------
(* Properties *)

Queued(w, type) ==
    \/ \E k \in DOMAIN user_events : user_events[k].type = type /\ user_events[k].window = w
    \/ \E k \in DOMAIN win[w].event_queue : win[w].event_queue[k].type = type

(* The order that Scheduler::update relies on when it looks only at the front. *)
TimersSorted ==
    \A i, j \in DOMAIN timers : i < j => timers[i].left <= timers[j].left

(* "This must be called when a window is removed to ensure that timers on
   intervals do not stick around forever" (Scheduler::unschedule_window): no
   timer outlives its window, and since unschedule() removes only one timer of
   an id, the blink, timeout and debounce timers never pile up. *)
TimersOwned ==
    /\ \A k \in DOMAIN timers : timers[k].id.window \in open
    /\ \A i, j \in DOMAIN timers :
          timers[i].id = timers[j].id /\ timers[i].id.topic # "Frame" => i = j

(* The timers of all windows in one queue: due in order, each once, and gone with
   the window (Scheduler::schedule, update, unschedule, unschedule_window). *)
TimersSound == TimersSorted /\ TimersOwned

(* A window that waits for a frame gets one: while has_frame is unset, a Frame
   timer or a Frame event is on its way. *)
FrameComing ==
    \A w \in open :
        ~win[w].has_frame => scheduled(timers, TimerId("Frame", w)) \/ Queued(w, "Frame")

(* Window::request_redraw drops a request while an earlier one is pending, so
   the flag must never be left set without winit owing a redraw. *)
RedrawOwed == \A w \in open : win[w].requested_redraw => w \in redraw

(* Neither of the two flags that hold back a redraw can be left behind for ever:
   has_frame by a lost timer, requested_redraw by a draw that returned early
   (Display::request_frame, Window::request_redraw, WindowContext::draw). *)
FramesOwed == FrameComing /\ RedrawOwed

(* "Only change state when timeout isn't reached, since we could get BlinkCursor
   and BlinkCursorTimeout events at the same time": a late BlinkCursor never
   leaves the cursor hidden once blinking has timed out. *)
TimedOutCursorShown ==
    \A w \in open : win[w].blink_timed_out => ~win[w].cursor_hidden

UpToDate(w) ==
    /\ shown[w].fresh
    /\ shown[w].hidden = win[w].cursor_hidden
    /\ shown[w].size = win[w].size

(* No redraw is lost between frame throttling, occlusion, the visual bell and
   redraws of the desktop: a window that shows something else than its state is
   drawn, unless it is occluded or closed. *)
EventuallyDrawn ==
    \A w \in Windows :
        ~UpToDate(w) ~> (UpToDate(w) \/ win[w].occluded \/ w \notin open \/ exiting)

(* The debounced resize still happens: display and PTY end up with the size the
   window has, however resizes, timers and late Resize events interleave. *)
ResizeSettles ==
    \A w \in Windows, s \in Sizes \ {0} :
        os_size[w] = s ~> (\/ os_size[w] # s \/ w \notin open \/ exiting
                           \/ win[w].size = s /\ win[w].pty_size = s \div CellSize)

(* Closing a window takes effect although --hold ignores the exit of the child. *)
ClosesOnRequest ==
    \A w \in Windows :
        (\E k \in DOMAIN os_events : os_events[k] = Event("CloseRequested", w))
            ~> (w \notin open \/ exiting)

=============================================================================
