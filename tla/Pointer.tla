------------------------------- MODULE Pointer -------------------------------
(***************************************************************************)
(* The mouse and the touch screen (velacritty/src/input/mod.rs and the     *)
(* Mouse and TouchPurpose of event.rs): buttons, clicks, dragging a        *)
(* selection and scrolling while it leaves the text, the wheel, touch      *)
(* gestures, and what the program is told of the mouse.                    *)
(*                                                                         *)
(* Everything is kept in one record; its field `kind` says which inputs a  *)
(* behaviour has, so that mouse, touch and wheel do not multiply.          *)
(***************************************************************************)
EXTENDS Sizes, Selection, Bindings

CONSTANTS
    WindowOf,            \* kind |-> the SizeInfo of the window
    MousePositions,      \* kind |-> where the mouse moves, x and y, also outside the window
    TouchPositions,      \* where fingers go
    Fingers,
    MIN_SELECTION_SCROLLING_HEIGHT, SELECTION_SCROLLING_STEP, MAX_TAP_DISTANCE,
    Multiplier,          \* scrolling.multiplier
    WheelPixels,         \* how far the wheel is turned at once
    MaxPixels            \* bound on how far it is turned altogether

VARIABLE ptr

Buttons == {"Left", "Middle", "Right"}
NoTimer == 0
NoTouch == [is |-> "None", slots |-> <<>>]

WindowSizeInfo(m) == WindowOf[m.kind]
AtMouse(m) == mouse_point(WindowSizeInfo(m), m.x, m.y, m.offset)
CellOfMouse(m) == mouse_point(WindowSizeInfo(m), m.x, m.y, 0)
mouse_mode(m) == m.reporting # "off" /\ ~m.vi
Dragging(m) == {"Left", "Right"} \cap m.held # {}
selection_is_empty(m) == \A s \in m.selection : is_empty(s)

-----------------------------------------------------------------------------
(* The selection *)

start_selection(m, ty) == [m EXCEPT !.selection = {Selection(ty, AtMouse(m), m.side)}]

update_selection(m, p, side) ==
    [m EXCEPT !.selection =
        {LET u == update(s, [p EXCEPT !.line = MinOf(@, WindowSizeInfo(m).screen_lines - 1)], side)
         IN  IF m.vi THEN include_all(u) ELSE u : s \in @}]

expand_selection(m) ==
    LET ty == IF "CONTROL" \in m.mods THEN "Block"
              ELSE CASE m.click = "Click" -> "Simple" [] m.click = "DoubleClick" -> "Semantic"
                     [] m.click = "TripleClick" -> "Lines" [] OTHER -> ""
    IN  IF m.click = "None" \/ m.selection = {} THEN m
        ELSE update_selection([m EXCEPT !.selection = {[s EXCEPT !.ty = ty] : s \in @}], AtMouse(m), m.side)

(* ActionContext::scroll, with a scrollback of one line. *)
scroll(m, lines) ==
    LET scrolled == [m EXCEPT !.offset = Clamp(@ + lines, 0, 1)]
    IN  IF Dragging(m) THEN update_selection(scrolled, AtMouse(scrolled), m.side) ELSE scrolled

on_terminal_input_start(m) == [m EXCEPT !.selection = {}, !.offset = 0]

(* Scrolls while the selection is dragged out of the text. *)
update_selection_scrolling(m, y) ==
    LET size    == WindowSizeInfo(m)
        top     == MaxOf(MIN_SELECTION_SCROLLING_HEIGHT, size.padding_y)
        bottom  == MinOf(size.height - MIN_SELECTION_SCROLLING_HEIGHT,
                         size.padding_y + size.screen_lines * size.cell_height)
        step    == SELECTION_SCROLLING_STEP
    IN  [m EXCEPT !.timer = IF y < top THEN (top - y + step) \div step
                            ELSE IF y >= bottom THEN -((y - bottom + step) \div step)
                            ELSE NoTimer]

-----------------------------------------------------------------------------
(* Reports to the program *)

(* mouse_report: nothing is told of the scrollback. *)
mouse_report(m, button) ==
    IF AtMouse(m).line < 0 THEN m ELSE [m EXCEPT !.report = Append(@, button)]

MaxReported(utf8) == IF utf8 THEN 2015 ELSE 223

mouse_pos_encode(pos, utf8) ==
    IF utf8 /\ pos >= 95 THEN <<192 + ((33 + pos) \div 64), 128 + ((33 + pos) % 64)>> ELSE <<(33 + pos) % 256>>

(* The bytes after ESC [ M; nothing for a cell too far away. *)
normal_mouse_report(p, button, utf8) ==
    IF p.line >= MaxReported(utf8) \/ p.col >= MaxReported(utf8) THEN <<>>
    ELSE <<32 + button>> \o mouse_pos_encode(p.col, utf8) \o mouse_pos_encode(p.line, utf8)

-----------------------------------------------------------------------------
(* Buttons *)

message_bar_pointer(m) ==
    LET size == WindowSizeInfo(m)
        end  == size.padding_y + size.cell_height * size.screen_lines
    IN  /\ m.message /\ m.y > end /\ m.y <= end + size.cell_height
        /\ AtMouse(m).col + 3 >= size.columns

(* The mouse at a new place; what it says of the place is renewed with it. *)
Moved(m, pos) ==
    LET size  == WindowSizeInfo(m)
        there == [m EXCEPT !.x = Clamp(pos[1], 0, size.width - 1), !.y = Clamp(pos[2], 0, size.height - 1)]
        inside == contains_point(size, there.x, there.y)
        side  == cell_side(size, there.x)
        same  == AtMouse(there) = AtMouse(m) /\ side = m.side /\ inside = m.inside
    IN  IF same THEN there
        ELSE [there EXCEPT !.inside = inside, !.side = side, !.block_hint_launcher = TRUE]

(* What follows when the mouse has come to `there`. *)
AfterMove(m, there) ==
    LET cell_changed == AtMouse(there) # AtMouse(m)
        changed == cell_changed \/ there.side # m.side \/ there.inside # m.inside
        drags == Dragging(m) /\ ("SHIFT" \in m.mods \/ ~mouse_mode(m))
    IN  CASE changed /\ drags -> update_selection(there, AtMouse(there), there.side)
          [] cell_changed /\ ~drags /\ m.reporting = "motion" ->
               mouse_report(there, IF "Left" \in m.held THEN 32 ELSE IF "Middle" \in m.held THEN 33
                                   ELSE IF "Right" \in m.held THEN 34 ELSE 35)
          [] OTHER -> there

mouse_moved(m, pos) ==
    AfterMove(m, Moved(IF ~selection_is_empty(m) /\ Dragging(m)
                       THEN update_selection_scrolling(m, pos[2]) ELSE m, pos))

ButtonCode(button) == CASE button = "Left" -> 0 [] button = "Middle" -> 1 [] button = "Right" -> 2

on_left_click(m) ==
    LET control == "CONTROL" \in m.mods
        blocked == [m EXCEPT !.block_hint_launcher = TRUE]
    IN  CASE m.click = "Click" ->
               start_selection([m EXCEPT !.block_hint_launcher = ~selection_is_empty(m)],
                               IF control THEN "Block" ELSE "Simple")
          [] m.click = "DoubleClick" /\ ~control -> start_selection(blocked, "Semantic")
          [] m.click = "TripleClick" /\ ~control -> start_selection(blocked, "Lines")
          [] OTHER -> m

(* `quick`: the press came within the time of a double click. *)
on_mouse_press(m, button, quick) ==
    LET click == IF button # m.last_button THEN "Click"
                 ELSE IF quick /\ m.click = "Click" THEN "DoubleClick"
                 ELSE IF quick /\ m.click = "DoubleClick" THEN "TripleClick"
                 ELSE "Click"
        clicked == [m EXCEPT !.click = click, !.last_button = button]
    IN  IF "SHIFT" \notin m.mods /\ mouse_mode(m)
        THEN mouse_report([m EXCEPT !.click = "None"], ButtonCode(button))
        ELSE IF button = "Left" THEN on_left_click([clicked EXCEPT !.press_cell = CellOfMouse(m)])
        ELSE clicked

MouseAction(m, action) ==
    CASE action = "ExpandSelection" -> expand_selection(m)
      [] action = "PasteSelection" -> on_terminal_input_start(m)

(* In mouse mode bindings need shift, and are then also looked up without it. *)
process_mouse_bindings(m, button) ==
    LET mode == IF m.vi THEN {"VI"} ELSE {}
        Triggered(mods) == SelectSeq(default_mouse_bindings,
                                 LAMBDA b : is_triggered_by(b, mode, mods, button, "Any"))
        fallback == mouse_mode(m) /\ "SHIFT" \in m.mods
        found == IF mouse_mode(m) /\ ~fallback THEN <<>>
                 ELSE IF Triggered(m.mods) = <<>> /\ fallback THEN Triggered(m.mods \ {"SHIFT"})
                 ELSE Triggered(m.mods)
    IN  IF found = <<>> THEN m ELSE MouseAction(m, found[1].action)

(* Faulty variant: only the release of the left button ends the scrolling. *)
on_mouse_release_LeftOnly(m, button, hint) ==
    IF "SHIFT" \notin m.mods /\ mouse_mode(m)
    THEN mouse_report([m EXCEPT !.stray = m.timer # NoTimer], 3)
    ELSE [m EXCEPT !.timer = IF button = "Left" THEN NoTimer ELSE @, !.stray = FALSE,
                   !.launched = button = "Left" /\ hint /\ ~m.block_hint_launcher]

(* A release that is reported to the program leaves the rest as it is. *)
on_mouse_release(m, button, hint) ==
    IF "SHIFT" \notin m.mods /\ mouse_mode(m)
    THEN mouse_report([m EXCEPT !.stray = m.timer # NoTimer], 3)
    ELSE [m EXCEPT !.timer = NoTimer, !.stray = FALSE,
                   !.launched = button = "Left" /\ hint /\ ~m.block_hint_launcher]

press(m, button, quick) ==
    LET down == [m EXCEPT !.held = @ \cup {button}, !.report = <<>>, !.launched = FALSE]
    IN  IF message_bar_pointer(m)
        THEN [down EXCEPT !.selection = {}, !.message = FALSE]
        ELSE process_mouse_bindings(on_mouse_press(down, button, quick), button)

release(m, button, hint) ==
    on_mouse_release([m EXCEPT !.held = @ \ {button}, !.report = <<>>, !.launched = FALSE], button, hint)

-----------------------------------------------------------------------------
(* The wheel *)

Trunc(a, b) == IF a >= 0 THEN a \div b ELSE -((-a) \div b)
Rem(a, b) == a - b * Trunc(a, b)

Remaining(px, height) == Rem(px, height)

(* Lines and columns are asked of the program or of the scrollback, the
   pixels that make less than one are kept for the next turn. *)
scroll_terminal(m, dx, dy, multiplier) ==
    LET width  == WindowSizeInfo(m).cell_width
        height == WindowSizeInfo(m).cell_height
        alternate == ~mouse_mode(m) /\ m.alternate /\ "SHIFT" \notin m.mods
        factor == IF mouse_mode(m) THEN 1 ELSE multiplier
        ax == IF mouse_mode(m) \/ alternate THEN m.acc_x + dx * factor ELSE m.acc_x
        ay == m.acc_y + dy * factor
        count == IF ay >= 0 THEN ay \div height ELSE (-ay) \div height
        lines == IF mouse_mode(m) \/ alternate THEN (IF dy > 0 THEN count ELSE -count) ELSE Trunc(ay, height)
        after == [m EXCEPT !.acc_x = Remaining(ax, width), !.acc_y = Remaining(ay, height),
                           !.lines = @ + lines, !.asked = @ + dy * factor]
    IN  IF mouse_mode(m) \/ alternate \/ lines = 0 THEN after ELSE scroll(after, lines)

-----------------------------------------------------------------------------
(* Touch *)

Purpose(is, slots) == [is |-> is, slots |-> slots]
Touch(id, pos) == [id |-> id, pos |-> pos]

on_touch_start(m, touch) ==
    LET t == m.touch
    IN  [m EXCEPT !.touch =
           CASE t.is = "None" -> Purpose("Tap", <<touch>>)
             [] t.is \in {"Tap", "ZoomPendingSlot"} -> Purpose("Zoom", <<t.slots[1], touch>>)
             [] t.is = "Zoom" -> Purpose("Invalid", {t.slots[1].id, t.slots[2].id})
             [] t.is \in {"Scroll", "Select"} -> Purpose("Invalid", {t.slots[1].id})
             [] t.is = "Invalid" -> Purpose("Invalid", t.slots \cup {touch.id})]

Far(a, b) == a - b > MAX_TAP_DISTANCE \/ b - a > MAX_TAP_DISTANCE

(* A motion of a gesture that is under way. *)
Gesture(m, touch) ==
    LET t == m.touch
    IN  CASE t.is = "Zoom" ->
               [m EXCEPT !.touch.slots = IF touch.id = t.slots[1].id THEN <<touch, @[2]>> ELSE <<@[1], touch>>]
          [] t.is = "Scroll" ->
               scroll_terminal([m EXCEPT !.touch = Purpose("Scroll", <<touch>>)],
                               0, touch.pos[2] - t.slots[1].pos[2], 1)
          [] t.is = "Select" -> mouse_moved(m, touch.pos)
          [] OTHER -> m

(* A tap becomes a selection or a scroll when the finger goes far enough. *)
on_touch_motion(m, touch) ==
    LET start == m.touch.slots[1]
        As(is) == [m EXCEPT !.touch = Purpose(is, <<start>>)]
        Begun == IF Far(touch.pos[1], start.pos[1])
                 THEN press(mouse_moved(As("Select"), start.pos), "Left", FALSE)
                 ELSE As("Scroll")
    IN  IF m.touch.is = "Tap" /\ ~Far(touch.pos[1], start.pos[1]) /\ ~Far(touch.pos[2], start.pos[2])
        THEN m
        ELSE Gesture(IF m.touch.is = "Tap" THEN Begun ELSE m, touch)

Lifted(m, touch) ==
    LET t == m.touch
    IN  CASE t.is = "Zoom" -> Purpose("ZoomPendingSlot",
               <<IF t.slots[1].id = touch.id THEN t.slots[2] ELSE t.slots[1]>>)
          [] t.is = "Invalid" /\ t.slots \ {touch.id} # {} -> Purpose("Invalid", t.slots \ {touch.id})
          [] OTHER -> NoTouch

on_touch_end(m, touch, hint) ==
    LET Tap(t, start) == press(mouse_moved(t, start), "Left", FALSE)
        Ended(was, t) ==
            IF was.is \in {"Tap", "Select"}
            THEN release(IF was.is = "Tap" THEN Tap(t, was.slots[1].pos) ELSE t, "Left", hint)
            ELSE t
        Lift(moved) == Ended(moved.touch, [moved EXCEPT !.touch = Lifted(moved, touch)])
    IN  Lift(on_touch_motion(m, touch))

-----------------------------------------------------------------------------

PointerInit ==
    \E kind \in {"drag", "click", "touch", "wheel"} :
       ptr = [kind |-> kind, x |-> 0, y |-> 0, side |-> "Left", inside |-> FALSE, held |-> {},
              click |-> "None", last_button |-> "Left", block_hint_launcher |-> FALSE,
              acc_x |-> 0, acc_y |-> 0, offset |-> 0, selection |-> {}, timer |-> NoTimer,
              mods |-> {}, reporting |-> "off", vi |-> FALSE, alternate |-> FALSE, message |-> FALSE,
              touch |-> NoTouch, fingers |-> {}, report |-> <<>>,
              launched |-> FALSE, press_cell |-> Point(0, 0), stray |-> FALSE, lines |-> 0, asked |-> 0]

Quiet(m) == [m EXCEPT !.report = <<>>, !.launched = FALSE]

(* `drag` changes the modes between presses, `click` is about clicks of all kinds. *)
MouseStep ==
    /\ ptr.kind \in {"drag", "click"}
    /\ \/ \E pos \in MousePositions[ptr.kind] : ptr' = mouse_moved(Quiet(ptr), pos)
       \/ \E b \in Buttons \ ptr.held, quick \in BOOLEAN :
            (quick \/ b = "Middle" => ptr.kind = "click") /\ ptr' = press(ptr, b, quick)
       \/ \E b \in ptr.held, hint \in BOOLEAN : ptr' = release(ptr, b, hint)
       \/ \E mods \in {NoMods, Shift, Ctrl} :
            (mods = Ctrl => ptr.kind = "click") /\ ptr' = [Quiet(ptr) EXCEPT !.mods = mods]
       \/ \E r \in {"off", "motion"} : ptr.kind = "drag" /\ ptr' = [Quiet(ptr) EXCEPT !.reporting = r]
       \/ ptr.kind = "click" /\ ptr' = [Quiet(ptr) EXCEPT !.message = TRUE]
       \/ ptr.kind = "click" /\ ptr' = [Quiet(ptr) EXCEPT !.vi = ~@]
       \/ ptr.timer # NoTimer /\ ptr' = scroll(Quiet(ptr), ptr.timer)

TouchStep ==
    /\ ptr.kind = "touch"
    /\ \/ \E f \in Fingers \ ptr.fingers, pos \in TouchPositions :
            ptr' = [on_touch_start(Quiet(ptr), Touch(f, pos)) EXCEPT !.fingers = @ \cup {f}]
       \/ \E f \in ptr.fingers, pos \in TouchPositions :
            ptr' = [on_touch_motion(Quiet(ptr), Touch(f, pos)) EXCEPT !.lines = 0, !.asked = 0]
       \/ \E f \in ptr.fingers, pos \in TouchPositions :
            ptr' = [on_touch_end(Quiet(ptr), Touch(f, pos), FALSE)
                       EXCEPT !.fingers = @ \ {f}, !.lines = 0, !.asked = 0]

(* A touchpad starts anew with the fraction it had given up. *)
WheelStep ==
    /\ ptr.kind = "wheel"
    /\ \/ \E dx \in {0, 1}, dy \in WheelPixels :
            /\ ptr' = scroll_terminal(ptr, dx, dy, Multiplier)
            /\ ptr'.asked \in -MaxPixels..MaxPixels
       \/ ptr' = [ptr EXCEPT !.acc_x = 0, !.acc_y = 0, !.lines = 0, !.asked = 0]
       \/ \E r \in {"off", "motion"}, a \in BOOLEAN : ptr' = [ptr EXCEPT !.reporting = r, !.alternate = a]

PointerNext == MouseStep \/ TouchStep \/ WheelStep

-----------------------------------------------------------------------------

(* When the last finger is lifted no gesture is left over, whatever fingers
   came, moved and went: the next touch starts a tap. *)
GesturesEnd == ptr.fingers = {} => ptr.touch = NoTouch

(* The timer that scrolls while the mouse drags a selection out of the window does
   not outlive the drag, but for a button whose release went to the program. *)
ScrollsWhileSelecting == ptr.timer # NoTimer => Dragging(ptr) \/ ptr.stray

(* A link is launched only by a click: the mouse has not left the cell where the
   left button went down, in whatever modes it did. *)
LaunchedByClick == ptr.launched => CellOfMouse(ptr) = ptr.press_cell

(* The lines that are scrolled and the pixels that are left make up what was
   turned, in whatever modes the turns were made: none is lost or reversed. *)
ScrollConserved ==
    ptr.kind = "wheel" =>
      /\ ptr.lines * WindowSizeInfo(ptr).cell_height + ptr.acc_y = ptr.asked
      /\ ptr.acc_y \in (1 - WindowSizeInfo(ptr).cell_height)..(WindowSizeInfo(ptr).cell_height - 1)

=============================================================================
