-------------------------------- MODULE MCTerm --------------------------------
(***************************************************************************)
(* The terminal under any sequence of escape sequences and window events.  *)
(* A behaviour stays within one group of operations, chosen at the start,  *)
(* so that the state spaces of the groups add up and do not multiply.      *)
(***************************************************************************)
EXTENDS SearchBar

CONSTANTS
    Size,             \* for every group that is explored, the columns and lines
    NewSizes,         \* for groups that resize, the new columns and lines
    History,          \* bound on the lines of scrollback
    MaxKeyboardModes, \* bound on the depth of the keyboard mode stack
    MaxAbove          \* bound on how far above the screen a selection is followed

(* A screen is never narrower than MIN_COLUMNS where wide characters are written. *)
SizeOK(g, size) ==
    /\ size[1] \in Nat \ {0} /\ size[2] \in Nat \ {0}
    /\ g \in {"write", "region"} => size[1] >= 2

ASSUME SizeAssumption ==
    /\ \A g \in DOMAIN Size : SizeOK(g, Size[g])
    /\ \A g \in DOMAIN NewSizes : \A size \in NewSizes[g] : SizeOK(g, size)
    /\ History \in Nat

VARIABLES term, group

vars == <<term, group, bar>>

AllGroups ==
    [write |-> <<3, 2>>, insert |-> <<3, 2>>, tabs |-> <<4, 1>>, region |-> <<2, 3>>,
     margins |-> <<2, 3>>, modes |-> <<2, 1>>, stacks |-> <<2, 1>>, pen |-> <<2, 1>>,
     style |-> <<2, 1>>, view |-> <<1, 2>>, select |-> <<2, 2>>, search |-> <<1, 2>>,
     tall_search |-> <<1, 3>>, low_search |-> <<1, 1>>]
StackGroup == [stacks |-> <<2, 1>>]
SmallSizes == [view |-> {<<1, 2>>, <<1, 1>>, <<2, 2>>}, select |-> {<<2, 2>>, <<2, 1>>, <<2, 3>>}]

Config(kitty, history) == [kitty |-> kitty, history |-> history]

(* Only where frames are drawn does it matter which cell is watched: there it is
   one of every column, the lines taking turns. *)
Init ==
    /\ group \in DOMAIN Size
    /\ LET cols  == Size[group][1]
           lines == Size[group][2]
       IN  \E col \in 0..cols - 1 :
             /\ group \notin {"write", "insert", "tabs", "margins"} => col = 0
             /\ term = NewTerm(cols, lines,
                               Config(group = "stacks", IF group \in DOMAIN NewSizes \cup {"search"} THEN History ELSE 0),
                               Point(col % lines, col))
             /\ SearchInit(goto(term, IF group = "tall_search" THEN lines - 1 ELSE 0, 0))

In(groups) == group \in groups /\ ~term.panicked
Do(t) == term' = t /\ UNCHANGED <<group, bar>>

-----------------------------------------------------------------------------
(* Writing and moving *)

Input ==
    \/ In({"write"}) /\ \E under \in {"narrow", "wide", "spacer"} :
          \/ Do(input_zerowidth(term, under))
          \/ Do(input_narrow(term, under))
          \/ Do(input_wide(term, under))
    \/ In({"insert", "tabs", "margins"}) /\ Do(input_narrow(term, "narrow"))

Erase ==
    /\ In({"write"})
    /\ \/ Do(decaln(term))
       \/ \E n \in 1..2 : Do(insert_blank(term, n)) \/ Do(delete_chars(term, n))
                          \/ Do(erase_chars(term, n))
       \/ \E mode \in {"Left", "Right", "All"} : Do(clear_line(term, mode))
       \/ \E mode \in {"Above", "Below"} : Do(clear_screen(term, mode, 0))

Move ==
    \/ /\ In({"write", "region", "margins"})
       /\ \/ \E line \in 0..term.lines - 1 : Do(goto(term, line, term.cols - 1))
          \/ Do(goto_line(term, 0)) \/ Do(goto_col(term, 1))
          \/ Do(move_up(term, 1)) \/ Do(move_down(term, 1))
          \/ Do(move_up_and_cr(term, 1)) \/ Do(move_down_and_cr(term, 1))
          \/ Do(move_forward(term, 1)) \/ Do(move_backward(term, 1)) \/ Do(backspace(term))
    \/ /\ In({"write", "region", "insert", "tabs", "margins"})
       /\ Do(carriage_return(term)) \/ Do(newline(term))
    \/ /\ In({"region"})
       /\ \/ Do(save_cursor_position(term)) \/ Do(restore_cursor_position(term))
          \/ Do(reverse_index(term))
          \/ Do(insert_blank_lines(term, 1)) \/ Do(delete_lines(term, 2))

Tab ==
    /\ In({"tabs"})
    /\ \/ Do(put_tab(term, 1)) \/ Do(move_forward_tabs(term, 2)) \/ Do(move_backward_tabs(term, 1))
       \/ Do(set_horizontal_tabstop(term))
       \/ \E mode \in {"Current", "All"} : Do(clear_tabs(term, mode))

Region ==
    \/ /\ In({"region", "margins"})
       /\ \E top \in 1..term.lines, bottom \in 2..term.lines + 1 :
            Do(set_scrolling_region(term, top, bottom))
    \/ /\ In({"region"})
       /\ \/ \E mode \in {"Origin", "LineWrap"} :
               Do(set_private_mode(term, mode)) \/ Do(unset_private_mode(term, mode))
          \/ Do(input_wide(term, "narrow"))

InsertMode ==
    /\ In({"insert"})
    /\ \/ Do(set_mode(term, "Insert")) \/ Do(unset_mode(term, "Insert"))
       \/ Do(set_mode(term, "LineFeedNewLine")) \/ Do(unset_mode(term, "LineFeedNewLine"))
       \/ Do(set_private_mode(term, "LineWrap")) \/ Do(unset_private_mode(term, "LineWrap"))

Frame == In({"write", "insert", "tabs", "margins"}) /\ Do(Draw(term))

-----------------------------------------------------------------------------
(* Modes and stacks.  Some of the modes that are flags and nothing more are left out. *)

Flags == {"UrgencyHints", "BracketedPaste", "AlternateScroll"}

Modes ==
    /\ In({"modes"})
    /\ \/ \E mode \in PrivateModes \ Flags :
            Do(set_private_mode(term, mode)) \/ Do(unset_private_mode(term, mode))
       \/ Do(set_keypad_application_mode(term)) \/ Do(unset_keypad_application_mode(term))
       \/ Do(ReportBlinking(term)) \/ Do(reset_state(term)) \/ Do(toggle_vi_mode(term))

KeyboardModes == {{}, {"DISAMBIGUATE_ESC_CODES"}, {"REPORT_EVENT_TYPES"}}
Titles == {{}, {"a"}}

Stacks ==
    /\ In({"stacks"})
    /\ \/ \E mode \in KeyboardModes :
            \/ Len(term.keyboard) < MaxKeyboardModes /\ Do(push_keyboard_mode(term, mode))
            \/ \E apply \in {"Replace", "Union", "Difference"} :
                 Do(apply_keyboard_mode(term, mode, apply))
       \/ \E n \in {1, 3} : Do(pop_keyboard_modes(term, n))
       \/ \E title \in Titles : Do(set_title(term, title))
       \/ Do(push_title(term)) \/ Do(pop_title(term))
       \/ \E kitty \in BOOLEAN : Do(set_options(term, [term.config EXCEPT !.kitty = kitty]))
       \/ Do(set_private_mode(term, "SwapScreenAndSetRestoreCursor"))
       \/ Do(unset_private_mode(term, "SwapScreenAndSetRestoreCursor"))
       \/ Do(reset_state(term))

Pen ==
    /\ In({"pen"})
    /\ \/ \E attr \in {"BOLD", "UNDERLINE", "UNDERCURL", "CancelUnderline", "CancelBold",
                       "CancelBoldDim", "Reset"} : Do(terminal_attribute(term, attr))
       \/ Do(save_cursor_position(term)) \/ Do(restore_cursor_position(term))
       \/ Do(set_private_mode(term, "SwapScreenAndSetRestoreCursor"))
       \/ Do(unset_private_mode(term, "SwapScreenAndSetRestoreCursor"))

Style ==
    /\ In({"style"})
    /\ \/ \E index \in {"Cursor", "Foreground"} :
            Do(set_color(term, index, 1)) \/ Do(reset_color(term, index))
       \/ Do(set_cursor_style(term, {})) \/ Do(set_cursor_shape(term, "Beam"))
       \/ \E index \in 0..1 : Do(set_active_charset(term, index))
       \/ Do(swap_alt(term)) \/ Do(reset_state(term))

-----------------------------------------------------------------------------
(* The view: scrollback, selection, vi mode, resizing *)

Displayed == {Point(l - term.grid.offset, c) : l \in 0..term.lines - 1, c \in 0..term.cols - 1}

Followed == \A s \in term.sel : MinOf(s.start.point.line, s.end.point.line) >= -MaxAbove

Scroll ==
    \/ /\ In({"view", "select"}) /\ Followed
       /\ \/ \E n \in 1..2 : Do(scroll_up(term, n)) \/ Do(scroll_down(term, n))
          \/ \E scroll \in {-1, 1} : Do(scroll_display(term, Delta(scroll)))
          \/ \E used \in (IF term.grid.hist > 0 THEN 0 ELSE 1)..term.lines :
               Do(clear_screen(term, "All", used))
          \/ Do(clear_screen(term, "Saved", 0))
    \/ /\ In({"view"})
       /\ \E scroll \in {"PageUp", "PageDown", "Top", "Bottom"} :
            Do(scroll_display(term, ScrollTo(scroll)))
    \/ /\ In({"select"}) /\ Followed
       /\ \/ \E mode \in {"Above", "Below"} : Do(clear_screen(term, mode, 0))
          \/ Do(deccolm(term)) \/ Do(linefeed(term))

ViMode ==
    /\ In({"view"})
    /\ \/ Do(toggle_vi_mode(term))
       \/ /\ term.vi \in GridPoints(Dims(term))
          /\ \E p \in GridPoints(Dims(term)) : Do(vi_motion(term, p))

Select ==
    /\ In({"select"})
    /\ \/ \E p \in Displayed : Do([term EXCEPT !.sel = {Selection("Simple", p, "Left")}])
       \/ \E p \in Displayed, s \in term.sel : Do([term EXCEPT !.sel = {update(s, p, "Right")}])

Screens ==
    /\ In({"view"})
    /\ \/ Do(swap_alt(term)) \/ Do(reset_state(term)) \/ Do(ToggleAutoScroll(term))
       \/ \E history \in 0..History : Do(set_options(term, [term.config EXCEPT !.history = history]))

Resize ==
    /\ In(DOMAIN NewSizes) /\ Followed
    /\ \E size \in NewSizes[group] : \E t \in TermResize(term, size[1], size[2]) : Do(t)

Search == In({"search", "tall_search", "low_search"}) /\ SearchNext /\ UNCHANGED <<term, group>>

Next ==
    \/ Input \/ Erase \/ Move \/ Tab \/ Region \/ InsertMode \/ Frame
    \/ Modes \/ Stacks \/ Pen \/ Style
    \/ Scroll \/ ViMode \/ Select \/ Screens \/ Resize \/ Search

Spec == Init /\ [][Next]_vars

-----------------------------------------------------------------------------
(* Properties *)

OnScreen(c) == c.line \in 0..term.lines - 1 /\ c.col \in 0..term.cols - 1
ViInGrid == term.vi \in GridPoints(Dims(term))

(* Everything the terminal indexes its grids with stays on the screen: the
   cursors and saved cursors of both screens, the cell damaged with the next
   frame, the damaged lines, the scrolling region and the tab stops, across
   resizes, resets and swaps of the screens. *)
TypeOK ==
    /\ \A c \in {term.grid.cursor, term.grid.saved, term.inactive.cursor, term.inactive.saved,
                 term.damage.last} : OnScreen(c)
    /\ DOMAIN term.damage.lines = 0..term.lines - 1
    /\ 0 <= term.region.start /\ term.region.start <= term.region.end
    /\ term.region.end <= term.lines
    /\ term.tabs \subseteq 0..term.cols - 1
    /\ term.grid.hist \in 0..term.grid.limit /\ term.inactive.hist \in 0..term.inactive.limit
    /\ Len(term.titles) <= TITLE_STACK_MAX_DEPTH

(* A line that a scrolling region may end above, at the bottom of the screen. *)
BelowMargin == group = "margins" /\ term.cell.line = term.lines - 1

(* Term::damage reports every cell that was written since the last frame:
   characters, tabs and erasures between the cells the cursor was on, and
   whole lines or the screen for everything else.  The bottom line is excepted
   below a scrolling region: wrapline leaves the damage of the line to linefeed,
   which does nothing there (term/mod.rs:979). *)
DamageCoversWrites ==
    term.since = "written" /\ ~BelowMargin =>
      IsDamaged(damage(term), term.cell.line + term.grid.offset, term.cell.col)

(* Of the mouse protocols, of the mouse encodings and of the underlines at most
   one is ever active, whatever is restored or swapped in. *)
ExclusiveModes ==
    /\ Cardinality(term.mode \cap MOUSE_MODE) <= 1
    /\ Cardinality(term.mode \cap {"SGR_MOUSE", "UTF8_MOUSE"}) <= 1
    /\ \A c \in {term.grid.cursor, term.grid.saved, term.inactive.cursor} :
         Cardinality(c.template \cap ALL_UNDERLINES) <= 1

(* What a program is told is so.  The three tables of private modes agree: a
   mode that has just been set is reported as set, one that has been unset as
   not set, as is the case for the public modes (in the group of operations
   that sets and unsets them all); and the cursor is reported to be in the text
   area that is reported (Term::report_private_mode, report_mode,
   device_status, text_area_size_chars). *)
ReportsTrue ==
    /\ group = "modes" =>
         /\ \A mode \in PrivateModes \ {"ColumnMode", "SyncUpdate", "Unknown"} :
              /\ report_private_mode(set_private_mode(term, mode), mode) = "Set"
              /\ report_private_mode(unset_private_mode(term, mode), mode) = "Reset"
         /\ \A mode \in DOMAIN PublicMode :
              /\ report_mode(set_mode(term, mode), mode) = "Set"
              /\ report_mode(unset_mode(term, mode), mode) = "Reset"
    /\ \A i \in 1..2 : device_status(term, 6)[i] \in 1..text_area_size_chars(term)[i]

(* With the kitty protocol disabled in the configuration, no keyboard mode is
   active and none is left on the stack of either screen to come back later. *)
KeyboardModesGated ==
    ~term.config.kitty =>
      /\ term.mode \cap KITTY_KEYBOARD_PROTOCOL = {}
      /\ term.keyboard = <<>> /\ term.inactive_keyboard = <<>>

(* A program that enters and leaves the alternate screen finds the primary one
   as it was: its cursor, its modes, and the keyboard mode on top of its stack. *)
SwapRestores ==
    ~Has(term, "ALT_SCREEN") =>
      \A back \in {swap_alt(swap_alt(term))} :
          /\ back.grid.cursor = term.grid.cursor
          /\ back.keyboard = term.keyboard /\ back.inactive_keyboard = term.inactive_keyboard
          /\ back.mode = (term.mode \ KITTY_KEYBOARD_PROTOCOL) \cup TopMode(term.keyboard)

(* Modes stay consistent through sets, unsets, swaps, resets and reloads in any
   order: exclusive ones exclude each other, reports agree with them, and the
   keyboard modes of each screen come back with it, or never if they are disabled. *)
ModesConsistent == ExclusiveModes /\ ReportsTrue /\ KeyboardModesGated /\ SwapRestores

(* "Max size of the keyboard modes." (KEYBOARD_MODE_STACK_MAX_DEPTH). *)
KeyboardModesBounded ==
    ~term.panicked /\ Len(term.keyboard) <= KEYBOARD_MODE_STACK_MAX_DEPTH

(* A selection never hangs below the screen or to the right of it: it follows
   the text through scrolling and resizing, or is dropped. *)
SelectionOnGrid ==
    \A s \in term.sel : \A a \in {s.start, s.end} :
      a.point.line < term.lines /\ a.point.col < term.cols

(* What is kept outside of the grid but indexes it, or a list, stays valid while
   the screen, the view and the search bar change under it: the selection, the
   cursor of a search, the position in the history of searches. *)
PositionsInGrid == SelectionOnGrid /\ SearchCursorInGrid /\ HistoryIndexValid

(* The vi cursor, with which the grid is indexed for every frame, stays in the
   grid, as long as the screens are not swapped, the scrollback is not made
   shorter by a new configuration, and the display offset is in the scrollback. *)
ViCursorKept ==
    [][(ViInGrid /\ term'.grid.offset <= term'.grid.hist) =>
         \/ ViInGrid'
         \/ Has(term, "ALT_SCREEN") # Has(term', "ALT_SCREEN")
         \/ term'.grid.limit < term.grid.limit]_vars

(* The vi cursor stays on the text it was put on: in the grid at every step, and
   back where it was when a search is given up (Term::resize, clear_screen,
   scroll_display; search_reset_state, start_search). *)
ViCursorRestored == ViCursorKept /\ CancelRestores

=============================================================================
