--------------------------------- MODULE Term ---------------------------------
(***************************************************************************)
(* The terminal state machine (velacritty_terminal/src/term/mod.rs): what  *)
(* the escape sequence handlers and the window do to the two screens.      *)
(*                                                                         *)
(* A terminal is a record, and every method is an operator from terminal   *)
(* to terminal, so that methods that call each other compose.  A screen is *)
(* [hist, limit, offset, auto, cursor, saved]: its lines of scrollback, the *)
(* display offset and the two cursors, a cursor having a line, a column,   *)
(* input_needs_wrap (`wrap`) and the attributes of its template.           *)
(* Cell contents are left out, but for one cell of the screen, `cell`,     *)
(* that is watched: since the last frame it is "kept", was "written", or   *)
(* was only "smudged", that is changed as a neighbour of a written cell.   *)
(***************************************************************************)
EXTENDS Selection, Sequences, SequencesExt

CONSTANTS
    TITLE_STACK_MAX_DEPTH,
    KEYBOARD_MODE_STACK_MAX_DEPTH,
    INITIAL_TABSTOPS

ASSUME TermAssumption ==
    /\ TITLE_STACK_MAX_DEPTH \in Nat \ {0}
    /\ KEYBOARD_MODE_STACK_MAX_DEPTH \in Nat \ {0}
    /\ INITIAL_TABSTOPS \in Nat \ {0}

MOUSE_MODE == {"MOUSE_REPORT_CLICK", "MOUSE_MOTION", "MOUSE_DRAG"}
KITTY_KEYBOARD_PROTOCOL ==
    {"DISAMBIGUATE_ESC_CODES", "REPORT_EVENT_TYPES", "REPORT_ALTERNATE_KEYS",
     "REPORT_ALL_KEYS_AS_ESC", "REPORT_ASSOCIATED_TEXT"}
DefaultMode == {"SHOW_CURSOR", "LINE_WRAP", "ALTERNATE_SCROLL", "URGENCY_HINTS"}

(* TabStops *)
TabStops(columns) == {i \in 0..columns - 1 : i % INITIAL_TABSTOPS = 0}
resize_tabs(tabs, old, columns) ==
    {i \in tabs : i < columns} \cup {i \in old..columns - 1 : i % INITIAL_TABSTOPS = 0}

Cursor(line, col) == [line |-> line, col |-> col, wrap |-> FALSE, template |-> {}]
Screen(limit) ==
    [hist |-> 0, limit |-> limit, offset |-> 0, auto |-> TRUE,
     cursor |-> Cursor(0, 0), saved |-> Cursor(0, 0)]

DEFAULT_STYLE == [shape |-> "Block", blinking |-> FALSE]

Undamaged(cols) == [left |-> cols, right |-> 0]

NewTerm(cols, lines, config, cell) ==
    [cols |-> cols, lines |-> lines, grid |-> Screen(config.history), inactive |-> Screen(0),
     mode |-> DefaultMode, region |-> [start |-> 0, end |-> lines], tabs |-> TabStops(cols),
     keyboard |-> <<>>, inactive_keyboard |-> <<>>, titles |-> <<>>, title |-> {},
     vi |-> Point(0, 0), sel |-> NoSelection, style |-> {}, colors |-> [i \in {"Cursor", "Foreground"} |-> {}], charset |-> 0,
     damage |-> [full |-> TRUE, lines |-> [l \in 0..lines - 1 |-> Undamaged(cols)],
                 last |-> Point(0, 0)],
     config |-> config, display_auto |-> TRUE, panicked |-> FALSE,
     cell |-> cell, since |-> "written"]

Dims(t) == [cols |-> t.cols, lines |-> t.lines, hist |-> t.grid.hist]
Has(t, flag) == flag \in t.mode
With(t, flag) == [t EXCEPT !.mode = t.mode \cup {flag}]
Without(t, flag) == [t EXCEPT !.mode = t.mode \ {flag}]
CursorPoint(t) == Point(t.grid.cursor.line, t.grid.cursor.col)

(* The watched cell is written if it is in these columns of a line. *)
Write(t, line, left, right) ==
    IF t.cell.line = line /\ t.cell.col \in left..right THEN [t EXCEPT !.since = "written"] ELSE t
WriteLines(t, top, bottom) ==
    IF t.cell.line \in top..bottom THEN [t EXCEPT !.since = "written"] ELSE t
Smudge(t, line, col) ==
    IF t.cell = Point(line, col) /\ t.since = "kept" THEN [t EXCEPT !.since = "smudged"] ELSE t

-----------------------------------------------------------------------------
(* Damage *)

mark_fully_damaged(t) == [t EXCEPT !.damage.full = TRUE]

damage_line(t, line, left, right) ==
    LET old == t.damage.lines[line]
    IN  [t EXCEPT !.damage.lines[line] =
            [left |-> MinOf(old.left, left), right |-> MaxOf(old.right, right)]]

damage_cursor(t) ==
    damage_line(t, t.grid.cursor.line, t.grid.cursor.col, t.grid.cursor.col)

damage_resize(cols, lines) ==
    [full |-> TRUE, lines |-> [l \in 0..lines - 1 |-> Undamaged(cols)], last |-> Point(0, 0)]

(* Term::damage; the cursor's old and new cell are added only when the lines
   are what is reported. *)
damage(t) ==
    LET s == IF Has(t, "INSERT") THEN mark_fully_damaged(t) ELSE t
        u == [s EXCEPT !.damage.last = CursorPoint(s)]
        old == s.damage.last
    IN  IF s.damage.full THEN u
        ELSE damage_cursor(IF old # CursorPoint(s)
                           THEN damage_line(u, old.line, old.col, old.col) ELSE u)

(* TermDamageIterator: whether a cell of the viewport is reported. *)
IsDamaged(t, line, col) ==
    \/ t.damage.full
    \/ /\ line - t.grid.offset \in 0..t.lines - 1
       /\ t.damage.lines[line - t.grid.offset].left <= col
       /\ col <= t.damage.lines[line - t.grid.offset].right

reset_damage(t) ==
    [t EXCEPT !.damage.full = FALSE,
              !.damage.lines = [l \in DOMAIN t.damage.lines |-> Undamaged(t.cols)]]

(* Display::draw: the damage is read and reset, and the frame drawn from it. *)
Draw(t) == [reset_damage(damage(t)) EXCEPT !.since = "kept"]

-----------------------------------------------------------------------------
(* The grid operations used here, on lines (see Grid) *)

scrolled_offset(g, n) ==
    IF g.offset # 0 \/ ~g.auto THEN MinOf(g.offset + n, g.limit) ELSE g.offset

scroll_up_grid(g, start, end, n) ==
    IF end - start <= n /\ start # 0 THEN g
    ELSE [g EXCEPT !.offset = scrolled_offset(g, n),
                   !.hist = IF start = 0 THEN MinOf(g.hist + n, g.limit) ELSE g.hist]

(* enum Scroll *)
ScrollTo(to) == [to |-> to, by |-> 0]
Delta(lines) == [to |-> "Delta", by |-> lines]

scroll_display_grid(g, lines, scroll) ==
    [g EXCEPT !.offset =
        CASE scroll.to = "PageUp" -> MinOf(g.offset + lines, g.hist)
          [] scroll.to = "PageDown" -> SaturatingSub(g.offset, lines)
          [] scroll.to = "Top" -> g.hist
          [] scroll.to = "Bottom" -> 0
          [] scroll.to = "Delta" -> Clamp(g.offset + scroll.by, 0, g.hist)]

update_history(g, size) ==
    [g EXCEPT !.hist = MinOf(g.hist, size), !.offset = MinOf(g.offset, size), !.limit = size]

reset_grid(g) ==
    [g EXCEPT !.hist = 0, !.offset = 0, !.cursor = Cursor(0, 0), !.saved = Cursor(0, 0)]

resize_lines(g, old, lines) ==
    LET added    == lines - old
        taken    == MinOf(g.hist, added)
        required == SaturatingSub(g.cursor.line + 1, lines)
    IN  IF lines > old
        THEN LET s == IF taken # added THEN scroll_up_grid(g, 0, lines, added - taken) ELSE g
                 hist == SaturatingSub(s.hist, added)
             IN  [s EXCEPT !.hist = hist,
                           !.offset = MinOf(SaturatingSub(s.offset, added), hist),
                           !.cursor.line = g.cursor.line + taken,
                           !.saved.line = g.saved.line + taken]
        ELSE LET s == IF required > 0 THEN scroll_up_grid(g, 0, old, required) ELSE g
             IN  [s EXCEPT !.cursor.line = MinOf(g.cursor.line, lines - 1),
                           !.saved.line = MinOf(g.saved.line, lines - 1)]

Reflowed(g, hist, line, col, wrap) ==
    [g EXCEPT !.hist = hist, !.offset = MinOf(g.offset, hist),
              !.cursor = [g.cursor EXCEPT !.line = line, !.col = col, !.wrap = wrap]]

(* What a reflow can make of a screen (see ReflowInBounds in MCAlgorithms), or
   the cutting off of columns where lines are not reflowed. *)
resize_columns(g, reflow, cols, lines) ==
    LET s == [g EXCEPT !.saved.col = MinOf(g.saved.col, cols - 1)]
    IN  IF ~reflow THEN {[s EXCEPT !.cursor.col = MinOf(g.cursor.col, cols - 1)]}
        ELSE {Reflowed(s, hist, l, c, wrap) :
                hist \in 0..g.limit, l \in 0..lines - 1, c \in 0..cols - 1, wrap \in BOOLEAN}

resize_grid(g, t, reflow, cols, lines) ==
    LET s == IF lines # t.lines THEN resize_lines(g, t.lines, lines) ELSE g
    IN  IF cols # t.cols THEN resize_columns(s, reflow, cols, lines) ELSE {s}

-----------------------------------------------------------------------------
(* Keyboard modes *)

set_keyboard_mode(t, mode, apply) ==
    LET active == t.mode \cap KITTY_KEYBOARD_PROTOCOL
        new    == CASE apply = "Replace" -> mode
                    [] apply = "Union" -> active \cup mode
                    [] apply = "Difference" -> active \ mode
    IN  [t EXCEPT !.mode = (t.mode \ KITTY_KEYBOARD_PROTOCOL) \cup new]

TopMode(stack) == IF stack = <<>> THEN {} ELSE Last(stack)

(* The oldest entry makes room for a new one, in the stack of the titles; the
   terminal panics when there is no title. *)
push_keyboard_mode(t, mode) ==
    LET full == Len(t.keyboard) >= KEYBOARD_MODE_STACK_MAX_DEPTH
        s == IF full /\ t.titles # <<>> THEN [t EXCEPT !.titles = Tail(t.titles)] ELSE t
    IN  IF ~t.config.kitty THEN t
        ELSE IF full /\ t.titles = <<>> THEN [t EXCEPT !.panicked = TRUE]
        ELSE set_keyboard_mode([s EXCEPT !.keyboard = Append(s.keyboard, mode)], mode, "Replace")

pop_keyboard_modes(t, count) ==
    LET stack == SubSeq(t.keyboard, 1, SaturatingSub(Len(t.keyboard), count))
    IN  IF ~t.config.kitty THEN t
        ELSE set_keyboard_mode([t EXCEPT !.keyboard = stack], TopMode(stack), "Replace")

apply_keyboard_mode(t, mode, apply) ==
    IF t.config.kitty THEN set_keyboard_mode(t, mode, apply) ELSE t

-----------------------------------------------------------------------------
(* Selection and vi mode *)

vi_mode_recompute_selection(t) ==
    IF ~Has(t, "VI") THEN t
    ELSE [t EXCEPT !.sel = {IF is_empty(s) THEN s ELSE include_all(update(s, t.vi, "Left")) :
                              s \in t.sel}]

(* Clamp the vi cursor to the lines that are displayed. *)
ViInView(t) ==
    [t EXCEPT !.vi.line = Clamp(t.vi.line, -t.grid.offset, t.lines - 1 - t.grid.offset)]

scroll_display(t, scroll) ==
    LET s == [t EXCEPT !.grid = scroll_display_grid(t.grid, t.lines, scroll)]
        u == vi_mode_recompute_selection(ViInView(s))
    IN  IF t.grid.offset # u.grid.offset THEN mark_fully_damaged(u) ELSE u

scroll_to_point(t, p) ==
    LET top == -t.grid.offset
    IN  IF p.line < top THEN scroll_display(t, Delta(top - p.line))
        ELSE IF p.line >= top + t.lines THEN scroll_display(t, Delta(top + t.lines - 1 - p.line))
        ELSE t

toggle_vi_mode(t) ==
    IF Has(t, "VI") THEN Without(t, "VI")
    ELSE [With(t, "VI") EXCEPT
             !.vi = IF t.grid.cursor.line > t.lines - 1 - t.grid.offset
                    THEN Point(-t.grid.offset, 0) ELSE CursorPoint(t)]

(* ViModeCursor::motion, to any cell it can reach (see ViMotion), and
   Term::vi_goto_point: scroll there, then move. *)
vi_goto_point(t, p) == vi_mode_recompute_selection([scroll_to_point(t, p) EXCEPT !.vi = p])

vi_motion(t, p) == IF Has(t, "VI") THEN vi_goto_point(t, p) ELSE t

(* The selection after the lines of a region have moved. *)
Rotated(t, start, end, delta) ==
    UNION {rotate_selection(Dims(t), s, start, end, delta) : s \in t.sel}

Unless(sel, from, to) == {s \in sel : ~intersects_range(s, from, to)}

-----------------------------------------------------------------------------
(* Scrolling, the two screens, resizing *)

scroll_down_relative(t, origin, count) ==
    LET end   == t.region.end
        lines == MinOf(MinOf(count, end - t.region.start), end - origin)
        moves == origin <= t.vi.line /\ t.vi.line < end
    IN  mark_fully_damaged(WriteLines(
            [t EXCEPT !.sel = Rotated(t, origin, end, -lines),
                      !.vi.line = IF moves THEN MinOf(t.vi.line + lines, end - 1)
                                  ELSE t.vi.line],
            origin, end - 1))

scroll_up_relative(t, origin, count) ==
    LET end   == t.region.end
        lines == MinOf(count, end - t.region.start)
        grid  == scroll_up_grid(t.grid, origin, end, lines)
        top   == IF origin = 0 THEN -grid.offset ELSE origin
        moves == top <= t.vi.line /\ t.vi.line < end
    IN  mark_fully_damaged(WriteLines(
            [t EXCEPT !.sel = Rotated(t, origin, end, lines),
                      !.grid = grid,
                      !.vi.line = IF moves THEN MaxOf(t.vi.line - lines, top) ELSE t.vi.line],
            0, t.lines - 1))

scroll_up(t, lines) == scroll_up_relative(t, t.region.start, lines)
scroll_down(t, lines) == scroll_down_relative(t, t.region.start, lines)

insert_blank_lines(t, lines) ==
    LET origin == t.grid.cursor.line
    IN  IF t.region.start <= origin /\ origin < t.region.end
        THEN scroll_down_relative(t, origin, lines) ELSE t

delete_lines(t, count) ==
    LET origin == t.grid.cursor.line
        lines  == MinOf(t.lines - origin, count)
    IN  IF lines > 0 /\ t.region.start <= origin /\ origin < t.region.end
        THEN scroll_up_relative(t, origin, lines) ELSE t

(* Faulty variant: the keyboard modes are not exchanged with the screens. *)
swap_alt_KeepsKeyboard(t) ==
    LET s == IF Has(t, "ALT_SCREEN") THEN t
             ELSE [t EXCEPT !.inactive.cursor = t.grid.cursor, !.grid.saved = t.grid.cursor]
    IN  mark_fully_damaged(WriteLines(
          [s EXCEPT !.grid = s.inactive, !.inactive = s.grid, !.sel = NoSelection,
                    !.keyboard = s.inactive_keyboard, !.inactive_keyboard = s.keyboard,
                    !.mode = IF Has(t, "ALT_SCREEN") THEN s.mode \ {"ALT_SCREEN"}
                             ELSE s.mode \cup {"ALT_SCREEN"}],
          0, t.lines - 1))

(* The alternate screen inherits the cursor; each screen has its keyboard modes. *)
swap_alt(t) ==
    LET s == IF Has(t, "ALT_SCREEN") THEN t
             ELSE [t EXCEPT !.inactive.cursor = t.grid.cursor, !.grid.saved = t.grid.cursor]
        u == set_keyboard_mode([s EXCEPT !.keyboard = s.inactive_keyboard,
                                         !.inactive_keyboard = s.keyboard],
                               TopMode(s.inactive_keyboard), "Replace")
        v == IF Has(t, "ALT_SCREEN") THEN Without(u, "ALT_SCREEN") ELSE With(u, "ALT_SCREEN")
    IN  mark_fully_damaged(WriteLines(
          [v EXCEPT !.grid = v.inactive, !.inactive = v.grid, !.sel = NoSelection],
          0, t.lines - 1))

(* The watched cell is put back on the screen. *)
Resized(t, cols, lines, grid, inactive) ==
    LET delta == MinOf(MaxOf(lines - t.lines, MinOf(0, lines - t.grid.cursor.line - 1)),
                       t.grid.hist)
        s == [t EXCEPT !.cols = cols, !.lines = lines, !.grid = grid, !.inactive = inactive]
    IN  ViInView([s EXCEPT
          !.sel = IF cols # t.cols THEN NoSelection
                  ELSE Rotated(s, 0, MaxOf(lines, t.lines), -delta),
          !.tabs = IF cols # t.cols THEN resize_tabs(t.tabs, t.cols, cols) ELSE t.tabs,
          !.vi = Point(t.vi.line + delta, MinOf(t.vi.col, cols - 1)),
          !.region = [start |-> 0, end |-> lines],
          !.damage = damage_resize(cols, lines),
          !.cell = Point(0, 0), !.since = "written"])

(* The terminals a resize may lead to. *)
TermResize(t, cols, lines) ==
    LET alt == Has(t, "ALT_SCREEN")
    IN  IF cols = t.cols /\ lines = t.lines THEN {t}
        ELSE {Resized(t, cols, lines, g, i) :
                g \in resize_grid(t.grid, t, ~alt, cols, lines),
                i \in resize_grid(t.inactive, t, alt, cols, lines)}

(* Term::set_options. *)
set_options(t, config) ==
    LET s == [t EXCEPT !.config = config]
        u == IF Has(t, "ALT_SCREEN")
             THEN [s EXCEPT !.inactive = update_history(t.inactive, config.history)]
             ELSE [s EXCEPT !.grid = update_history(t.grid, config.history)]
        v == IF config.kitty = t.config.kitty THEN u
             ELSE [u EXCEPT !.keyboard = <<>>, !.inactive_keyboard = <<>>,
                            !.mode = u.mode \ KITTY_KEYBOARD_PROTOCOL]
    IN  mark_fully_damaged(v)

-----------------------------------------------------------------------------
(* Moving the cursor *)

MoveTo(t, line, col) == [t EXCEPT !.grid.cursor.line = line, !.grid.cursor.col = col]
MoveToCol(t, col) == [t EXCEPT !.grid.cursor.col = col]
NoWrap(t) == [t EXCEPT !.grid.cursor.wrap = FALSE]

goto(t, line, col) ==
    LET origin == Has(t, "ORIGIN")
        top    == IF origin THEN t.region.start ELSE 0
        bottom == IF origin THEN t.region.end - 1 ELSE t.lines - 1
    IN  NoWrap(damage_cursor(MoveTo(damage_cursor(t),
            MaxOf(MinOf(line + top, bottom), 0), MinOf(col, t.cols - 1))))

goto_line(t, line) == goto(t, line, t.grid.cursor.col)
goto_col(t, col) == goto(t, t.grid.cursor.line, col)
move_up(t, lines) == goto(t, t.grid.cursor.line - lines, t.grid.cursor.col)
move_down(t, lines) == goto(t, t.grid.cursor.line + lines, t.grid.cursor.col)
move_up_and_cr(t, lines) == goto(t, t.grid.cursor.line - lines, 0)
move_down_and_cr(t, lines) == goto(t, t.grid.cursor.line + lines, 0)

move_forward(t, cols) ==
    LET c   == t.grid.cursor
        col == MinOf(c.col + cols, t.cols - 1)
    IN  NoWrap(MoveToCol(damage_line(t, c.line, c.col, col), col))

move_backward(t, cols) ==
    LET c   == t.grid.cursor
        col == SaturatingSub(c.col, cols)
    IN  NoWrap(MoveToCol(damage_line(t, c.line, col, c.col), col))

backspace(t) ==
    LET c == t.grid.cursor
    IN  IF c.col = 0 THEN t
        ELSE damage_line(NoWrap(MoveToCol(t, c.col - 1)), c.line, c.col - 1, c.col)

carriage_return(t) ==
    NoWrap(MoveToCol(damage_line(t, t.grid.cursor.line, 0, t.grid.cursor.col), 0))

linefeed(t) ==
    LET next == t.grid.cursor.line + 1
    IN  IF next = t.region.end THEN scroll_up(t, 1)
        ELSE IF next < t.lines
        THEN damage_cursor(MoveTo(damage_cursor(t), next, t.grid.cursor.col))
        ELSE t

newline(t) ==
    LET Return(s) == IF Has(t, "LINE_FEED_NEW_LINE") THEN carriage_return(s) ELSE s
    IN  Return(linefeed(t))

reverse_index(t) ==
    IF t.grid.cursor.line = t.region.start THEN scroll_down(t, 1)
    ELSE damage_cursor(MoveTo(damage_cursor(t), MaxOf(t.grid.cursor.line - 1, 0),
                              t.grid.cursor.col))

(* The column of the next tab stop, or the end of the line. *)
NextTab(t, col) == Min({i \in col + 1..t.cols - 1 : i \in t.tabs} \cup {t.cols - 1})
PrevTab(t, col) == LET stops == {i \in 0..col - 1 : i \in t.tabs}
                   IN  IF stops = {} THEN col ELSE Max(stops)

Repeat(count, col, Step(_)) == FoldLeft(LAMBDA c, i : Step(c), col, [i \in 1..count |-> i])

(* Neither of the two clears a pending wrap. *)
move_forward_tabs(t, count) ==
    LET c   == t.grid.cursor
        col == Repeat(count, c.col, LAMBDA x : NextTab(t, x))
    IN  damage_line(MoveToCol(t, col), c.line, c.col, col)

move_backward_tabs(t, count) ==
    LET c   == t.grid.cursor
        col == Repeat(count, c.col, LAMBDA x : PrevTab(t, x))
    IN  damage_line(MoveToCol(t, col), c.line, col, c.col)

set_horizontal_tabstop(t) == [t EXCEPT !.tabs = t.tabs \cup {t.grid.cursor.col}]
clear_tabs(t, mode) ==
    [t EXCEPT !.tabs = IF mode = "Current" THEN t.tabs \ {t.grid.cursor.col} ELSE {}]

save_cursor_position(t) == [t EXCEPT !.grid.saved = t.grid.cursor]
restore_cursor_position(t) ==
    damage_cursor([damage_cursor(t) EXCEPT !.grid.cursor = t.grid.saved])

(* Faulty variant: the region may end below the screen. *)
set_scrolling_region_Unclamped(t, top, bottom) ==
    IF top >= bottom THEN t
    ELSE goto([t EXCEPT !.region = [start |-> top - 1, end |-> bottom]], 0, 0)

set_scrolling_region(t, top, bottom) ==
    IF top >= bottom THEN t
    ELSE goto([t EXCEPT !.region = [start |-> MinOf(top - 1, t.lines),
                                    end |-> MinOf(bottom, t.lines)]], 0, 0)

-----------------------------------------------------------------------------
(* Writing *)

(* Faulty variant: the line that is left is not damaged. *)
wrapline_WithoutDamage(t) ==
    LET c == t.grid.cursor
        s == IF c.line + 1 >= t.region.end THEN linefeed(t)
             ELSE MoveTo(t, c.line + 1, c.col)
    IN  IF Has(t, "LINE_WRAP") THEN damage_cursor(NoWrap(MoveToCol(s, 0))) ELSE t

wrapline(t) ==
    LET c == t.grid.cursor
        s == IF c.line + 1 >= t.region.end THEN linefeed(t)
             ELSE MoveTo(damage_cursor(t), c.line + 1, c.col)
    IN  IF Has(t, "LINE_WRAP") THEN damage_cursor(NoWrap(MoveToCol(s, 0))) ELSE t

(* `under` is what the cell held: overwriting a half of a wide character
   changes the other half. *)
write_at_cursor(t, under) ==
    LET c == t.grid.cursor
        s == Write(t, c.line, c.col, c.col)
    IN  IF under = "wide" /\ c.col < t.cols - 1 THEN Smudge(s, c.line, c.col + 1)
        ELSE IF under \in {"wide", "spacer"} /\ c.col > 0 THEN Smudge(s, c.line, c.col - 1)
        ELSE s

Advance(t) ==
    IF t.grid.cursor.col + 1 < t.cols THEN MoveToCol(t, t.grid.cursor.col + 1)
    ELSE [t EXCEPT !.grid.cursor.wrap = TRUE]

(* Term::input for a character of zero, one or two cells. *)
input_zerowidth(t, under) ==
    LET c   == t.grid.cursor
        col == IF c.wrap THEN c.col ELSE SaturatingSub(c.col, 1)
    IN  Smudge(t, c.line, IF under = "spacer" THEN SaturatingSub(col, 1) ELSE col)

(* Make room for `width` cells, by wrapping and in insert mode by shifting. *)
InputReady(t, width) ==
    LET Shifted(s) ==
            IF Has(s, "INSERT") /\ s.grid.cursor.col + width < s.cols
            THEN Write(s, s.grid.cursor.line, s.grid.cursor.col, s.cols - 1) ELSE s
    IN  Shifted(IF t.grid.cursor.wrap THEN wrapline(t) ELSE t)

input_narrow(t, under) == Advance(write_at_cursor(InputReady(t, 1), under))

(* A wide character that does not fit leaves a gap and goes to the next line. *)
input_wide(t, under) ==
    LET Fits(s) == s.grid.cursor.col + 1 < s.cols
        Spacer(s) == write_at_cursor(MoveToCol(s, s.grid.cursor.col + 1), under)
        Both(s) == Advance(Spacer(write_at_cursor(s, under)))
        Ready(s) == IF Fits(s) \/ Has(s, "LINE_WRAP")
                    THEN Both(IF Fits(s) THEN s ELSE wrapline(write_at_cursor(s, under)))
                    ELSE [s EXCEPT !.grid.cursor.wrap = TRUE]
    IN  Ready(InputReady(t, 2))

(* A tab is written to the cells it starts from; a pending wrap is a linebreak. *)
put_tab(t, count) ==
    LET c   == t.grid.cursor
        col == Repeat(count, c.col, LAMBDA x : NextTab(t, x))
    IN  IF c.wrap THEN wrapline(t) ELSE MoveToCol(Write(t, c.line, c.col, col), col)

decaln(t) == mark_fully_damaged(WriteLines(t, 0, t.lines - 1))

insert_blank(t, count) ==
    LET c == t.grid.cursor
    IN  Write(damage_line(t, c.line, 0, t.cols - 1), c.line, c.col, t.cols - 1)

delete_chars(t, count) ==
    LET c == t.grid.cursor
    IN  Write(damage_line(t, c.line, 0, t.cols - 1), c.line,
              MinOf(c.col, SaturatingSub(t.cols, count)), t.cols - 1)

erase_chars(t, count) ==
    LET c   == t.grid.cursor
        end == MinOf(c.col + count, t.cols)
    IN  Write(damage_line(t, c.line, c.col, end), c.line, c.col, end - 1)

clear_line(t, mode) ==
    LET c     == t.grid.cursor
        left  == IF mode = "Right" THEN c.col ELSE 0
        right == IF mode = "Left" THEN c.col ELSE t.cols - 1
        s     == Write(damage_line(t, c.line, left, right), c.line, left, right)
    IN  IF mode = "Right" /\ c.wrap THEN t
        ELSE [s EXCEPT !.sel = Unless(t.sel, c.line, c.line)]

ClearSaved(t) ==
    LET s == [t EXCEPT !.grid.hist = 0, !.grid.offset = 0]
    IN  IF t.grid.hist = 0 THEN t
        ELSE [s EXCEPT !.vi.line = line_clamp(Dims(s), "Cursor", t.vi.line),
                       !.sel = Unless(t.sel, -t.grid.hist, -1)]

(* The lines above are cleared only below line 1.  `used` is the number of
   lines up to the last one that is not empty, which Grid::clear_viewport
   scrolls into the scrollback. *)
clear_screen(t, mode, used) ==
    LET c    == t.grid.cursor
        all  == WriteLines(t, 0, t.lines - 1)
        grid == scroll_up_grid(t.grid, 0, t.lines, used)
        up   == SaturatingSub(grid.offset, t.grid.offset)
        scrolled == [all EXCEPT !.grid = grid]
    IN  mark_fully_damaged(
          CASE mode = "Above" ->
                 [Write(IF c.line > 1 THEN WriteLines(t, 0, c.line - 1) ELSE t, c.line, 0, c.col)
                    EXCEPT !.sel = Unless(t.sel, 0, c.line)]
            [] mode = "Below" ->
                 [WriteLines(Write(t, c.line, c.col, t.cols - 1), c.line + 1, t.lines - 1)
                    EXCEPT !.sel = Unless(t.sel, c.line, t.lines - 1)]
            [] mode = "All" /\ Has(t, "ALT_SCREEN") -> [all EXCEPT !.sel = NoSelection]
            [] mode = "All" /\ ~Has(t, "ALT_SCREEN") ->
                 [scrolled EXCEPT !.vi.line = line_clamp(Dims(scrolled), "Grid", t.vi.line - up),
                                  !.sel = NoSelection]
            [] mode = "Saved" -> ClearSaved(t))

deccolm(t) == mark_fully_damaged(WriteLines(set_scrolling_region(t, 1, t.lines), 0, t.lines - 1))

-----------------------------------------------------------------------------
(* Modes, attributes, colors, titles *)

ModeOf ==
    [UrgencyHints |-> "URGENCY_HINTS", ShowCursor |-> "SHOW_CURSOR", CursorKeys |-> "APP_CURSOR",
     ReportMouseClicks |-> "MOUSE_REPORT_CLICK", ReportCellMouseMotion |-> "MOUSE_DRAG",
     ReportAllMouseMotion |-> "MOUSE_MOTION", ReportFocusInOut |-> "FOCUS_IN_OUT",
     BracketedPaste |-> "BRACKETED_PASTE", SgrMouse |-> "SGR_MOUSE", Utf8Mouse |-> "UTF8_MOUSE",
     AlternateScroll |-> "ALTERNATE_SCROLL", LineWrap |-> "LINE_WRAP", Origin |-> "ORIGIN",
     SwapScreenAndSetRestoreCursor |-> "ALT_SCREEN"]

PrivateModes == DOMAIN ModeOf \cup {"ColumnMode", "BlinkingCursor", "SyncUpdate", "Unknown"}

(* cursor_style.get_or_insert(default) *)
StyleOf(t) == IF t.style = {} THEN DEFAULT_STYLE ELSE CHOOSE s \in t.style : TRUE
SetBlinking(t, on) == [t EXCEPT !.style = {[StyleOf(t) EXCEPT !.blinking = on]}]

set_private_mode(t, mode) ==
    CASE mode = "SwapScreenAndSetRestoreCursor" -> IF Has(t, "ALT_SCREEN") THEN t ELSE swap_alt(t)
      [] mode \in {"ReportMouseClicks", "ReportCellMouseMotion", "ReportAllMouseMotion"} ->
           With([t EXCEPT !.mode = t.mode \ MOUSE_MODE], ModeOf[mode])
      [] mode = "SgrMouse" -> With(Without(t, "UTF8_MOUSE"), "SGR_MOUSE")
      [] mode = "Utf8Mouse" -> With(Without(t, "SGR_MOUSE"), "UTF8_MOUSE")
      [] mode = "Origin" -> goto(With(t, "ORIGIN"), 0, 0)
      [] mode = "ColumnMode" -> deccolm(t)
      [] mode = "BlinkingCursor" -> SetBlinking(t, TRUE)
      [] mode \in {"SyncUpdate", "Unknown"} -> t
      [] OTHER -> With(t, ModeOf[mode])

unset_private_mode(t, mode) ==
    CASE mode = "SwapScreenAndSetRestoreCursor" -> IF Has(t, "ALT_SCREEN") THEN swap_alt(t) ELSE t
      [] mode = "ColumnMode" -> deccolm(t)
      [] mode = "BlinkingCursor" -> SetBlinking(t, FALSE)
      [] mode \in {"SyncUpdate", "Unknown"} -> t
      [] OTHER -> Without(t, ModeOf[mode])

(* The answers to DECRQM. *)
ModeState(set) == IF set THEN "Set" ELSE "Reset"

report_private_mode(t, mode) ==
    CASE mode = "BlinkingCursor" -> ModeState(StyleOf(t).blinking)
      [] mode = "SyncUpdate" -> "Reset"
      [] mode \in {"ColumnMode", "Unknown"} -> "NotSupported"
      [] OTHER -> ModeState(Has(t, ModeOf[mode]))

(* Asking for the blinking sets the style. *)
ReportBlinking(t) == [t EXCEPT !.style = {StyleOf(t)}]

PublicMode == [Insert |-> "INSERT", LineFeedNewLine |-> "LINE_FEED_NEW_LINE"]
set_mode(t, mode) == With(t, PublicMode[mode])
unset_mode(t, mode) ==
    IF mode = "Insert" THEN mark_fully_damaged(Without(t, "INSERT")) ELSE Without(t, PublicMode[mode])
report_mode(t, mode) == ModeState(Has(t, PublicMode[mode]))

set_keypad_application_mode(t) == With(t, "APP_KEYPAD")
unset_keypad_application_mode(t) == Without(t, "APP_KEYPAD")
set_active_charset(t, index) == [t EXCEPT !.charset = index]
set_cursor_style(t, style) == [t EXCEPT !.style = style]
set_cursor_shape(t, shape) == [t EXCEPT !.style = {[StyleOf(t) EXCEPT !.shape = shape]}]

ALL_UNDERLINES == {"UNDERLINE", "DOUBLE_UNDERLINE", "UNDERCURL", "DOTTED_UNDERLINE",
                   "DASHED_UNDERLINE"}

(* Attributes that are set, and those that are taken back: an underline
   replaces any other, and one code takes back bold and dim together. *)
terminal_attribute(t, attr) ==
    LET flags == t.grid.cursor.template
    IN  [t EXCEPT !.grid.cursor.template =
           CASE attr = "Reset" -> {}
             [] attr \in ALL_UNDERLINES -> (flags \ ALL_UNDERLINES) \cup {attr}
             [] attr = "CancelUnderline" -> flags \ ALL_UNDERLINES
             [] attr = "CancelBoldDim" -> flags \ {"BOLD", "DIM"}
             [] attr = "CancelBold" -> flags \ {"BOLD"}
             [] OTHER -> flags \cup {attr}]

set_color(t, index, rgb) ==
    LET s == [t EXCEPT !.colors[index] = {rgb}]
    IN  IF index # "Cursor" /\ t.colors[index] # {rgb} THEN mark_fully_damaged(s) ELSE s
reset_color(t, index) ==
    LET s == [t EXCEPT !.colors[index] = {}]
    IN  IF index # "Cursor" /\ t.colors[index] # {} THEN mark_fully_damaged(s) ELSE s

set_title(t, title) == [t EXCEPT !.title = title]

push_title(t) ==
    LET kept == IF Len(t.titles) >= TITLE_STACK_MAX_DEPTH THEN Tail(t.titles) ELSE t.titles
    IN  [t EXCEPT !.titles = Append(kept, t.title)]

pop_title(t) ==
    IF t.titles = <<>> THEN t
    ELSE set_title([t EXCEPT !.titles = Front(t.titles)], Last(t.titles))

(* The answers to status requests. *)
device_status(t, arg) ==
    CASE arg = 5 -> <<0>>
      [] arg = 6 -> <<t.grid.cursor.line + 1, t.grid.cursor.col + 1>>
      [] OTHER -> <<>>
text_area_size_chars(t) == <<t.lines, t.cols>>

reset_state(t) ==
    LET s == IF Has(t, "ALT_SCREEN") THEN [t EXCEPT !.grid = t.inactive, !.inactive = t.grid] ELSE t
    IN  mark_fully_damaged(WriteLines(
          [s EXCEPT !.grid = reset_grid(s.grid), !.inactive = reset_grid(s.inactive),
                    !.region = [start |-> 0, end |-> t.lines], !.tabs = TabStops(t.cols),
                    !.titles = <<>>, !.title = {}, !.sel = NoSelection, !.vi = Point(0, 0),
                    !.keyboard = <<>>, !.inactive_keyboard = <<>>, !.style = {}, !.charset = 0,
                    !.mode = (t.mode \cap {"VI"}) \cup DefaultMode],
          0, t.lines - 1))

(* Action::ToggleAutoScroll: the flag of the display, and that of the grid shown. *)
ToggleAutoScroll(t) ==
    [t EXCEPT !.display_auto = ~t.display_auto, !.grid.auto = ~t.display_auto]

=============================================================================
