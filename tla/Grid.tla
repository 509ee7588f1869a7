--------------------------------- MODULE Grid ---------------------------------
(***************************************************************************)
(* One terminal grid: scrolling, the scrollback limit, the display offset  *)
(* and line resizing (velacritty_terminal/src/grid/mod.rs and the line     *)
(* half of grid/resize.rs), on top of the ring buffer of Storage.          *)
(*                                                                         *)
(* `grid` is a record of the fields of `struct Grid` that these functions  *)
(* touch; of the two cursors only the line is kept.  Every function is an  *)
(* operator from grid to grid, as it is a method of the code, so that the  *)
(* functions that call each other compose; every entry point is an action. *)
(* Columns, cell contents and the cursors' templates are abstracted away:  *)
(* a row is one opaque value.                                              *)
(***************************************************************************)
EXTENDS Storage

CONSTANTS
    MaxLines,         \* bound on the number of screen lines
    MaxScrollLimit,   \* bound on max_scroll_limit (scrolling.history)
    RegionStarts      \* lines at which a scrolling region may start

ASSUME GridAssumption ==
    /\ MaxLines \in Nat \ {0}
    /\ MaxScrollLimit \in Nat
    /\ RegionStarts \subseteq Nat

VARIABLE grid

history_size(g) == SaturatingSub(g.raw.len, g.lines)

Lines(g) == 0 .. g.lines - 1

-----------------------------------------------------------------------------
(* The functions of impl Grid *)

new(lines, limit) ==
    [raw |-> with_capacity(lines), lines |-> lines, display_offset |-> 0,
     max_scroll_limit |-> limit, auto_scroll_enabled |-> TRUE,
     cursor |-> 0, saved_cursor |-> 0]

update_history(g, size) ==
    [g EXCEPT !.raw = IF history_size(g) > size
                      THEN shrink_lines(g.raw, history_size(g) - size) ELSE g.raw,
              !.display_offset = MinOf(g.display_offset, size),
              !.max_scroll_limit = size]

scroll_delta(g, count) ==
    [g EXCEPT !.display_offset =
        MinOf(MaxOf(g.display_offset + count, 0), history_size(g))]
scroll_page_up(g) ==
    [g EXCEPT !.display_offset = MinOf(g.display_offset + g.lines, history_size(g))]
scroll_page_down(g) ==
    [g EXCEPT !.display_offset = SaturatingSub(g.display_offset, g.lines)]
scroll_top(g) == [g EXCEPT !.display_offset = history_size(g)]
scroll_bottom(g) == [g EXCEPT !.display_offset = 0]

increase_scroll_limit(g, count) ==
    LET n == MinOf(count, g.max_scroll_limit - history_size(g))
    IN  IF n # 0 THEN [g EXCEPT !.raw = initialize(g.raw, n)] ELSE g

decrease_scroll_limit(g, count) ==
    LET n == MinOf(count, history_size(g))
        t == [g EXCEPT !.raw = shrink_lines(g.raw, n)]
    IN  IF n # 0
        THEN [t EXCEPT !.display_offset = MinOf(g.display_offset, history_size(t))]
        ELSE g

(* Rotate the whole ring (no scrollback) or swap rows within the region. *)
scroll_down_raw(g, start, end, positions) ==
    IF end - start <= positions THEN ResetRows(g.raw, start, end)
    ELSE IF g.max_scroll_limit = 0
    THEN LET fixed   == SwapUpwards(g.raw, end - positions, g.lines - positions, positions)
             rotated == ResetRows(rotate_down(fixed, positions), 0, positions)
         IN  SwapUpwards(rotated, 0, start, positions)
    ELSE ResetRows(SwapDownwards(g.raw, start + positions, end, positions),
                   start, start + positions)

scroll_down(g, start, end, positions) ==
    [g EXCEPT !.raw = scroll_down_raw(g, start, end, positions)]

(* Faulty variant: only a scrolled-back view is kept, auto-scroll is not looked at. *)
scrolled_offset_IgnoresAutoScroll(g, positions) ==
    IF g.display_offset # 0
    THEN MinOf(g.display_offset + positions, g.max_scroll_limit)
    ELSE g.display_offset

(* The offset moves with the text unless the view is pinned to the bottom. *)
scrolled_offset(g, positions) ==
    IF g.display_offset # 0 \/ ~g.auto_scroll_enabled
    THEN MinOf(g.display_offset + positions, g.max_scroll_limit)
    ELSE g.display_offset

(* Region at the top of the screen: its first lines become scrollback. *)
rotate_up(g, end, positions) ==
    LET t == increase_scroll_limit(g, positions)
    IN  SwapDownwards(rotate(t.raw, -positions), end, g.lines, positions)

(* Faulty variant: the lines scrolled in are not cleared. *)
scroll_up_WithoutClearing(g, start, end, positions) ==
    IF end - start <= positions /\ start # 0
    THEN [g EXCEPT !.raw = ResetRows(g.raw, start, end)]
    ELSE [g EXCEPT !.display_offset = scrolled_offset(g, positions),
                   !.raw = IF start = 0 THEN rotate_up(g, end, positions)
                           ELSE SwapUpwards(g.raw, start, end - positions, positions)]

scroll_up(g, start, end, positions) ==
    IF end - start <= positions /\ start # 0
    THEN [g EXCEPT !.raw = ResetRows(g.raw, start, end)]
    ELSE LET moved == IF start = 0 THEN rotate_up(g, end, positions)
                      ELSE SwapUpwards(g.raw, start, end - positions, positions)
         IN  [g EXCEPT !.display_offset = scrolled_offset(g, positions),
                       !.raw = ResetRows(moved, end - positions, end)]

(* Where the backward search of clear_viewport stops: at the last line that
   is not empty; if there is none, one line into the scrollback, or on line 0
   when there is no scrollback to step into. *)
viewport_end(g) ==
    LET used == {i \in Lines(g) : Row(g.raw, i) # Blank}
    IN  IF used # {} THEN 1 + CHOOSE i \in used : \A j \in used : j <= i
        ELSE IF history_size(g) > 0 THEN 0 ELSE 1

clear_viewport(g) ==
    LET positions == viewport_end(g)
        t == scroll_up(g, 0, g.lines, positions)
    IN  [t EXCEPT !.raw = ResetRows(t.raw, 0, g.lines - positions)]

clear_history(g) ==
    [g EXCEPT !.raw = shrink_lines(g.raw, history_size(g)), !.display_offset = 0]

reset(g) ==
    LET t == clear_history(g)
    IN  [t EXCEPT !.cursor = 0, !.saved_cursor = 0, !.display_offset = 0,
                  !.raw = ResetRows(t.raw, 0 - history_size(t), t.lines)]

reset_region(g, start, end) == [g EXCEPT !.raw = ResetRows(g.raw, start, end)]

(* Lines are added at the top first, then scrolled out of sight again for
   every line that the scrollback cannot provide. *)
grow_lines(g, target) ==
    LET added == target - g.lines
        t     == [g EXCEPT !.raw = grow_visible_lines(g.raw, target), !.lines = target]
        from_history == MinOf(history_size(t), added)
        u     == IF from_history # added
                 THEN scroll_up(t, 0, target, added - from_history) ELSE t
        v     == [u EXCEPT !.saved_cursor = g.saved_cursor + from_history,
                           !.cursor = g.cursor + from_history,
                           !.display_offset = SaturatingSub(u.display_offset, added)]
    IN  decrease_scroll_limit(v, added)

(* Faulty variant: the saved cursor is not clamped to the smaller screen. *)
shrink_grid_lines_SavedCursor(g, target) ==
    LET required == SaturatingSub(g.cursor + 1, target)
        t == IF required > 0 THEN scroll_up(g, 0, g.lines, required) ELSE g
    IN  [t EXCEPT !.cursor = MinOf(g.cursor, target - 1),
                  !.raw = shrink_visible_lines(rotate(t.raw, g.lines - target), target),
                  !.lines = target]

(* Faulty variant: the cursor is clamped and its row not scrolled along. *)
shrink_grid_lines_WithoutScrolling(g, target) ==
    [g EXCEPT !.cursor = MinOf(g.cursor, target - 1),
              !.saved_cursor = MinOf(g.saved_cursor, target - 1),
              !.raw = shrink_visible_lines(rotate(g.raw, g.lines - target), target),
              !.lines = target]

shrink_grid_lines(g, target) ==
    LET required == SaturatingSub(g.cursor + 1, target)
        t == IF required > 0 THEN scroll_up(g, 0, g.lines, required) ELSE g
    IN  [t EXCEPT !.cursor = MinOf(g.cursor, target - 1),
                  !.saved_cursor = MinOf(g.saved_cursor, target - 1),
                  !.raw = shrink_visible_lines(rotate(t.raw, g.lines - target), target),
                  !.lines = target]

resize(g, lines) ==
    IF g.lines < lines THEN grow_lines(g, lines)
    ELSE IF g.lines > lines THEN shrink_grid_lines(g, lines)
    ELSE g

-----------------------------------------------------------------------------
(* The state machine: any sequence of calls that Term makes *)

Init == \E lines \in 1..MaxLines, limit \in 0..MaxScrollLimit : grid = new(lines, limit)

(* Term prints into a line of the screen. *)
Write(line, row) == grid' = [grid EXCEPT !.raw = SetRow(grid.raw, line, row)]

(* Term::scroll_up_relative clamps the count to the scrolling region. *)
ScrollUp(start, end, positions) == grid' = scroll_up(grid, start, end, positions)
ScrollDown(start, end, positions) == grid' = scroll_down(grid, start, end, positions)

ScrollDisplay ==
    \/ \E count \in {-1, 1} : grid' = scroll_delta(grid, count)
    \/ grid' = scroll_page_up(grid)
    \/ grid' = scroll_page_down(grid)
    \/ grid' = scroll_top(grid)
    \/ grid' = scroll_bottom(grid)

ClearViewport == grid' = clear_viewport(grid)
ClearHistory == grid' = clear_history(grid)
Reset == grid' = reset(grid)
ResetRegion(start, end) == grid' = reset_region(grid, start, end)
UpdateHistory(size) == grid' = update_history(grid, size)
Resize(lines) == grid' = resize(grid, lines)
SetAutoScroll(enabled) == grid' = [grid EXCEPT !.auto_scroll_enabled = enabled]
MoveCursor(line) == grid' = [grid EXCEPT !.cursor = line]
SaveCursor == grid' = [grid EXCEPT !.saved_cursor = grid.cursor]

Scroll ==
    \E start \in RegionStarts, end \in 1..grid.lines :
      /\ start < end
      /\ \E positions \in 1..grid.lines :
            \/ (start = 0 => positions <= end) /\ ScrollUp(start, end, positions)
            \/ ScrollDown(start, end, positions)

Next ==
    \/ \E line \in Lines(grid), row \in Rows : Write(line, row)
    \/ Scroll
    \/ ScrollDisplay
    \/ ClearViewport
    \/ ClearHistory
    \/ Reset
    \/ \E start \in Lines(grid), end \in 1..grid.lines : ResetRegion(start, end)
    \/ \E size \in 0..MaxScrollLimit : UpdateHistory(size)
    \/ \E lines \in 1..MaxLines : Resize(lines)
    \/ \E enabled \in BOOLEAN : SetAutoScroll(enabled)
    \/ \E line \in Lines(grid) : MoveCursor(line)
    \/ SaveCursor

Spec == Init /\ [][Next]_grid

-----------------------------------------------------------------------------
(* Properties *)

StorageType ==
    [inner : Seq(Rows), zero : Nat, visible_lines : Nat, len : Nat]

GridType ==
    [raw : StorageType, lines : Nat, display_offset : Nat, max_scroll_limit : Nat,
     auto_scroll_enabled : BOOLEAN, cursor : Nat, saved_cursor : Nat]

(* The ring is well formed: the offset is a slot and every active line has one. *)
StorageOK(s) ==
    /\ s \in StorageType
    /\ s.zero < Len(s.inner)
    /\ 1 <= s.visible_lines
    /\ s.visible_lines <= s.len
    /\ s.len <= Len(s.inner)

GridOK(g) ==
    /\ g \in GridType
    /\ StorageOK(g.raw)
    /\ g.raw.visible_lines = g.lines
    /\ g.raw.len <= g.lines + g.max_scroll_limit
    /\ g.display_offset <= g.max_scroll_limit
    /\ g.cursor < g.lines
    /\ g.saved_cursor < g.lines

(* Type invariant and index safety of the grid: whatever sequence of scrolls,
   resizes, history changes and clears is made, every line that can be asked
   for lies in an allocated slot (the assertions of Storage::compute_index),
   the scrollback and the display offset stay within the configured limit
   (Grid::increase_scroll_limit subtracts them), and both cursors stay on the
   screen across resizes. *)
InBounds == GridOK(grid)

(* The rows shown to the user: the screen moved up by the display offset. *)
Displayed(g) == [i \in Lines(g) |-> Row(g.raw, i - g.display_offset)]

(* "If the displayed region isn't at the bottom of the screen, it stays
   stationary while more text is emitted" (Grid::display_offset), and with
   auto-scroll off it also does at the bottom: a scroll of the whole screen
   shows the same rows before and after, as long as the limit leaves room. *)
ViewStationary ==
    [][\A positions \in 1..grid.lines :
          /\ grid.display_offset # 0 \/ ~grid.auto_scroll_enabled
          /\ grid.display_offset <= history_size(grid)
          /\ grid.display_offset + positions <= grid.max_scroll_limit
          /\ ScrollUp(0, grid.lines, positions)
          => Displayed(grid') = Displayed(grid)]_grid

(* Resizing the screen never moves the cursor off the row it is on, however
   much of the screen is cut off or refilled from the scrollback. *)
CursorRowKept ==
    [][(grid'.lines # grid.lines /\ Resize(grid'.lines)) =>
          Row(grid'.raw, grid'.cursor) = Row(grid.raw, grid.cursor)]_grid

(* "both `self.zero` and `requested` are always smaller than
   `self.inner.len()`" (Storage::compute_index, which also asserts that the
   line is an active one): the lines that Grid::display_iter walks, from
   -display_offset, are lines of the grid. *)
DisplayWithinHistory == grid.display_offset <= history_size(grid)

(* The same, kept by every operation but the one that breaks it: clearing or
   shrinking the history, resizing, scrolling the view and scrolling a region
   that begins at the top never leave the view above the oldest line
   (update_history, clear_history, shrink_lines, scroll_display and the
   display_offset that scroll_up raises). *)
OffsetFollowsHistory ==
    [][DisplayWithinHistory =>
         \/ DisplayWithinHistory'
         \/ \E start \in RegionStarts \ {0}, end, positions \in 1..grid.lines :
              start < end /\ ScrollUp(start, end, positions)]_grid

(* A user who has scrolled back keeps reading the same rows, and never rows that
   do not exist, through all that is done to the grid meanwhile: the display
   offset follows the history (scroll_up, clear_history, update_history, resize). *)
ViewKept == OffsetFollowsHistory /\ ViewStationary

=============================================================================
