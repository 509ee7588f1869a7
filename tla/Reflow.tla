-------------------------------- MODULE Reflow --------------------------------
(***************************************************************************)
(* Changing the number of columns (the column half of                      *)
(* velacritty_terminal/src/grid/resize.rs) and the row operations it is    *)
(* made of (grid/row.rs).                                                  *)
(*                                                                         *)
(* A row is its cells and whether the last one carries WRAPLINE.  A cell   *)
(* is its character, Wide for the first half of a wide one, Spacer for the *)
(* second, Leading for the gap left where a wide one did not fit.  A grid  *)
(* is a record: rows from the top of the scrollback to the bottom of the   *)
(* screen, lines on the screen, columns, the display offset, the           *)
(* scrollback limit and the cursors (line, col, needs_wrap).               *)
(***************************************************************************)
EXTENDS Points, Sequences, SequencesExt, FiniteSetsExt

Empty == " "
Wide == "wide"
Spacer == "spacer"
Leading == "leading"

Blanks(n) == [k \in 1..n |-> Empty]
RowOf(cells, wrap) == [cells |-> cells, wrap |-> wrap]

(* Row::is_clear; a WRAPLINE flag is content. *)
is_clear(row) == ~row.wrap /\ \A k \in DOMAIN row.cells : row.cells[k] = Empty

(* Cells and flag together: the flag goes with the last cell. *)
front_split_off(row, at) ==
    [front |-> SubSeq(row.cells, 1, at),
     front_wrap |-> row.wrap /\ at = Len(row.cells),
     rest |-> RowOf(SubSeq(row.cells, at + 1, Len(row.cells)), row.wrap /\ at < Len(row.cells))]

(* What shrinking a row cuts off, up to its last cell that is not empty. *)
ShrunkOff(row, columns) ==
    LET cut  == SubSeq(row.cells, columns + 1, Len(row.cells))
        used == {k \in DOMAIN cut : cut[k] # Empty \/ (row.wrap /\ k = Len(cut))}
    IN  RowOf(SubSeq(cut, 1, IF used = {} THEN 0 ELSE Max(used)),
              row.wrap /\ Len(cut) > 0)

BufferLine(g) == g.lines - g.cursor.line - 1

(* A pending wrap is turned into a cursor to the right of the last column. *)
UnwrapCursor(g, reflow) ==
    IF g.cursor.needs_wrap /\ reflow
    THEN [g EXCEPT !.cursor.needs_wrap = FALSE, !.cursor.col = g.cursor.col + 1] ELSE g

-----------------------------------------------------------------------------
(* Growing: `done` are the rows handled so far, from the top *)

(* The row joined to the wrapped one above it: `upper` as it becomes, `rest`
   what is left of the row, `wrapped` how many cells moved up. *)
PullUp(upper, row, columns) ==
    LET base  == IF Last(upper.cells) = Leading THEN Front(upper.cells) ELSE upper.cells
        room  == columns - Len(base)
        len   == MinOf(Len(row.cells), room)
        split == IF row.cells[len] = Wide THEN front_split_off(row, len - 1)
                                          ELSE front_split_off(row, len)
    IN  [upper |-> RowOf(base \o split.front
                           \o (IF row.cells[len] = Wide THEN <<Leading>> ELSE <<>>),
                         split.front_wrap),
         rest |-> split.rest,
         wrapped |-> IF row.cells[len] = Wide THEN room - 1 ELSE room]

(* The cursor when its row has moved up by `wrapped` cells. *)
PulledCursor(g, pulled, columns) ==
    LET dims   == [cols |-> columns, lines |-> g.lines, hist |-> 0]
        At(p, clamp) == [line |-> p.line, col |-> p.col,
                         needs_wrap |-> g.cursor.needs_wrap \/ clamp]
        Clamped(target) == IF target.col = 0 /\ is_clear(pulled.rest)
                           THEN At(sub(dims, "Cursor", target, 1), TRUE)
                           ELSE At(target, FALSE)
    IN  Clamped(sub(dims, "Cursor", Point(g.cursor.line, g.cursor.col), pulled.wrapped))

PushWrapped(done, pulled) ==
    Append([done EXCEPT ![Len(done)] = [pulled.upper EXCEPT !.wrap = TRUE]], pulled.rest)
DropRest(done, pulled) == [done EXCEPT ![Len(done)] = pulled.upper]

(* A row moved up into the one above; `cursor` where the cursor goes with it. *)
Pulled(g, pulled, cursor, i) ==
    LET clear == is_clear(pulled.rest)
        moved == [g EXCEPT !.cursor.col = cursor.col,
                           !.cursor.needs_wrap = cursor.needs_wrap]
        delta == g.cursor.line - cursor.line
    IN  IF i = BufferLine(g)
        THEN IF delta # 0 /\ clear
             THEN [moved EXCEPT !.done = DropRest(g.done, pulled)]
             ELSE [moved EXCEPT !.done = PushWrapped(g.done, pulled),
                                !.line_delta = g.line_delta + delta]
        ELSE IF clear
        THEN [g EXCEPT !.done = DropRest(g.done, pulled),
                       !.offset = IF i < g.offset THEN g.offset - 1 ELSE g.offset,
                       !.cursor.line = IF i < BufferLine(g) THEN g.cursor.line + 1
                                       ELSE g.cursor.line]
        ELSE [g EXCEPT !.done = PushWrapped(g.done, pulled)]

(* One row of the loop of grow_columns; i counts rows from the bottom. *)
grow_row(g, row, i, columns) ==
    LET upper == Last(g.done)
        Join(pulled) == Pulled(g, pulled, PulledCursor(g, pulled, columns), i)
    IN  IF g.done = <<>> \/ ~(upper.wrap /\ Len(upper.cells) < columns)
        THEN [g EXCEPT !.done = Append(g.done, row)]
        ELSE Join(PullUp(upper, row, columns))

(* At least the screen is filled. *)
FillViewport(g, columns) ==
    LET missing == g.lines - Len(g.done)
    IN  IF missing <= 0 THEN g
        ELSE [g EXCEPT !.cursor.line = MaxOf(g.cursor.line - missing, 0),
                       !.done = g.done \o [k \in 1..missing |-> RowOf(Blanks(columns), FALSE)]]

(* Lines are cut off below the cursor, or the cursor moves up instead. *)
PullDown(g) ==
    LET available == MinOf(BufferLine(g), Len(g.done) - g.lines)
        overflow  == SaturatingSub(g.line_delta, available)
    IN  IF g.line_delta = 0 THEN g
        ELSE [g EXCEPT !.done = SubSeq(g.done, 1, Len(g.done) + overflow - g.line_delta),
                       !.cursor.line = MaxOf(g.cursor.line - overflow, 0)]

GrowRow(row, columns) ==
    RowOf(row.cells \o Blanks(columns - Len(row.cells)), row.wrap /\ Len(row.cells) = columns)

Begin(g, columns, reflow) ==
    LET t == UnwrapCursor(g, reflow)
    IN  [rows |-> t.rows, lines |-> t.lines, cursor |-> t.cursor, saved |-> t.saved,
         offset |-> t.offset, limit |-> t.limit, columns |-> columns,
         done |-> <<>>, line_delta |-> 0]

Finish(g, rows) ==
    [rows |-> rows, lines |-> g.lines, cursor |-> g.cursor, saved |-> g.saved,
     offset |-> MinOf(g.offset, Len(rows) - g.lines), limit |-> g.limit,
     columns |-> g.columns]

RowsWithIndex(g) ==
    [k \in 1..Len(g.rows) |-> [row |-> g.rows[k], i |-> Len(g.rows) - k]]

grow_columns(g, reflow, columns) ==
    LET begin == Begin(g, columns, reflow)
        joined == FoldLeft(LAMBDA acc, r : grow_row(acc, r.row, r.i, columns),
                           begin, RowsWithIndex(g))
        kept  == [begin EXCEPT !.done = g.rows]
        Widened(t) == Finish(t, [k \in DOMAIN t.done |-> GrowRow(t.done[k], columns)])
    IN  Widened(PullDown(FillViewport(IF reflow THEN joined ELSE kept, columns)))

-----------------------------------------------------------------------------
(* Shrinking: `carry` are the cells cut off the row above *)

(* A wide character that would straddle the cut moves down whole, and the gap
   left for one at the end of the cut is removed; `last` when nothing else is
   left to move down. *)
CutRow(row, columns) ==
    LET off    == ShrunkOff(row, columns)
        keep   == SubSeq(row.cells, 1, MinOf(columns, Len(row.cells)))
        wide   == Len(keep) >= columns /\ keep[columns] = Wide
        upper  == IF wide THEN [keep EXCEPT ![columns] = Leading] ELSE keep
        Gap(moved) == moved # <<>> /\ Last(moved) = Leading
        Cut(moved) ==
            [upper |-> upper,
             last |-> Gap(moved) /\ Len(moved) = 1,
             moved |-> IF Gap(moved) THEN RowOf(Front(moved), TRUE)
                                     ELSE RowOf(moved, off.wrap)]
    IN  Cut(IF wide THEN <<Wide>> \o off.cells ELSE off.cells)

PushUpper(g, cells) == [g EXCEPT !.done = Append(g.done, RowOf(cells, TRUE))]

(* The rest of the row becomes a row of its own, and the cursor follows. *)
NewRow(g, i, columns) ==
    LET at  == BufferLine(g)
        col == g.cursor.col
    IN  [g EXCEPT !.cursor.line = IF (i = at /\ col < columns) \/ i < at
                                  THEN MaxOf(g.cursor.line - 1, 0) ELSE g.cursor.line,
                  !.cursor.col = IF i = at /\ col >= columns THEN col - columns ELSE col,
                  !.offset = IF i < g.offset THEN g.offset + 1 ELSE g.offset]

(* Faulty variant: what is cut off a wrapped row starts a row of its own,
   instead of being put in front of the row below it. *)
CarriesOver_Never(cut, i, columns) == FALSE

(* Whether the cells cut off are put in front of the row below. *)
CarriesOver(cut, i, columns) ==
    cut.moved.cells # <<>> /\ cut.moved.wrap /\ i >= 1 /\ Len(cut.moved.cells) < columns

RECURSIVE shrink_row(_, _, _, _, _)
shrink_row(g, row, i, columns, reflow) ==
    LET off  == ShrunkOff(row, columns)
        fits == off.cells = <<>> \/ ~reflow
        spill == reflow /\ i = BufferLine(g) /\ g.cursor.col > columns
        Padded(rest) == RowOf(rest.cells \o Blanks(columns - Len(rest.cells)),
                              rest.wrap /\ Len(rest.cells) >= columns)
        Split(cut) ==
            LET t == PushUpper(g, cut.upper)
            IN  IF cut.last THEN t
                ELSE IF CarriesOver(cut, i, columns)
                THEN [t EXCEPT !.carry = cut.moved.cells]
                ELSE shrink_row(NewRow(t, i, columns), Padded(cut.moved), i, columns, reflow)
    IN  IF fits /\ ~spill
        THEN [g EXCEPT !.done = Append(g.done,
                RowOf(SubSeq(row.cells, 1, MinOf(columns, Len(row.cells))),
                      row.wrap /\ Len(row.cells) <= columns))]
        ELSE Split(CutRow(row, columns))

(* The cells carried over come in front of the row, and push its cursor right. *)
shrink_carry(g, row, i, columns, reflow) ==
    LET shift == IF i = BufferLine(g) THEN Len(g.carry) ELSE 0
    IN  shrink_row([g EXCEPT !.carry = <<>>, !.cursor.col = g.cursor.col + shift],
                   RowOf(g.carry \o row.cells, row.wrap), i, columns, reflow)

(* The cursor of the shrunk grid, back inside its columns. *)
ShrunkCursor(g, reflow, columns) ==
    LET c    == g.cursor
        dims == [cols |-> columns, lines |-> g.lines, hist |-> Len(g.rows) - g.lines]
        row  == g.rows[Len(g.rows) - g.lines + c.line + 1]
        p    == grid_clamp(dims, "Cursor", Point(c.line, c.col))
    IN  IF ~reflow THEN [c EXCEPT !.col = MinOf(c.col, columns - 1)]
        ELSE IF c.col = columns /\ ~row.wrap
        THEN [c EXCEPT !.needs_wrap = TRUE, !.col = c.col - 1]
        ELSE [c EXCEPT !.line = p.line, !.col = p.col]

shrink_columns(g, reflow, columns) ==
    LET start == [carry |-> <<>>] @@ Begin(g, columns, reflow)
        total(rows) == MinOf(Len(rows), g.limit + g.lines)
        Newest(rows) == SubSeq(rows, Len(rows) - total(rows) + 1, Len(rows))
        Within(t) == [t EXCEPT !.cursor = ShrunkCursor(t, reflow, columns),
                               !.saved.col = MinOf(t.saved.col, columns - 1)]
        Trimmed(t) == Within(Finish(t, Newest(t.done)))
    IN  Trimmed(FoldLeft(LAMBDA acc, r : shrink_carry(acc, r.row, r.i, columns, reflow),
                         start, RowsWithIndex(g)))

(* Grid::resize, columns only. *)
resize_columns(g, reflow, columns) ==
    IF g.columns < columns THEN grow_columns(g, reflow, columns)
    ELSE IF g.columns > columns THEN shrink_columns(g, reflow, columns)
    ELSE g

=============================================================================
