----------------------------- MODULE MCAlgorithms -----------------------------
(***************************************************************************)
(* The algorithms of the terminal on all small inputs: a behaviour starts  *)
(* from one input, and the laws below say what the algorithms make of it.  *)
(***************************************************************************)
EXTENDS Storage, RegexSearch, ViMotion, Selection, Reflow

CONSTANTS
    MaxRows,      \* bound on the rows of a ring
    TextSizes,    \* sizes of texts: columns, screen lines, lines of scrollback
    BlankSizes,   \* and of those of which only the size matters
    GridSizes,    \* sizes of grids to reflow: columns, screen lines, rows
    ReflowTo,     \* column counts they are reflowed to
    Pattern       \* what is searched for

VARIABLE input

SmallTexts == {<<3, 2, 0>>, <<2, 2, 1>>}
BlankTexts == {<<3, 2, 0>>, <<2, 3, 1>>}
SmallGrids == {<<2, 3, 4>>, <<3, 2, 3>>}
DoubleX == <<"x", "x">>

-----------------------------------------------------------------------------
(* Inputs *)

Rings ==
    {[kind |-> "ring",
      ring |-> [inner |-> [k \in 1..n |-> k], zero |-> 0, visible_lines |-> lines, len |-> n]] :
     <<n, lines>> \in {s \in (1..MaxRows) \X (1..MaxRows) : s[2] <= s[1]}}

Size(s) == [cols |-> s[1], lines |-> s[2], hist |-> s[3]]
Wrappable(d) == topmost_line(d)..bottommost_line(d) - 1

NarrowTexts(kind, d, alphabet) ==
    {[kind |-> kind,
      text |-> [cols |-> d.cols, lines |-> d.lines, hist |-> d.hist, offset |-> o,
                chars |-> c, width |-> [k \in Cells(d) |-> "narrow"], wraps |-> w]] :
     c \in [Cells(d) -> alphabet], o \in {0, d.hist}, w \in SUBSET Wrappable(d)}

(* The ways wide characters may lie in a text: a first half is followed by its
   second, and a gap at the end of a wrapped line by a first half. *)
WidthsOK(d, width, wraps) ==
    \A k \in Cells(d) :
      /\ width[k] = "wide" => k % d.cols < last_column(d) /\ width[k + 1] = "spacer"
      /\ width[k] = "spacer" => k % d.cols > 0 /\ width[k - 1] = "wide"
      /\ width[k] = "leading" =>
           /\ k % d.cols = last_column(d) /\ PointOf(d, k).line \in wraps
           /\ width[k + 1] = "wide"

WideTexts(d) ==
    UNION {{[kind |-> "wide",
             text |-> [cols |-> d.cols, lines |-> d.lines, hist |-> d.hist, offset |-> 0,
                       chars |-> [k \in Cells(d) |->
                                    IF width[k] = "wide" THEN "x"
                                    ELSE IF width[k] = "narrow" /\ k \in text THEN "x" ELSE " "],
                       width |-> width, wraps |-> wraps]] : text \in SUBSET Cells(d)} :
           <<width, wraps>> \in {s \in [Cells(d) -> {"narrow", "wide", "spacer", "leading"}]
                                        \X SUBSET Wrappable(d) : WidthsOK(d, s[1], s[2])}}

(* Rows of c cells, with x for any narrow character. *)
CellRows(c) ==
    {r \in [cells : [1..c -> {"x", Empty, Wide, Spacer, Leading}], wrap : BOOLEAN] :
       \A k \in 1..c :
         /\ r.cells[k] = Wide => k < c /\ r.cells[k + 1] = Spacer
         /\ r.cells[k] = Spacer => k > 1 /\ r.cells[k - 1] = Wide
         /\ r.cells[k] = Leading => k = c /\ r.wrap
         /\ r.wrap => r.cells[c] # Empty}

Screens(c, n) ==
    {rows \in [1..n -> CellRows(c)] :
       /\ ~rows[n].wrap
       /\ \A k \in 1..n - 1 : rows[k].cells[c] = Leading => rows[k + 1].cells[1] = Wide}

Cursors(c, lines) ==
    {p \in [line : 0..lines - 1, col : 0..c - 1, needs_wrap : BOOLEAN] :
       p.needs_wrap => p.col = c - 1}

Grids(c, lines, n) ==
    {[kind |-> "grid",
      grid |-> [rows |-> rows, lines |-> lines, columns |-> c, offset |-> 0, limit |-> 2 * n,
                cursor |-> cursor, saved |-> [line |-> 0, col |-> c - 1, needs_wrap |-> FALSE]]] :
     rows \in Screens(c, n), cursor \in Cursors(c, lines)}

Init ==
    \/ input \in Rings
    \/ \E s \in BlankSizes : input \in NarrowTexts("blank", Size(s), {" "})
    \/ \E s \in TextSizes :
         \/ input \in NarrowTexts("words", Size(s), {"x", " ", ","})
         \/ input \in NarrowTexts("brackets", Size(s), {"x", "(", ")"})
         \/ input \in NarrowTexts("pattern", Size(s), {"x", " "})
         \/ input \in WideTexts(Size(s))
    \/ \E s \in GridSizes : input \in Grids(s[1], s[2], s[3])

(* A ring goes through all its rotations; the other inputs stay as they are. *)
Rotate ==
    /\ input.kind = "ring"
    /\ \/ \E count \in {-1, 1} : input' = [input EXCEPT !.ring = rotate(input.ring, count)]
       \/ input' = [input EXCEPT !.ring = rotate_down(input.ring, 1)]
       \/ input' = [input EXCEPT !.ring = rezero(input.ring)]

Next == Rotate \/ UNCHANGED input

Spec == Init /\ [][Next]_input

-----------------------------------------------------------------------------
(* Storage *)

(* Storage::swap, one call at a time. *)
swap(s, a, b) ==
    LET x == compute_index(s, a) + 1
        y == compute_index(s, b) + 1
    IN  [s EXCEPT !.inner[x] = s.inner[y], !.inner[y] = s.inner[x]]

SwapEach(s, lines, by) == FoldLeft(LAMBDA t, i : swap(t, i, i + by), s, lines)

Ascending(from, to) == [k \in 1..MaxOf(to - from, 0) |-> from + k - 1]

(* The closed forms used for the swap loops of Grid::scroll_up and
   Grid::scroll_down are what the loops compute, row by row: ascending loops
   pull rows up, descending loops push them down, and the rows in the way are
   carried along in turn instead of being lost or duplicated. *)
SwapLoopsCorrect ==
    input.kind = "ring" =>
      LET ring == input.ring
      IN  \A from, to \in 0..ring.visible_lines, by \in 0..ring.visible_lines :
            /\ to + by <= ring.visible_lines =>
                  SwapUpwards(ring, from, to, by)
                    = SwapEach(ring, Ascending(from, to), by)
            /\ from - by >= 0 =>
                  SwapDownwards(ring, from, to, by)
                    = SwapEach(ring, Reverse(Ascending(from, to)), -by)

(* Storage::rezero and the index computation agree: moving the ring back to
   slot 0 changes where rows are stored and not which line shows which row. *)
RezeroKeepsLines ==
    input.kind = "ring" =>
      \A line \in 0..input.ring.visible_lines - 1 :
        Row(rezero(input.ring), line) = Row(input.ring, line)

(* What Grid takes for granted of the ring: rows are moved by loops of swaps
   without losing one, and a rotation is not seen from outside. *)
RingLaws == SwapLoopsCorrect /\ RezeroKeepsLines

-----------------------------------------------------------------------------
(* Searching *)

text == input.text
IsText == input.kind \in {"words", "brackets", "pattern", "wide"}

(* Point::add and Point::sub step in reading order (see Points): the search
   and vi code crosses line ends, the top of the scrollback and the end of the
   grid with them. *)
PointArithmetic == input.kind = "blank" => PointArithmeticOf(text)

(* Term::bracket_search finds partners: from the bracket it finds, it finds the
   bracket it came from, and the brackets between the two are balanced. *)
BracketsMatch ==
    input.kind = "brackets" =>
      \A p \in GridPoints(text) : \A q \in bracket_search(text, p) :
        /\ bracket_search(text, q) = {p}
        /\ Before(p, q) <=> Char(text, p) = "("

(* Where the pattern stands in the text: in one logical line. *)
Spelt(k) ==
    /\ \A j \in 1..Len(Pattern) : k + j - 1 \in Cells(text) /\ text.chars[k + j - 1] = Pattern[j]
    /\ \A j \in 1..Len(Pattern) - 1 : ~IsLinebreak(text, k + j - 1)

LineOf(k) == line_search_left(text, PointOf(text, k))

(* The occurrences taken from the left, of those that overlap the first. *)
Taken[k \in -1..Cardinality(Cells(text))] ==
    IF k <= 0 THEN IF k = 0 /\ Spelt(0) THEN {0} ELSE {}
    ELSE IF /\ k \in Cells(text) /\ Spelt(k)
            /\ \A j \in Taken[k - 1] : LineOf(j) # LineOf(k) \/ j + Len(Pattern) <= k
         THEN Taken[k - 1] \cup {k} ELSE Taken[k - 1]

(* Term::search_next goes to the nearest match: forwards the first one, of
   those taken from the left, that starts at or after the origin, backwards the
   last occurrence that starts at or before it, going round the ends of the
   scrollback; and it finds none only if there is none.  The iterator it uses
   stops in the right place although it starts and ends in the middle. *)
SearchNearest ==
    input.kind = "pattern" =>
      LET N == Cardinality(Cells(text))
          Nearest(S, D(_)) ==
              IF S = {} THEN {}
              ELSE LET k == CHOOSE k \in S : \A j \in S : D(k) <= D(j)
                   IN  {Match(text, k, k + Len(Pattern) - 1)}
      IN  \A n \in Cells(text) :
            \A d \in {"Right", "Left"} :
              search_next(text, Pattern, PointOf(text, n), d, "Left", {})
                = IF d = "Right"
                  THEN Nearest(Taken[N], LAMBDA k : (k - n) % N)
                  ELSE Nearest({k \in Cells(text) : Spelt(k)}, LAMBDA k : (n - k) % N)

-----------------------------------------------------------------------------
(* Vi mode *)

(* Every motion of ViModeCursor::motion ends in the grid, and so does every
   scroll: the code indexes the grid with the result, to expand a selection and
   to draw the cursor. *)
MotionsStayInGrid ==
    IsText =>
      \A p \in GridPoints(text) :
        /\ \A m \in ViMotions : motion(text, p, m) \in GridPoints(text)
        /\ \A lines \in -3..3 : vi_scroll(text, p, lines) \in GridPoints(text)

(* A word motion that does not end where it starts goes in its direction, and
   one that stays is at the end of the grid in that direction: pressing the key
   again never oscillates and never gets stuck in the middle. *)
WordMotionsProgress ==
    IsText =>
      \A p \in GridPoints(text) :
        LET Forward(q) == Before(p, q) \/ ~\E r \in GridPoints(text) :
                             Before(p, r) /\ ~IsSpacer(text, CellOf(text, r))
            Backward(q) == Before(q, p) \/ expand_wide(text, p, "Left") = Point(topmost_line(text), 0)
            Forwards  == {"SemanticRight", "SemanticRightEnd", "WordRight", "WordRightEnd"}
            Backwards == {"SemanticLeft", "SemanticLeftEnd", "WordLeft", "WordLeftEnd"}
        IN  \A m \in Forwards \cup Backwards : \A q \in {motion(text, p, m)} :
              IF m \in Forwards THEN Forward(q) ELSE Backward(q)

(* Walks through the text by points, brackets, matches and words arrive where
   they should, over line ends, wide characters and the ends of the scrollback,
   and never leave the grid (index.rs, term/search.rs, vi_mode.rs). *)
NavigationLaws ==
    PointArithmetic /\ BracketsMatch /\ SearchNearest /\ MotionsStayInGrid /\ WordMotionsProgress

-----------------------------------------------------------------------------
(* Selections *)

Sides == {"Left", "Right"}
Selections(ty, t) ==
    {update(Selection(ty, p, side), q, other) :
       p \in GridPoints(t), q \in GridPoints(t), side \in Sides, other \in Sides}
Selected(t, s) == {p \in GridPoints(t) : \E r \in to_range(t, s) : contains(r, p)}

(* The cells a selection covers completely, of those between its two ends. *)
Covered(t, s) ==
    {p \in GridPoints(t) :
       /\ UpTo(Upper(s).point, p) /\ UpTo(p, Lower(s).point)
       /\ p = Upper(s).point => Upper(s).side = "Left"
       /\ p = Lower(s).point => Lower(s).side = "Right"}

(* Selection::to_range of a simple selection: of two ends in different cells,
   the range is made of the cells that are completely covered.  (Two ends on
   either side of a line break, with no cell between, select the last cell of
   the line.) *)
SimpleSelectionCovers ==
    input.kind = "blank" =>
      \A s \in Selections("Simple", text) :
        (s.start.point # s.end.point /\ Covered(text, s) # {}) =>
          Selected(text, s) = Covered(text, s)

(* A double click selects the same word wherever in the word it is made. *)
WordSelectionStable ==
    input.kind = "words" =>
      LET InWord(p) == Char(text, p) \notin semantic_escape_chars
      IN  \A p \in GridPoints(text) :
            LET r == range_semantic(text, p, p)
            IN  InWord(p) =>
                  /\ contains(r, p)
                  /\ \A q \in GridPoints(text) :
                       contains(r, q) => InWord(q) /\ range_semantic(text, q, q) = r

(* Selection::rotate: scrolling a region by delta lines moves what is selected
   in it along with the text; what leaves the region is no longer selected, and
   nothing else becomes so.  (Where the region ends with the grid, a selection
   that reaches across that end keeps the column of the end it loses.) *)
RotateFollowsText ==
    input.kind = "blank" =>
      \A ty \in {"Simple", "Block"}, top \in 0..text.lines - 1, bottom \in 1..text.lines :
        LET InRegion(line) == (top = 0 \/ line >= top) /\ line < bottom
            Stays(s, delta) ==
              /\ InRegion(s.start.point.line) /\ InRegion(s.end.point.line)
              /\ top # 0 \/ Upper(s).point.line - delta >= topmost_line(text)
              /\ bottom < text.lines \/ Lower(s).point.line - delta <= bottommost_line(text)
        IN  top < bottom =>
              \A s \in {include_all(s) : s \in Selections(ty, text)}, delta \in {-1, 1} :
                Stays(s, delta) =>
                  LET before == Selected(text, s)
                      after  == UNION {Selected(text, r) :
                                         r \in rotate_selection(text, s, top, bottom, delta)}
                  IN  after = {p \in GridPoints(text) :
                                 InRegion(p.line) /\ Point(p.line + delta, p.col) \in before}

(* What is copied is what the user marked: ends with sides, words, and text that
   scrolls while it is selected (Selection::to_range, rotate). *)
SelectionLaws == SimpleSelectionCovers /\ WordSelectionStable /\ RotateFollowsText

-----------------------------------------------------------------------------
(* Reflow *)

grid == input.grid

(* The text of a grid: its logical lines, without trailing blanks. *)
Trim(cells) == LET used == {k \in DOMAIN cells : cells[k] # Empty}
               IN  SubSeq(cells, 1, IF used = {} THEN 0 ELSE Max(used))
Body(row) == IF Last(row.cells) = Leading THEN Front(row.cells) ELSE row.cells
LineStarts(rows) == {k \in DOMAIN rows : k = 1 \/ ~rows[k - 1].wrap}
TextAt(rows, k) ==
    LET end == Min({j \in DOMAIN rows : j >= k /\ (~rows[j].wrap \/ j = Len(rows))})
    IN  Trim(FlattenSeq([j \in 1..end - k + 1 |-> Body(rows[k + j - 1])]))
LogicalLines(rows) ==
    LET starts == SetToSortSeq(LineStarts(rows), LAMBDA a, b : a < b)
    IN  [j \in DOMAIN starts |-> TextAt(rows, starts[j])]
TextOf(rows) ==
    LET lines == LogicalLines(rows)
        used  == {k \in DOMAIN lines : lines[k] # <<>>}
    IN  SubSeq(lines, 1, IF used = {} THEN 0 ELSE Max(used))

(* Where the cursor is in the text: its logical line, and its place in it. *)
CursorRow(g) == Len(g.rows) - g.lines + g.cursor.line + 1
CursorStart(g) == Max({k \in LineStarts(g.rows) : k <= CursorRow(g)})
CursorLine(g) == Cardinality({k \in LineStarts(g.rows) : k <= CursorRow(g)})
CursorPlace(g) ==
    Len(FlattenSeq([k \in 1..CursorRow(g) - CursorStart(g) |-> Body(g.rows[CursorStart(g) + k - 1])]))
      + g.cursor.col + (IF g.cursor.needs_wrap THEN 1 ELSE 0)
TextToCursor(g) == SubSeq(LogicalLines(g.rows), 1, CursorLine(g))

(* The logical line of the cursor begins on the screen. *)
StartsOnScreen(g) == CursorStart(g) > Len(g.rows) - g.lines
IsNarrow(g) == \A k \in DOMAIN g.rows, j \in 1..g.columns : g.rows[k].cells[j] \in {Empty, "x"}

(* Grid::grow_columns and shrink_columns leave a grid the rest of the terminal
   can index: rows of the new width, a screen full of them, the cursor on the
   screen and the viewport in the scrollback. *)
ReflowInBounds ==
    input.kind = "grid" =>
      \A c \in ReflowTo :
        \A r \in {resize_columns(grid, TRUE, c)} :
          /\ r.cursor.line \in 0..r.lines - 1 /\ r.cursor.col \in 0..c - 1
          /\ r.saved.col \in 0..c - 1
          /\ \A k \in DOMAIN r.rows : Len(r.rows[k].cells) = c
          /\ r.offset \in 0..Len(r.rows) - r.lines
          /\ Len(r.rows) <= r.lines + r.limit

(* Reflow keeps the text: whatever the wrapping of the rows and however wide
   characters straddle the old and the new margin, narrowing a terminal keeps
   all its logical lines, and widening it those down to the cursor's, as long
   as the scrollback has room. *)
ReflowKeepsText ==
    (input.kind = "grid" /\ StartsOnScreen(grid)) =>
      \A c \in ReflowTo :
        \A r \in {resize_columns(grid, TRUE, c)} :
          Len(r.rows) < r.lines + r.limit =>
              IF c < grid.columns THEN TextOf(r.rows) = TextOf(grid.rows)
                                  ELSE TextToCursor(r) = TextToCursor(grid)

(* And the cursor stays at its place in the text, so that a shell that goes on
   writing continues the same word, unless it had to be moved to the top line. *)
ReflowKeepsCursor ==
    (input.kind = "grid" /\ StartsOnScreen(grid) /\ IsNarrow(grid)) =>
      \A c \in ReflowTo :
        \A r \in {resize_columns(grid, TRUE, c)} :
          r.cursor.line > 0 =>
              CursorLine(r) = CursorLine(grid) /\ CursorPlace(r) = CursorPlace(grid)

(* Changing the width of a window loses neither text nor place, nor leaves a grid
   that cannot be indexed (Grid::grow_columns, shrink_columns). *)
ReflowLaws == ReflowInBounds /\ ReflowKeepsText /\ ReflowKeepsCursor

=============================================================================
