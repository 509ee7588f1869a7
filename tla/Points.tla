-------------------------------- MODULE Points --------------------------------
(***************************************************************************)
(* Points of a grid and their arithmetic                                   *)
(* (velacritty_terminal/src/index.rs).                                     *)
(*                                                                         *)
(* The dimensions are those of a record `t` with the fields cols, lines    *)
(* (on the screen) and hist (lines of scrollback): line 0 is the top of    *)
(* the screen and the scrollback has negative lines.                       *)
(***************************************************************************)
EXTENDS Arith

topmost_line(t) == -t.hist
bottommost_line(t) == t.lines - 1
last_column(t) == t.cols - 1
total_lines(t) == t.hist + t.lines

Point(line, col) == [line |-> line, col |-> col]

Before(p, q) == p.line < q.line \/ (p.line = q.line /\ p.col < q.col)
UpTo(p, q) == p = q \/ Before(p, q)

(* Line::grid_clamp.  The remainder of the code takes the sign of the dividend. *)
line_clamp(t, boundary, line) ==
    CASE boundary = "Cursor" -> Clamp(line, 0, bottommost_line(t))
      [] boundary = "Grid" -> Clamp(line, topmost_line(t), bottommost_line(t))
      [] boundary = "None" ->
           IF line >= t.lines
           THEN topmost_line(t) + ((line - t.lines) % total_lines(t))
           ELSE bottommost_line(t) - ((t.lines - 1 - line) % total_lines(t))

grid_clamp(t, boundary, p) ==
    CASE boundary = "Cursor" /\ p.line < 0 -> Point(0, 0)
      [] boundary = "Grid" /\ p.line < topmost_line(t) -> Point(topmost_line(t), 0)
      [] boundary # "None" /\ p.line > bottommost_line(t) ->
           Point(bottommost_line(t), last_column(t))
      [] OTHER ->
           Point(IF boundary = "None" THEN line_clamp(t, boundary, p.line) ELSE p.line,
                 MinOf(p.col, last_column(t)))

sub(t, boundary, p, n) ==
    grid_clamp(t, boundary,
        Point(p.line - (SaturatingSub(n + t.cols - 1, p.col) \div t.cols),
              (t.cols + p.col - (n % t.cols)) % t.cols))

add(t, boundary, p, n) ==
    grid_clamp(t, boundary,
        Point(p.line + ((n + p.col) \div t.cols), (p.col + n) % t.cols))

-----------------------------------------------------------------------------
(* The cells in reading order, numbered from 0 at the top of the scrollback *)

Cells(t) == 0 .. total_lines(t) * t.cols - 1
CellOf(t, p) == (p.line - topmost_line(t)) * t.cols + p.col
PointOf(t, k) == Point(topmost_line(t) + (k \div t.cols), k % t.cols)
GridPoints(t) == {PointOf(t, k) : k \in Cells(t)}

(* Point::add and Point::sub are steps in reading order: within the grid they
   stop at its two ends, and without a boundary they go round it, so that the
   one undoes the other.  The regex iterator relies on both. *)
PointArithmeticOf(t) ==
    LET N == total_lines(t) * t.cols
    IN  \A p \in GridPoints(t), n \in 0..2 * t.cols :
          /\ n < N =>
               /\ CellOf(t, add(t, "None", p, n)) = (CellOf(t, p) + n) % N
               /\ sub(t, "None", add(t, "None", p, n), n) = p
          /\ CellOf(t, add(t, "Grid", p, n)) = MinOf(CellOf(t, p) + n, N - 1)
          /\ CellOf(t, sub(t, "Grid", p, n)) = MaxOf(CellOf(t, p) - n, 0)

=============================================================================
