-------------------------------- MODULE Sizes --------------------------------
(***************************************************************************)
(* The geometry of a window: SizeInfo (velacritty/src/display/mod.rs), the *)
(* place of the mouse in it (event.rs, input/mod.rs), and the size the     *)
(* kernel is told (velacritty_terminal/src/tty/unix.rs).  All lengths are  *)
(* whole pixels: the metrics of a font are rounded down.                   *)
(***************************************************************************)
EXTENDS Points

MIN_COLUMNS == 2
MIN_SCREEN_LINES == 1

(* Twice the padding that spreads what the cells leave over to both sides.
   The remainder has the sign of what is left. *)
dynamic_padding(padding, dimension, cell) ==
    LET left == dimension - 2 * padding
    IN  2 * padding + (IF left < 0 THEN -((-left) % cell) ELSE left % cell)

CellsIn(dimension, twicePadding, cell) ==
    MaxOf(0, dimension - twicePadding) \div cell

SizeInfo(width, height, cell_width, cell_height, padding_x, padding_y, dynamic) ==
    LET px == IF dynamic THEN dynamic_padding(padding_x, width, cell_width) ELSE 2 * padding_x
        py == IF dynamic THEN dynamic_padding(padding_y, height, cell_height) ELSE 2 * padding_y
    IN  [width |-> width, height |-> height, cell_width |-> cell_width, cell_height |-> cell_height,
         padding_x |-> px \div 2, padding_y |-> py \div 2,
         screen_lines |-> MaxOf(CellsIn(height, py, cell_height), MIN_SCREEN_LINES),
         columns |-> MaxOf(CellsIn(width, px, cell_width), MIN_COLUMNS)]

reserve_lines(size, count) ==
    [size EXCEPT !.screen_lines = MaxOf(SaturatingSub(@, count), MIN_SCREEN_LINES)]

contains_point(size, x, y) ==
    /\ x > size.padding_x /\ x <= size.padding_x + size.columns * size.cell_width
    /\ y > size.padding_y /\ y <= size.padding_y + size.screen_lines * size.cell_height

(* The inner size of a window that is asked for by its columns and lines. *)
window_size(columns, lines, cell_width, cell_height, padding_x, padding_y) ==
    [width |-> 2 * padding_x + cell_width * MaxOf(columns, MIN_COLUMNS),
     height |-> 2 * padding_y + cell_height * MaxOf(lines, MIN_SCREEN_LINES)]

-----------------------------------------------------------------------------
(* The mouse *)

(* Mouse::point: the closest cell, as a point of the grid. *)
mouse_point(size, x, y, display_offset) ==
    Point(MinOf(SaturatingSub(y, size.padding_y) \div size.cell_height, size.screen_lines - 1) - display_offset,
          MinOf(SaturatingSub(x, size.padding_x) \div size.cell_width, size.columns - 1))

cell_side(size, x) ==
    LET cell_x == SaturatingSub(x, size.padding_x) % size.cell_width
        inner  == size.width - 2 * size.padding_x
        extra  == IF inner < 0 THEN -((-inner) % size.cell_width) ELSE inner % size.cell_width
    IN  IF cell_x > size.cell_width \div 2 \/ x >= size.width - size.padding_x - extra
        THEN "Right" ELSE "Left"

-----------------------------------------------------------------------------
(* The size of the PTY *)

U16(n) == n % 65536

(* WindowSize and ToWinsize: every number has 16 bits. *)
to_winsize(size) ==
    LET ws_col == U16(size.columns)
        ws_row == U16(size.screen_lines)
    IN  [ws_row |-> ws_row, ws_col |-> ws_col,
         ws_xpixel |-> U16(ws_col * U16(size.cell_width)),
         ws_ypixel |-> U16(ws_row * U16(size.cell_height))]

=============================================================================
