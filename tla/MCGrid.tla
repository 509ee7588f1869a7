-------------------------------- MODULE MCGrid --------------------------------
(***************************************************************************)
(* Model checking of Grid: its refinement of Scrollback.                   *)
(***************************************************************************)
EXTENDS Grid, TLC

CONSTANT MaxGrid   \* bound on the lines of the screen and the limit of the scrollback together

(* The rows of the lines from..to-1, top to bottom. *)
RowsOf(g, from, to) == [k \in 1..to - from |-> Row(g.raw, from + k - 1)]

Promise == INSTANCE Scrollback WITH
    screen  <- RowsOf(grid, 0, grid.lines),
    history <- RowsOf(grid, -history_size(grid), 0),
    limit   <- grid.max_scroll_limit,
    cursor  <- grid.cursor

(* The ring buffer with its cache of dropped rows, its rotation and its row
   swaps implements the plain scrollback: each call of Grid has exactly the
   effect on screen and scrollback that Scrollback describes, and no dropped
   row ever becomes visible again. *)
RefinesScrollback == Promise!Spec

(* Rows other than the blank one are interchangeable. *)
RowSymmetry == Permutations(Rows \ {Blank})

(* Tall screens with little scrollback and low ones with much. *)
Small == grid.lines + grid.max_scroll_limit <= MaxGrid

=============================================================================
