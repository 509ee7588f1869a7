------------------------------ MODULE Selection ------------------------------
(***************************************************************************)
(* Selections (velacritty_terminal/src/selection.rs): two anchors, each a  *)
(* point and a side of its cell, and how they are moved with the text and  *)
(* turned into a range of cells.                                           *)
(***************************************************************************)
EXTENDS TextSearch

NoSelection == {}

Anchor(p, side) == [point |-> p, side |-> side]
Selection(ty, p, side) == [ty |-> ty, start |-> Anchor(p, side), end |-> Anchor(p, side)]
update(s, p, side) == [s EXCEPT !.end = Anchor(p, side)]

(* The two anchors, the upper one first. *)
Upper(s) == IF Before(s.end.point, s.start.point) THEN s.end ELSE s.start
Lower(s) == IF Before(s.end.point, s.start.point) THEN s.start ELSE s.end
SetBoth(s, upper, lower) ==
    IF Before(s.end.point, s.start.point) THEN [s EXCEPT !.end = upper, !.start = lower]
                                          ELSE [s EXCEPT !.start = upper, !.end = lower]

InRotated(line, top, bottom) == (line >= top \/ top = 0) /\ line < bottom

(* Faulty variant: the upper end is not stopped at the top of the region. *)
rotate_start_Unclamped(t, s, top, bottom, delta) ==
    LET a == Upper(s)
    IN  IF InRotated(a.point.line, top, bottom)
        THEN [a EXCEPT !.point.line = MinOf(a.point.line - delta, bottommost_line(t))]
        ELSE a

(* The upper anchor after its line has moved by -delta within a region. *)
rotate_start(t, s, top, bottom, delta) ==
    LET a     == Upper(s)
        moved == MinOf(a.point.line - delta, bottommost_line(t))
        leaves == moved < top /\ top # 0
    IN  IF ~InRotated(a.point.line, top, bottom) THEN a
        ELSE [point |-> Point(IF leaves THEN top ELSE moved,
                              IF leaves /\ s.ty # "Block" THEN 0 ELSE a.point.col),
              side |-> IF leaves /\ s.ty # "Block" THEN "Left" ELSE a.side]

rotate_end(t, s, top, bottom, delta) ==
    LET a     == Lower(s)
        moved == MinOf(a.point.line - delta, bottommost_line(t))
        leaves == moved >= bottom
    IN  IF ~InRotated(a.point.line, top, bottom) THEN a
        ELSE [point |-> Point(IF leaves THEN bottom - 1 ELSE moved,
                              IF leaves /\ s.ty # "Block" THEN last_column(t) ELSE a.point.col),
              side |-> IF leaves /\ s.ty # "Block" THEN "Right" ELSE a.side]

(* The selection, in a set that is empty when it has been scrolled away. *)
rotate_selection(t, s, top, bottom, delta) ==
    LET upper == Upper(s).point.line
        lower == Lower(s).point.line
        a     == rotate_start(t, s, top, bottom, delta)
        b     == rotate_end(t, s, top, bottom, delta)
        start_left == /\ InRotated(upper, top, bottom)
                      /\ MinOf(upper - delta, bottommost_line(t)) >= bottom
                      /\ lower < bottom
        end_left == /\ InRotated(lower, top, bottom)
                    /\ MinOf(lower - delta, bottommost_line(t)) < a.point.line
    IN  IF start_left \/ end_left THEN NoSelection ELSE {SetBoth(s, a, b)}

is_empty(s) ==
    LET a == Upper(s)
        b == Lower(s)
    IN  CASE s.ty = "Simple" ->
               \/ a = b
               \/ /\ a.side = "Right" /\ b.side = "Left"
                  /\ a.point.line = b.point.line /\ a.point.col + 1 = b.point.col
          [] s.ty = "Block" ->
               \/ s.start.point.col = s.end.point.col /\ s.start.side = s.end.side
               \/ /\ s.start.point.col + 1 = s.end.point.col
                  /\ s.start.side = "Right" /\ s.end.side = "Left"
               \/ /\ s.end.point.col + 1 = s.start.point.col
                  /\ s.start.side = "Left" /\ s.end.side = "Right"
          [] OTHER -> FALSE

(* Whether a line of from..to is selected. *)
intersects_range(s, from, to) ==
    to >= Upper(s).point.line /\ from <= Lower(s).point.line

include_all(s) ==
    LET p == s.start.point
        q == s.end.point
        backwards == IF s.ty = "Block" THEN p.col > q.col \/ (p.col = q.col /\ p.line > q.line)
                                       ELSE Before(q, p)
    IN  [s EXCEPT !.start.side = IF backwards THEN "Right" ELSE "Left",
                  !.end.side   = IF backwards THEN "Left" ELSE "Right"]

-----------------------------------------------------------------------------
(* Ranges *)

SelectionRange(p, q, is_block) == [start |-> p, end |-> q, is_block |-> is_block]

contains(r, p) ==
    /\ r.start.line <= p.line /\ p.line <= r.end.line
    /\ r.start.col <= p.col \/ (r.start.line # p.line /\ ~r.is_block)
    /\ r.end.col >= p.col \/ (r.end.line # p.line /\ ~r.is_block)

range_simple(t, s, a, b) ==
    LET q == IF b.side # "Left" \/ a.point = b.point THEN b.point
             ELSE IF b.point.col = 0 THEN Point(b.point.line - 1, t.cols - 1)
             ELSE Point(b.point.line, b.point.col - 1)
        p == IF a.side # "Right" \/ a.point = q THEN a.point
             ELSE IF a.point.col + 1 = t.cols THEN Point(a.point.line + 1, 0)
             ELSE Point(a.point.line, a.point.col + 1)
    IN  IF is_empty(s) THEN {} ELSE {SelectionRange(p, q, FALSE)}

range_block(s, a0, b0) ==
    LET crossed == a0.point.col > b0.point.col
        a == IF crossed THEN [point |-> Point(a0.point.line, b0.point.col), side |-> b0.side] ELSE a0
        b == IF crossed THEN [point |-> Point(b0.point.line, a0.point.col), side |-> a0.side] ELSE b0
        q == IF b.side = "Left" /\ a.point # b.point /\ b.point.col > 0
             THEN Point(b.point.line, b.point.col - 1) ELSE b.point
        p == IF a.side = "Right" /\ a.point # q THEN Point(a.point.line, a.point.col + 1)
             ELSE a.point
    IN  IF is_empty(s) THEN {} ELSE {SelectionRange(p, q, TRUE)}

range_semantic(t, p, q) ==
    LET matching == bracket_search(t, p)
    IN  IF p = q /\ matching # {}
        THEN LET m == CHOOSE m \in matching : TRUE
             IN  IF Before(m, p) THEN SelectionRange(m, q, FALSE) ELSE SelectionRange(p, m, FALSE)
        ELSE SelectionRange(semantic_search_left(t, p), semantic_search_right(t, q), FALSE)

range_lines(t, p, q) == SelectionRange(line_search_left(t, p), line_search_right(t, q), FALSE)

to_range(t, s) ==
    LET a == [Upper(s) EXCEPT !.point = grid_clamp(t, "Grid", Upper(s).point)]
        b == [Lower(s) EXCEPT !.point = grid_clamp(t, "Grid", Lower(s).point)]
    IN  IF Lower(s).point.line < topmost_line(t) THEN {}
        ELSE CASE s.ty = "Simple" -> range_simple(t, s, a, b)
               [] s.ty = "Block" -> range_block(s, a, b)
               [] s.ty = "Semantic" -> {range_semantic(t, a.point, b.point)}
               [] s.ty = "Lines" -> {range_lines(t, a.point, b.point)}

=============================================================================
