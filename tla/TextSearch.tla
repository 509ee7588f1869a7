------------------------------ MODULE TextSearch ------------------------------
(***************************************************************************)
(* Searching the text of a grid (velacritty_terminal/src/term/search.rs    *)
(* and Term::expand_wide).                                                 *)
(*                                                                         *)
(* A text is a record of dimensions (see Points) with                      *)
(*   chars   the character of every cell, in reading order,                *)
(*   width   how the cell takes part in a wide character: "narrow",        *)
(*           "wide", "spacer" (its second half) or "leading" (the gap at   *)
(*           the end of a line in which it did not fit),                   *)
(*   wraps   the lines whose last cell carries the WRAPLINE flag,          *)
(*   offset  the display offset.                                           *)
(* Every search of the code is a loop over a GridIterator; it is written   *)
(* here as the first or the last cell of a range that the loop stops at.   *)
(***************************************************************************)
EXTENDS Points, FiniteSets, FiniteSetsExt

Char(t, p) == t.chars[CellOf(t, p)]
Width(t, p) == t.width[CellOf(t, p)]
IsSpacer(t, k) == t.width[k] \in {"spacer", "leading"}
is_wrap(t, p) == p.col = last_column(t) /\ p.line \in t.wraps

expand_wide(t, p, direction) ==
    CASE direction = "Right" /\ Width(t, p) = "leading" -> Point(p.line + 1, 1)
      [] direction = "Right" /\ Width(t, p) = "wide" ->
           [p EXCEPT !.col = MinOf(p.col + 1, last_column(t))]
      [] direction = "Left" /\ Width(t, p) \in {"wide", "spacer"} ->
           LET q    == IF Width(t, p) = "spacer" THEN [p EXCEPT !.col = p.col - 1] ELSE p
               prev == sub(t, "Grid", q, 1)
           IN  IF Width(t, prev) = "leading" THEN prev ELSE q
      [] OTHER -> p

-----------------------------------------------------------------------------
(* Logical lines: rows joined by WRAPLINE *)

line_search_left(t, p) ==
    Point(Min({l \in topmost_line(t)..p.line : \A k \in l..p.line - 1 : k \in t.wraps}), 0)

line_search_right(t, p) ==
    Point(Max({l \in p.line..bottommost_line(t) : \A k \in p.line..l - 1 : k \in t.wraps}),
          last_column(t))

(* Ok(point) or Err(point) of the two inline searches. *)
Found(t, k) == [ok |-> TRUE, point |-> PointOf(t, k)]
NotFound(t, k) == [ok |-> FALSE, point |-> PointOf(t, k)]

IsNeedle(t, k, needles) == ~IsSpacer(t, k) /\ t.chars[k] \in needles

inline_search_left(t, p, needles) ==
    LET from  == CellOf(t, [p EXCEPT !.line = MaxOf(p.line, topmost_line(t))])
        first == CellOf(t, line_search_left(t, PointOf(t, from)))
        hits  == {k \in first..from - 1 : IsNeedle(t, k, needles)}
    IN  IF hits # {} THEN Found(t, Max(hits)) ELSE NotFound(t, first)

inline_search_right(t, p, needles) ==
    LET from == CellOf(t, [p EXCEPT !.line = MaxOf(p.line, topmost_line(t))])
        last == CellOf(t, line_search_right(t, PointOf(t, from)))
        hits == {k \in from + 1..last : IsNeedle(t, k, needles)}
    IN  IF hits # {} THEN Found(t, Min(hits)) ELSE NotFound(t, last)

(* config.semantic_escape_chars: of the characters of the model, all but "x". *)
semantic_escape_chars == {" ", ",", "(", ")"}

(* The cell after the one found, past any spacer. *)
semantic_search_left(t, p) ==
    LET After(q) == {k \in Cells(t) : k > CellOf(t, q) /\ ~IsSpacer(t, k)}
        Skip(found) == IF found.ok /\ After(found.point) # {}
                       THEN PointOf(t, Min(After(found.point))) ELSE found.point
    IN  Skip(inline_search_left(t, p, semantic_escape_chars))

semantic_search_right(t, p) ==
    LET Back(found) == IF found.ok THEN PointOf(t, CellOf(t, found.point) - 1) ELSE found.point
    IN  Back(inline_search_right(t, p, semantic_escape_chars))

(* Of BRACKET_PAIRS, one pair. *)
bracket_other == [c \in {"(", ")"} |-> IF c = "(" THEN ")" ELSE "("]

(* The matching bracket, in a set that is empty when there is none: the first
   one up to which as many pairs were opened as closed. *)
bracket_search(t, p) ==
    IF Char(t, p) \notin DOMAIN bracket_other THEN {}
    ELSE LET from == CellOf(t, p)
             start == Char(t, p)
             end   == bracket_other[start]
             Between(k) == IF k > from THEN from + 1..k - 1 ELSE k + 1..from - 1
             Count(k, c) == Cardinality({j \in Between(k) : t.chars[j] = c})
             hits == {k \in Cells(t) :
                        /\ IF start = "(" THEN k > from ELSE k < from
                        /\ t.chars[k] = end
                        /\ Count(k, start) = Count(k, end)}
         IN  IF hits = {} THEN {}
             ELSE {PointOf(t, IF start = "(" THEN Min(hits) ELSE Max(hits))}

=============================================================================
