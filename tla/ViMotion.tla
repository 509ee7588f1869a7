------------------------------- MODULE ViMotion -------------------------------
(***************************************************************************)
(* Motions of the vi mode cursor (velacritty_terminal/src/vi_mode.rs): a   *)
(* motion takes a point of a text (see TextSearch) to another.             *)
(***************************************************************************)
EXTENDS TextSearch

is_space(t, p) == Width(t, p) \notin {"spacer", "leading"} /\ Char(t, p) = " "

SpaceCell(t, k) == is_space(t, PointOf(t, k))

is_boundary(t, p, direction) ==
    \/ direction = "Left" /\ p.line <= topmost_line(t) /\ p.col = 0
    \/ direction = "Right" /\ p.line = bottommost_line(t) /\ p.col + 1 >= t.cols

advance(t, p, direction) ==
    IF direction = "Left" THEN sub(t, "Grid", p, 1) ELSE add(t, "Grid", p, 1)

(* The occupied columns of a line. *)
Occupied(t, line) == {c \in 0..last_column(t) : ~is_space(t, Point(line, c))}
first_occupied_in_line(t, line) ==
    IF Occupied(t, line) = {} THEN {} ELSE {Point(line, Min(Occupied(t, line)))}
last_occupied_in_line(t, line) ==
    IF Occupied(t, line) = {} THEN {} ELSE {Point(line, Max(Occupied(t, line)))}
OrElse(some, default) == IF some = {} THEN default ELSE CHOOSE x \in some : TRUE

(* The last row of the logical line that p is wrapped into. *)
WrapEnd(t, line) ==
    Max({l \in line..bottommost_line(t) : \A k \in line..l - 1 : k \in t.wraps})

last(t, p0) ==
    LET p        == expand_wide(t, p0, "Right")
        occupied == OrElse(last_occupied_in_line(t, p.line), Point(0, 0))
    IN  CASE p.col < occupied.col -> occupied
          [] p.col >= occupied.col /\ is_wrap(t, p) ->
               OrElse(last_occupied_in_line(t, WrapEnd(t, p.line)),
                      Point(WrapEnd(t, p.line), p.col))
          [] OTHER -> Point(p.line, last_column(t))

first_occupied(t, p0) ==
    LET p        == expand_wide(t, p0, "Left")
        here     == OrElse(first_occupied_in_line(t, p.line), Point(p.line, last_column(t)))
        Filled(lines) == {l \in lines : Occupied(t, l) # {}}
        Upper(lines) == OrElse(first_occupied_in_line(t, Min(lines)), p)
        above    == Filled(line_search_left(t, p).line..p.line - 1)
        below    == Filled(p.line..WrapEnd(t, p.line))
    IN  IF p # here THEN here
        ELSE IF above \cup below # {}
        THEN Upper(IF above # {} THEN above ELSE below)
        ELSE Point(WrapEnd(t, p.line), last_column(t))

-----------------------------------------------------------------------------
(* Words *)

(* Step on while the next cell satisfies P, up to the end of the grid. *)
SkipNext(t, p, direction, P(_)) ==
    LET n == CellOf(t, p)
    IN  PointOf(t,
          IF direction = "Right"
          THEN Max({m \in Cells(t) : m >= n /\ \A k \in n + 1..m : P(k)})
          ELSE Min({m \in Cells(t) : m <= n /\ \A k \in m..n - 1 : P(k)}))

(* Step on while the cell itself satisfies P. *)
SkipHere(t, p, direction, P(_)) ==
    LET n == CellOf(t, p)
    IN  PointOf(t,
          IF direction = "Right"
          THEN Min({m \in Cells(t) : m >= n /\ ~P(m)} \cup {Max(Cells(t))})
          ELSE Max({m \in Cells(t) : m <= n /\ ~P(m)} \cup {0}))

expand_semantic(t, p, direction) ==
    IF Char(t, p) \in semantic_escape_chars /\ ~IsSpacer(t, CellOf(t, p)) THEN p
    ELSE IF direction = "Left" THEN semantic_search_left(t, p)
    ELSE semantic_search_right(t, p)

semantic(t, p0, direction, side) ==
    LET Expand(p, when) == IF when /\ ~is_boundary(t, p, direction)
                           THEN expand_semantic(t, p, direction) ELSE p
        SkipSpace(p) == SkipNext(t, p, direction, LAMBDA k : SpaceCell(t, k))
        Wider(p) == IF direction = "Left" THEN expand_wide(t, p, direction) ELSE p
        Onward(p) == IF is_boundary(t, p, direction) THEN p
                     ELSE Wider(advance(t, p, direction))
    IN  Expand(Onward(SkipSpace(expand_wide(t, Expand(p0, direction # side), direction))),
               direction = side)

word(t, p0, direction, side) ==
    LET p == expand_wide(t, p0, direction)
        Space(k) == SpaceCell(t, k)
        Text(k) == ~SpaceCell(t, k)
    IN  IF direction = side
        THEN SkipNext(t, SkipNext(t, p, direction, Space), direction, Text)
        ELSE SkipHere(t, SkipHere(t, p, direction, Text), direction, Space)

-----------------------------------------------------------------------------

Screenful(t, line) == Point(line, OrElse(first_occupied_in_line(t, line), Point(0, 0)).col)

(* Row::is_clear: a flag of the last cell counts as content. *)
IsClear(t, line) ==
    line \notin t.wraps /\ \A c \in 0..last_column(t) : is_space(t, Point(line, c))

(* The next clear line after text has been met, in a range of lines. *)
ParagraphUp(t, p) ==
    LET text  == {l \in topmost_line(t)..p.line - 1 : ~IsClear(t, l)}
        clear == {l \in topmost_line(t)..p.line - 1 : text # {} /\ l < Max(text) /\ IsClear(t, l)}
    IN  Point(IF clear = {} THEN topmost_line(t) ELSE Max(clear), 0)

ParagraphDown(t, p) ==
    LET text  == {l \in p.line..bottommost_line(t) - 1 : ~IsClear(t, l)}
        clear == {l \in p.line..bottommost_line(t) - 1 :
                    text # {} /\ l > Min(text) /\ IsClear(t, l)}
    IN  Point(IF clear = {} THEN bottommost_line(t) ELSE Min(clear), 0)

MotionLeft(t, p0) ==
    LET Left(p, wrap) ==
            IF p.col = 0 /\ p.line > topmost_line(t) /\ is_wrap(t, wrap) THEN wrap
            ELSE [p EXCEPT !.col = SaturatingSub(p.col, 1)]
        From(p) == Left(p, Point(p.line - 1, last_column(t)))
    IN  From(expand_wide(t, p0, "Left"))

MotionRight(t, p0) ==
    LET Right(p) == IF is_wrap(t, p) THEN Point(p.line + 1, 0)
                    ELSE [p EXCEPT !.col = MinOf(p.col + 1, last_column(t))]
    IN  Right(expand_wide(t, p0, "Right"))

MotionFirst(t, p0) ==
    LET First(p) == IF p.col = 0 THEN line_search_left(t, p) ELSE [p EXCEPT !.col = 0]
    IN  First(expand_wide(t, p0, "Left"))

ViMotions == {"Up", "Down", "Left", "Right", "First", "Last", "FirstOccupied", "High",
              "Middle", "Low", "SemanticLeft", "SemanticRight", "SemanticLeftEnd",
              "SemanticRightEnd", "WordLeft", "WordRight", "WordLeftEnd", "WordRightEnd",
              "Bracket", "ParagraphUp", "ParagraphDown"}

(* Where a motion takes the cursor; scrolling to it comes after. *)
motion(t, p, m) ==
    CASE m = "Up" -> IF p.line > topmost_line(t) THEN [p EXCEPT !.line = p.line - 1] ELSE p
      [] m = "Down" -> IF p.line + 1 < t.lines THEN [p EXCEPT !.line = p.line + 1] ELSE p
      [] m = "Left" -> MotionLeft(t, p)
      [] m = "Right" -> MotionRight(t, p)
      [] m = "First" -> MotionFirst(t, p)
      [] m = "Last" -> last(t, p)
      [] m = "FirstOccupied" -> first_occupied(t, p)
      [] m = "High" -> Screenful(t, -t.offset)
      [] m = "Middle" -> Screenful(t, (t.lines \div 2) - 1 - t.offset)
      [] m = "Low" -> Screenful(t, t.lines - 1 - t.offset)
      [] m = "SemanticLeft" -> semantic(t, p, "Left", "Left")
      [] m = "SemanticRight" -> semantic(t, p, "Right", "Left")
      [] m = "SemanticLeftEnd" -> semantic(t, p, "Left", "Right")
      [] m = "SemanticRightEnd" -> semantic(t, p, "Right", "Right")
      [] m = "WordLeft" -> word(t, p, "Left", "Left")
      [] m = "WordRight" -> word(t, p, "Right", "Left")
      [] m = "WordLeftEnd" -> word(t, p, "Left", "Right")
      [] m = "WordRightEnd" -> word(t, p, "Right", "Right")
      [] m = "Bracket" -> OrElse(bracket_search(t, p), p)
      [] m = "ParagraphUp" -> ParagraphUp(t, p)
      [] m = "ParagraphDown" -> ParagraphDown(t, p)

(* ViModeCursor::scroll *)
vi_scroll(t, p, lines) == Screenful(t, line_clamp(t, "Grid", p.line - lines))

=============================================================================
