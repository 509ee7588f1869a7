-------------------------------- MODULE Content --------------------------------
(***************************************************************************)
(* From the grid to the cells that are drawn (display/content.rs) and the  *)
(* lines under and through them (renderer/rects.rs).  Cells arrive in the  *)
(* order of the viewport; the labels of hints and the matches of a search  *)
(* are followed by indices that only move forward.  A position is a number *)
(* that counts the cells from the top left of the viewport, negative above *)
(* it; colors are members of a small set and have contrast if they differ. *)
(***************************************************************************)
EXTENDS Integers, Sequences, SequencesExt, FiniteSets, FiniteSetsExt

CONSTANTS
    ContentColumns,
    Frames       \* what there is to draw, see ContentInit

VARIABLE content

(* cells: the viewport; selection: positions; cursor: position, and the shape *)
(* it has; hints and matches: sorted by their start; labels of the hints;     *)
(* focused: the focused match; select, cursorColors: pairs of CellRgb.        *)
ContentInit == content \in Frames

Foreground == "foreground"
Background == "background"

-----------------------------------------------------------------------------
(* The colors of a cell *)

(* CellRgb::color *)
CellRgb(color, fg, bg) ==
    CASE color = "CellForeground" -> fg [] color = "CellBackground" -> bg [] OTHER -> color

(* RenderableCell::compute_cell_rgb *)
compute_cell_rgb(c, colors) ==
    [c EXCEPT !.fg = CellRgb(colors[1], c.fg, c.bg), !.bg = CellRgb(colors[2], c.fg, c.bg),
              !.bg_alpha = IF colors[2] # "CellBackground" THEN 1 ELSE @]

Inversed(cell) ==
    IF "INVERSE" \in cell.flags THEN [cell EXCEPT !.fg = cell.bg, !.bg = cell.fg] ELSE cell

(* compute_bg_alpha, but that inverse cells are opaque. *)
BgAlpha(cell) == IF cell.bg = Background /\ "INVERSE" \notin cell.flags THEN 0 ELSE 1

-----------------------------------------------------------------------------
(* HintMatches: the index after a call, and whether the position is in a match. *)
advance(matches, index, p) ==
    LET stops == {i \in index..Len(matches) : matches[i].start > p \/ matches[i].end >= p}
        next == IF stops = {} THEN Len(matches) + 1 ELSE Min(stops)
    IN [index |-> next, within |-> next <= Len(matches) /\ matches[next].start <= p]

(* Hint::advance: which character of its label a cell shows, 0 for none. *)
LabelPosition(index, p) ==
    LET start == content.hints[index].start
        position == p - (IF start < 0 THEN 0 ELSE start) + 1
    IN IF position <= content.labels[index] THEN position ELSE 0

-----------------------------------------------------------------------------
(* RenderableCell::new, in the state `s` of the iteration. *)
SelectedRgb(c) ==
    LET sel == compute_cell_rgb(c, content.select) IN
    IF sel.fg = sel.bg /\ "HIDDEN" \notin c.flags
    THEN [sel EXCEPT !.fg = Background, !.bg = Foreground, !.bg_alpha = 1] ELSE sel

HintRgb(c, index, p) ==
    LET position == LabelPosition(index, p) IN
    IF position = 0 THEN [c EXCEPT !.flags = @ \cup {"UNDERLINE"}]
    ELSE [compute_cell_rgb(c, <<"black", IF position = 1 THEN "yellow" ELSE "orange">>)
             EXCEPT !.char = <<index, position>>]

NewCell(s, p) ==
    LET cell == content.cells[p + 1]
        c == Inversed(cell) @@ [bg_alpha |-> BgAlpha(cell), point |-> p, shows |-> "text"]
        hint == advance(content.hints, s.hint, p)
        match == advance(content.matches, s.match, p)
        With(shown, as) == [shown EXCEPT !.shows = as]
    IN IF hint.within
       THEN [s EXCEPT !.hint = hint.index, !.cell = With(HintRgb(c, hint.index, p), "hint")]
       ELSE IF p \in content.selection
       THEN [s EXCEPT !.hint = hint.index, !.cell = With(SelectedRgb(c), "selection")]
       ELSE [s EXCEPT !.hint = hint.index, !.match = match.index,
                !.cell = IF ~match.within THEN c
                         ELSE With(compute_cell_rgb(c, <<"black", "red">>),
                                   IF p \in content.focused.start..content.focused.end
                                   THEN "focused" ELSE "match")]

cell_is_empty(c) ==
    c.bg_alpha = 0 /\ c.char = " " /\ ~c.extra /\ c.flags \cap {"UNDERLINE", "STRIKEOUT"} = {}

(* RenderableContent::renderable_cursor: text and cursor color. *)
CursorRgb(c) ==
    LET text == content.cursorColors[1]
        cursor == content.cursorColors[2]
        relative == {text, cursor} \cap {"CellForeground", "CellBackground"} # {}
    IN IF relative /\ c.fg = c.bg THEN <<Background, Foreground>>
       ELSE <<CellRgb(text, c.fg, c.bg), CellRgb(cursor, c.fg, c.bg)>>

(* RenderableContent::next for one cell of the grid. *)
NextRendered(s, p) ==
    LET Under(c, colors) == IF content.shape = "Block"
                            THEN [c EXCEPT !.fg = colors[1], !.bg = colors[2], !.bg_alpha = 1] ELSE c
        AtCursor(n, colors) ==
            [n EXCEPT !.out = Append(@, Under(n.cell, colors)), !.cursor = {colors[2]}]
        Yield(n) == IF p = content.cursor THEN AtCursor(n, CursorRgb(n.cell))
                    ELSE IF ~cell_is_empty(n.cell) /\ "WIDE_CHAR_SPACER" \notin n.cell.flags
                    THEN [n EXCEPT !.out = Append(@, n.cell)]
                    ELSE n
    IN Yield(NewCell(s, p))

Rendered ==
    FoldLeft(NextRendered, [hint |-> 1, match |-> 1, out |-> <<>>, cursor |-> {}, cell |-> 0],
             [i \in DOMAIN content.cells |-> i - 1])

-----------------------------------------------------------------------------
(* RenderLines::update for one flag: the lines so far, and the next cell. *)
update_flag(flag, lines, c) ==
    LET color == IF flag = "STRIKEOUT" THEN c.fg ELSE c.underline
        end == IF "WIDE_CHAR" \in c.flags THEN c.point + 1 ELSE c.point
    IN IF flag \notin c.flags THEN lines
       ELSE IF /\ lines # <<>> /\ Last(lines).color = color
               /\ c.point = Last(lines).end + 1 /\ c.point % ContentColumns # 0
       THEN Append(Front(lines), [Last(lines) EXCEPT !.end = end])
       ELSE Append(lines, [start |-> c.point, end |-> end, color |-> color])

RenderLines(flag) == FoldLeft(LAMBDA lines, c : update_flag(flag, lines, c), <<>>, Rendered.out)

-----------------------------------------------------------------------------
InSome(ranges, p) == \E i \in DOMAIN ranges : p \in ranges[i].start..ranges[i].end

(* Whatever cells the iterators skip, a drawn cell shows the hint it is in, *)
(* else the selection, else the match; hints may overlap and begin above    *)
(* the viewport (content.rs RenderableCell::new, HintMatches::advance).     *)
HighlightsFollowText ==
    \A out \in {Rendered.out} : \A i \in DOMAIN out :
        out[i].shows = IF InSome(content.hints, out[i].point) THEN "hint"
                       ELSE IF out[i].point \in content.selection THEN "selection"
                       ELSE IF ~InSome(content.matches, out[i].point) THEN "text"
                       ELSE IF out[i].point \in content.focused.start..content.focused.end
                       THEN "focused" ELSE "match"

(* Nothing that can be seen is left out, and what is selected or under the *)
(* cursor can be read: its text never has the color of its background      *)
(* unless the cell is hidden (content.rs RenderableContent::next,          *)
(* renderable_cursor).                                                     *)
NothingInvisible ==
    \A r \in {Rendered} : LET out == r.out points == {out[i].point : i \in DOMAIN out}
    IN /\ \A i \in DOMAIN out : out[i].shows = "selection" /\ "HIDDEN" \notin out[i].flags
            => out[i].fg # out[i].bg
       /\ \A p \in 0..Len(content.cells) - 1 :
            p \notin points => LET c == content.cells[p + 1] IN
                "WIDE_CHAR_SPACER" \in c.flags \/ (c.char = " " /\ BgAlpha(c) = 0)
       /\ content.cursor \in points => r.cursor # {}
       /\ content.shape = "Block" => \A i \in DOMAIN out : out[i].point = content.cursor => out[i].fg # out[i].bg

(* The lines drawn for a flag cover the cells that have it, in their color, *)
(* both halves of a wide character, and no others; no line is broken or     *)
(* reaches into the next row (rects.rs RenderLines::update_flag).           *)
LinesCoverCells ==
    \A flag \in {"UNDERLINE", "STRIKEOUT"} :
        \A lines \in {RenderLines(flag)}, out \in {Rendered.out} :
        LET Covers(l, p) == p \in l.start..l.end
            Extent(c) == IF "WIDE_CHAR" \in c.flags THEN c.point..c.point + 1 ELSE {c.point}
        IN /\ \A i \in DOMAIN out : flag \in out[i].flags => \A p \in Extent(out[i]) :
                \E j \in DOMAIN lines : Covers(lines[j], p)
           /\ \A j \in DOMAIN lines :
                /\ lines[j].start \div ContentColumns = lines[j].end \div ContentColumns
                /\ \A p \in lines[j].start..lines[j].end :
                    \E i \in DOMAIN out : flag \in out[i].flags /\ p \in Extent(out[i])
                        /\ lines[j].color = (IF flag = "STRIKEOUT" THEN out[i].fg ELSE out[i].underline)

=============================================================================
