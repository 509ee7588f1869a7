------------------------------ MODULE FrameDamage ------------------------------
(***************************************************************************)
(* What a frame tells the compositor to repaint: the DamageTracker of      *)
(* velacritty/src/display/damage.rs as Display::draw (display/mod.rs) uses *)
(* it.  A frame is always rendered whole, but the compositor takes over    *)
(* only the damaged cells: `stale` are the cells of the window that still  *)
(* show an older frame.  Lines are those of the viewport, but for the      *)
(* selection, the vi cursor and the hint, which are lines of the grid.     *)
(***************************************************************************)
EXTENDS Arith, Sequences, SequencesExt, FiniteSets, FiniteSetsExt

CONSTANTS
    FrameLines, FrameColumns,   \* size of the viewport
    IndicatorLength,            \* columns of the line indicator of vi mode
    TimerLength,                \* columns of the render timer
    ViPoints, SelectedRanges,       \* positions of the vi cursor, pairs of selected grid lines
    HintLines,                  \* grid lines with a hint, all columns wide
    MaxOffset, MaxChanges       \* bounds: scrollback, changes between two frames

(* A frame has cells. *)
ASSUME FrameAssumption ==
    /\ FrameLines \in Nat \ {0} /\ FrameColumns \in Nat \ {0}
    /\ IndicatorLength \in Nat /\ TimerLength \in Nat /\ MaxOffset \in Nat
    /\ ViPoints \subseteq Int \X Nat /\ HintLines \subseteq Int
    /\ SelectedRanges \subseteq {r \in Int \X Int : r[1] <= r[2]}

VARIABLES
    tracker,    \* DamageTracker: frames, old_vi, old_sel
    scene,      \* what there is to draw
    drawn,      \* the scene of the last frame
    touched,    \* cells written by the terminal since then
    hintAge,    \* frames drawn with the highlighted hint, up to 1
    changes, stale

damageVars == <<tracker, scene, drawn, touched, hintAge, changes, stale>>

FrameCells == (0..FrameLines - 1) \X (0..FrameColumns - 1)

-----------------------------------------------------------------------------
(* FrameDamage *)

UndamagedFrame == [full |-> FALSE, lines |-> [l \in 0..FrameLines - 1 |-> [left |-> FrameColumns, right |-> 0]]]

damage_frame_line(f, line, left, right) ==
    [f EXCEPT !.lines[line] = [left |-> MinOf(@.left, left), right |-> MaxOf(@.right, right)]]

damage_points(f, cells) ==
    [f EXCEPT !.lines = [l \in DOMAIN f.lines |->
        LET cols == {c[2] : c \in {d \in cells : d[1] = l}}
        IN  IF cols = {} THEN f.lines[l]
            ELSE [left |-> MinOf(f.lines[l].left, Min(cols)), right |-> MaxOf(f.lines[l].right, Max(cols))]]]

IsInLine(f, cell) == f.lines[cell[1]].left <= cell[2] /\ cell[2] <= f.lines[cell[1]].right

(* FrameDamage::intersects: the two ends, and the lines between them. *)
intersects(f, start, end) ==
    \/ f.full \/ IsInLine(f, start) \/ IsInLine(f, end)
    \/ \E l \in start[1] + 1..end[1] - 1 : f.lines[l].left <= f.lines[l].right

IsRepainted(f, cell) == f.full \/ IsInLine(f, cell)

-----------------------------------------------------------------------------
(* DamageTracker *)

(* Faulty variant: the damage meant for the next frame is reset instead. *)
swap_damage_ResetsNext(t) == [t EXCEPT !.frames = <<UndamagedFrame, t.frames[1]>>]

swap_damage(t) == [t EXCEPT !.frames = <<t.frames[2], UndamagedFrame>>]

resize_tracker(t) ==
    [t EXCEPT !.frames = <<[UndamagedFrame EXCEPT !.full = TRUE], UndamagedFrame>>]

mark_frame(t) == [t EXCEPT !.frames[1].full = TRUE]
mark_both(t) == [t EXCEPT !.frames[1].full = TRUE, !.frames[2].full = TRUE]
both_lines(t, line, left, right) ==
    [t EXCEPT !.frames = [i \in 1..2 |-> damage_frame_line(t.frames[i], line, left, right)]]

(* The position of a point of the grid in the viewport. *)
point_to_viewport(offset, points) ==
    {<<p[1] + offset, p[2]>> : p \in {q \in points : q[1] + offset >= 0}}

(* A vi cursor is drawn, and where it was is drawn over. *)
damage_vi_cursor(t, vi) ==
    LET s == [t EXCEPT !.old_vi = vi]
    IN  IF t.frames[1].full THEN s
        ELSE [s EXCEPT !.frames[1] = damage_points(@, (vi \cup t.old_vi) \cap FrameCells)]

SelectedLines(sel, offset) ==
    IF sel[2] + offset < 0 \/ (IF sel[1] < 0 THEN -sel[1] ELSE sel[1]) < offset - (FrameLines - 1)
    THEN {} ELSE MaxOf(sel[1] + offset, 0)..Clamp(sel[2] + offset, 0, FrameLines - 1)

damage_selection(t, sel, offset) ==
    LET s == [t EXCEPT !.old_sel = sel]
        lines == UNION {SelectedLines(r, offset) : r \in sel \cup t.old_sel}
    IN  IF t.frames[1].full \/ sel = t.old_sel THEN s
        ELSE [s EXCEPT !.frames[1] =
                damage_points(@, {c \in FrameCells : c[1] \in lines})]

-----------------------------------------------------------------------------
(* The damage of the lines in pixels, counted from the bottom of the window;
   `size` has width, height, cell_width, cell_height, padding_x and padding_y *)

rect_for_line(size, line, d) ==
    [x |-> size.padding_x + d.left * size.cell_width,
     y |-> SaturatingSub(SaturatingSub(size.height, size.padding_y), (line + 1) * size.cell_height),
     width |-> (d.right - d.left + 1) * size.cell_width,
     height |-> size.cell_height]

(* Nearby cells are included, for wide characters. *)
overdamage(size, rect) ==
    LET x == MaxOf(rect.x - size.cell_width, 0)
        y == MaxOf(rect.y - size.cell_height \div 2, 0)
    IN  [x |-> x, y |-> y,
         width |-> MinOf(MaxOf(size.width - x, 0), rect.width + 2 * size.cell_width),
         height |-> MinOf(MaxOf(size.height - y, 0), rect.height + size.cell_height)]

rects_overlap(a, b) ==
    ~(\/ a.x + a.width < b.x \/ b.x + b.width < a.x
      \/ a.y + a.height < b.y \/ b.y + b.height < a.y)

merge_rects(a, b) ==
    LET x == MinOf(a.x, b.x)
        y == MinOf(a.y, b.y)
    IN  [x |-> x, y |-> y, width |-> MaxOf(a.x + a.width, b.x + b.width) - x,
         height |-> MaxOf(a.y + a.height, b.y + b.height) - y]

(* RenderDamageIterator: from the top, rectangles that overlap become one; lines
   without damage are passed over. *)
add_line(size, f, rects, l) ==
    LET rect == overdamage(size, rect_for_line(size, l, f.lines[l]))
    IN  IF f.lines[l].left > f.lines[l].right THEN rects
        ELSE IF rects # <<>> /\ rects_overlap(Last(rects), rect)
        THEN Append(Front(rects), merge_rects(Last(rects), rect)) ELSE Append(rects, rect)

shape_frame_damage(size, f) ==
    IF f.full THEN <<[x |-> 0, y |-> 0, width |-> size.width, height |-> size.height]>>
    ELSE FoldLeft(LAMBDA rects, l : add_line(size, f, rects, l), <<>>, [i \in 1..FrameLines |-> i - 1])

-----------------------------------------------------------------------------
(* Display::draw *)

(* Of the lines that nothing else needs, the preview of a link takes the last. *)
PreviewLine(s) ==
    LET cursor == IF s.vi = {} THEN 0 ELSE (CHOOSE p \in s.vi : TRUE)[1]
        protected == IF FrameLines > 2 THEN {s.mouse, cursor} ELSE {}
    IN  Max(((0 - s.offset)..(FrameLines - 1 - s.offset)) \ protected) + s.offset

TimerCells == {c \in FrameCells : c[1] = SaturatingSub(FrameLines, 2) /\ c[2] < TimerLength}
IndicatorCells == {c \in FrameCells : c[1] = 0 /\ c[2] >= SaturatingSub(FrameColumns, IndicatorLength)}
HintCells(s) == {c \in FrameCells : c[1] - s.offset \in s.hint}
PreviewCells(s) == {c \in FrameCells : s.hint # {} /\ c[1] = PreviewLine(s)}

(* Whether the terminal's contents, the elements over them or the overlays of
   the whole window make a cell look different in two scenes; the text of the
   timer changes with every frame. *)
Looks(s, cell) ==
    [vi |-> cell \in point_to_viewport(s.offset, s.vi), offset |-> s.offset,
     selected |-> \E r \in s.sel : cell[1] - s.offset \in r[1]..r[2],
     overlay |-> s.overlay, hint |-> cell \in HintCells(s), preview |-> cell \in PreviewCells(s),
     indicator |-> IF cell \in IndicatorCells THEN s.vi ELSE {}]

Changed(old, new, cells) ==
    {c \in FrameCells : c \in cells \/ Looks(old, c) # Looks(new, c)
                      \/ (c \in TimerCells /\ (old.timer \/ new.timer))}

(* Display::validate_hint_highlights: a hint that was drawn before is dropped
   when its cells are damaged. *)
HintDropped(f) ==
    LET InView(line, col, else) == IF line + scene.offset \in 0..FrameLines - 1
                                   THEN <<line + scene.offset, col>> ELSE else
    IN  \E line \in scene.hint :
          /\ hintAge > 0
          /\ intersects(f, InView(line, 0, <<0, 0>>),
                        InView(line, FrameColumns - 1, <<FrameLines - 1, FrameColumns - 1>>))

DrawFrame ==
    LET full  == drawn.offset # scene.offset
        t1    == IF full THEN mark_frame(tracker)
                 ELSE [tracker EXCEPT !.frames[1] = damage_points(@, touched)]
        drop  == HintDropped(t1.frames[1])
        s     == IF drop THEN [scene EXCEPT !.hint = {}] ELSE scene
        t2    == IF drop THEN mark_frame(t1) ELSE t1
        t3    == IF s.overlay THEN mark_both(t2) ELSE t2
        t4    == damage_vi_cursor(t3, point_to_viewport(s.offset, s.vi))
        t5    == damage_selection(t4, s.sel, s.offset)
        t6    == [t5 EXCEPT !.frames[1] = damage_points(@, HintCells(s))]
        t7    == IF s.vi # {} THEN both_lines(t6, 0, SaturatingSub(FrameColumns, IndicatorLength), FrameColumns - 1)
                 ELSE t6
        t8    == IF s.timer THEN both_lines(t7, SaturatingSub(FrameLines, 2), 0, TimerLength) ELSE t7
        t9    == IF s.hint # {} THEN both_lines(t8, PreviewLine(s), 0, FrameColumns) ELSE t8
    IN  /\ tracker' = swap_damage(t9)
        /\ stale' = {c \in stale \cup Changed(drawn, s, touched) : ~IsRepainted(t9.frames[1], c)}
        /\ scene' = s /\ drawn' = s /\ touched' = {} /\ changes' = 0
        /\ hintAge' = IF s.hint = {} THEN 0 ELSE 1

-----------------------------------------------------------------------------
(* Between two frames *)

ChangeScene(new) ==
    /\ changes < MaxChanges /\ changes' = changes + 1
    /\ scene' = new /\ scene' # scene
    /\ UNCHANGED <<drawn, stale>>

(* The terminal writes a cell, and reports it as damaged. *)
TerminalWrites(cell) ==
    /\ changes < MaxChanges /\ changes' = changes + 1
    /\ touched' = touched \cup {cell}
    /\ UNCHANGED <<tracker, scene, drawn, hintAge, stale>>

MoveVi(vi) == ChangeScene([scene EXCEPT !.vi = vi]) /\ UNCHANGED <<tracker, touched, hintAge>>
SelectLines(sel) == ChangeScene([scene EXCEPT !.sel = sel]) /\ UNCHANGED <<tracker, touched, hintAge>>
ScrollScene(offset) == ChangeScene([scene EXCEPT !.offset = offset]) /\ UNCHANGED <<tracker, touched, hintAge>>
ToggleOverlay == ChangeScene([scene EXCEPT !.overlay = ~scene.overlay]) /\ UNCHANGED <<tracker, touched, hintAge>>
RenderTimer == ChangeScene([scene EXCEPT !.timer = ~scene.timer]) /\ UNCHANGED <<tracker, touched, hintAge>>

(* Display::update_highlighted_hints: the mouse finds a hint, or another one,
   and the text it finds is the text of the terminal. *)
HighlightHint(hint, mouse) ==
    /\ ChangeScene([scene EXCEPT !.hint = hint, !.mouse = mouse])
    /\ tracker' = IF hint # scene.hint THEN mark_frame(tracker) ELSE tracker
    /\ hintAge' = 0
    /\ UNCHANGED touched

ResizeDisplay ==
    /\ changes < MaxChanges /\ changes' = changes + 1
    /\ tracker' = resize_tracker(tracker)
    /\ UNCHANGED <<scene, drawn, touched, hintAge, stale>>

DamageInit ==
    /\ tracker = resize_tracker([frames |-> <<UndamagedFrame, UndamagedFrame>>,
                                 old_vi |-> {}, old_sel |-> {}])
    /\ scene = [vi |-> {}, sel |-> {}, offset |-> 0, overlay |-> FALSE, timer |-> FALSE,
                hint |-> {}, mouse |-> 0]
    /\ drawn = scene /\ touched = {} /\ changes = 0 /\ stale = FrameCells
    /\ hintAge = 0

AtMostOne(S) == {{}} \cup {{x} : x \in S}

DamageNext ==
    \/ DrawFrame \/ ToggleOverlay \/ RenderTimer \/ ResizeDisplay
    \/ \E cell \in FrameCells : TerminalWrites(cell)
    \/ \E vi \in AtMostOne(ViPoints) : MoveVi(vi)
    \/ \E sel \in AtMostOne(SelectedRanges) : SelectLines(sel)
    \/ \E offset \in 0..MaxOffset : ScrollScene(offset)
    \/ \E hint \in AtMostOne(HintLines), mouse \in HintLines : HighlightHint(hint, mouse)

-----------------------------------------------------------------------------

(* Nothing stays on the window that the last frame does not show: the damage of
   a frame covers all that it draws differently from the frame before, elements
   that are gone included, which their own frame had to leave as damage for the
   next one (damage.rs, and the calls of it in Display::draw). *)
WindowShowsFrame == stale = {} \/ tracker.frames[1].full

=============================================================================
