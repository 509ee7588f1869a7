--------------------------- MODULE PositionProofs ----------------------------
(***************************************************************************)
(* What is kept outside of the grid but points into it stays in it: the    *)
(* selection, the vi cursor, and what the search bar remembers, for        *)
(* screens of every size and scrollbacks of every length.                  *)
(*                                                                         *)
(* The argument: most operations hold the positions where they are (Held); *)
(* those that scroll move them with the text (Follows); those that move    *)
(* the view, or give the screen another size, move the vi cursor into the  *)
(* view (Viewed, InView).  All of them keep the positions in the grid      *)
(* (Stays, PositionsStay).  A step of the search is made of parts that     *)
(* move the view and forget the origin, or keep it (Searched, BarOK).      *)
(***************************************************************************)
EXTENDS TermProofs

(* Lines and columns of a number that counts cells in reading order. *)
LEMMA ReadingOrder ==
    ASSUME NEW n \in Nat \ {0}, NEW k \in Nat
    PROVE  k \div n \in Int /\ k % n \in 0..(n - 1) /\ k = n * (k \div n) + (k % n)
  OBVIOUS

(* There is one way to count to a cell. *)
LEMMA OneQuotient ==
    ASSUME NEW n \in Nat \ {0}, NEW q \in Int, NEW x \in Int,
           NEW c \in 0..(n - 1), NEW y \in 0..(n - 1), n * x + y = n * q + c
    PROVE  x = q /\ y = c
  <1>1. n * x \in Int /\ n * q \in Int OBVIOUS
  <1>2. ASSUME x >= q + 1 PROVE FALSE
    <2>1. n * x >= n * (q + 1) BY <1>2
    <2>2. n * (q + 1) = n * q + n OBVIOUS
    <2>. QED BY <1>1, <2>1, <2>2
  <1>3. ASSUME x <= q - 1 PROVE FALSE
    <2>1. n * x <= n * (q - 1) BY <1>3
    <2>2. n * (q - 1) = n * q - n OBVIOUS
    <2>. QED BY <1>1, <2>1, <2>2
  <1>4. x = q BY <1>2, <1>3
  <1>. QED BY <1>1, <1>4

(* The points of the grid are those of its lines and its columns. *)
LEMMA GridPointsAre ==
    ASSUME NEW d, d.cols \in Nat \ {0}, d.lines \in Nat \ {0}, d.hist \in Nat
    PROVE  /\ \A p \in GridPoints(d) : \E l \in (-d.hist)..(d.lines - 1), c \in 0..(d.cols - 1) :
                p = Point(l, c)
           /\ \A l \in (-d.hist)..(d.lines - 1), c \in 0..(d.cols - 1) : Point(l, c) \in GridPoints(d)
  <1>0. PICK n \in Nat \ {0}, m \in Nat \ {0}, h \in Nat : n = d.cols /\ m = d.lines /\ h = d.hist
    OBVIOUS
  <1>1. Cells(d) = 0..((h + m) * n - 1) /\ topmost_line(d) = -h
    BY <1>0 DEF Cells, total_lines, topmost_line
  <1>2. ASSUME NEW k \in Cells(d)
        PROVE  \E l \in (-h)..(m - 1), c \in 0..(n - 1) : PointOf(d, k) = Point(l, c)
    <2>1. k \in Nat /\ k < (h + m) * n BY <1>1
    <2>2. PICK q \in Int, r \in 0..(n - 1) : q = k \div n /\ r = k % n /\ k = n * q + r
      BY <2>1, ReadingOrder
    <2>3. n * q \in Int OBVIOUS
    <2>4. q >= 0
      <3>1. ASSUME q <= -1 PROVE FALSE
        <4>1. n * q <= n * (-1) BY <3>1
        <4>. QED BY <2>1, <2>2, <2>3, <4>1
      <3>. QED BY <3>1
    <2>5. q < h + m
      <3>1. ASSUME q >= h + m PROVE FALSE
        <4>1. n * q >= n * (h + m) /\ (h + m) * n = n * (h + m) BY <3>1
        <4>. QED BY <2>1, <2>2, <2>3, <4>1
      <3>. QED BY <3>1
    <2>6. PointOf(d, k) = Point(-h + q, r) BY <1>0, <1>1, <2>2 DEF PointOf
    <2>7. -h + q \in (-h)..(m - 1) BY <2>4, <2>5
    <2>. QED BY <2>6, <2>7
  <1>3. ASSUME NEW l \in (-h)..(m - 1), NEW c \in 0..(n - 1)
        PROVE  \E k \in Cells(d) : PointOf(d, k) = Point(l, c)
    <2>1. PICK q \in Nat : q = l + h /\ q <= h + m - 1 OBVIOUS
    <2>2. PICK k \in Int : k = n * q + c OBVIOUS
    <2>3. n * q \in Nat /\ n * q <= n * (h + m - 1) /\ n * (h + m - 1) = (h + m) * n - n BY <2>1
    <2>4. k \in 0..((h + m) * n - 1) /\ k \in Nat BY <2>2, <2>3
    <2>5. PICK x \in Int, y \in 0..(n - 1) : x = k \div n /\ y = k % n /\ k = n * x + y
      BY <2>4, ReadingOrder
    <2>6. x = q /\ y = c
      <3>1. q \in Int /\ n * x + y = n * q + c BY <2>2, <2>5
      <3>. QED BY <3>1, OneQuotient
    <2>7. PointOf(d, k) = Point(l, c) BY <1>0, <1>1, <2>1, <2>5, <2>6 DEF PointOf
    <2>. QED BY <1>1, <2>4, <2>7
  <1>4. (-h)..(m - 1) = (-d.hist)..(d.lines - 1) /\ 0..(n - 1) = 0..(d.cols - 1) BY <1>0
  <1>5. ASSUME NEW p \in GridPoints(d)
        PROVE  \E l \in (-d.hist)..(d.lines - 1), c \in 0..(d.cols - 1) : p = Point(l, c)
    <2>1. PICK k \in Cells(d) : p = PointOf(d, k) BY <1>5 DEF GridPoints
    <2>. QED BY <1>2, <1>4, <2>1
  <1>6. ASSUME NEW l \in (-d.hist)..(d.lines - 1), NEW c \in 0..(d.cols - 1)
        PROVE  Point(l, c) \in GridPoints(d)
    <2>1. PICK k \in Cells(d) : PointOf(d, k) = Point(l, c) BY <1>3, <1>4, <1>6
    <2>2. PointOf(d, k) \in GridPoints(d) BY <2>1 DEF GridPoints
    <2>. QED BY <2>1, <2>2
  <1>. QED BY <1>5, <1>6

-----------------------------------------------------------------------------
(* The positions *)

(* A point of a screen or of the scrollback above it, however long that is. *)
PointIn(p, cols, lines) == p \in [line : Int, col : Nat] /\ p.line < lines /\ p.col < cols

(* Both ends of a selection are such points. *)
SelectionOK(s, cols, lines) ==
    /\ DOMAIN s = {"ty", "start", "end"}
    /\ DOMAIN s.start = {"point", "side"} /\ PointIn(s.start.point, cols, lines)
    /\ DOMAIN s.end = {"point", "side"} /\ PointIn(s.end.point, cols, lines)

(* So is the vi cursor, *)
ViOK(t) == PointIn(t.vi, t.cols, t.lines)
(* and so are the selections. *)
SelectionsOK(t) == \A s \in t.sel : SelectionOK(s, t.cols, t.lines)

(* The vi cursor is not above both the scrollback and the view, which may be above the
   scrollback but then is within its limit. *)
ViBelow(t) ==
    t.vi.line >= -t.grid.hist \/ (t.vi.line >= -t.grid.offset /\ t.grid.offset <= t.grid.limit)

(* A terminal and its screen have their fields. *)
Shaped(t) == DOMAIN t = TermFields /\ DOMAIN t.grid = ScreenFields

(* What an operation keeps of the positions: they stay in the grid. *)
Follows(t, s) ==
    /\ Shaped(s) /\ s.cols = t.cols /\ s.lines = t.lines
    /\ ViOK(t) => ViOK(s)
    /\ ViOK(t) /\ ViBelow(t) => ViBelow(s)
    /\ ViOK(t) /\ SelectionsOK(t) => SelectionsOK(s)

(* Most operations leave the positions, and the lines they are on, where they are;
   some of them drop the selection. *)
Held(t, s) ==
    /\ Shaped(s) /\ s.cols = t.cols /\ s.lines = t.lines
    /\ s.vi = t.vi /\ s.sel \subseteq t.sel
    /\ s.grid.hist = t.grid.hist /\ s.grid.offset = t.grid.offset /\ s.grid.limit = t.grid.limit

(* The vi cursor is in the grid exactly if it is a point of it and not above it. *)
LEMMA ViInGridIs ==
    ASSUME NEW t, GeometryOK(t)
    PROVE  t.vi \in GridPoints(Dims(t)) <=> ViOK(t) /\ t.vi.line >= -t.grid.hist
  <1>. PICK d : d = Dims(t) OBVIOUS
  <1>1. /\ d.cols = t.cols /\ d.lines = t.lines /\ d.hist = t.grid.hist
        /\ d.cols \in Nat \ {0} /\ d.lines \in Nat \ {0} /\ d.hist \in Nat
    BY DEF Dims, GeometryOK, ScreenOK
  <1>2. ASSUME t.vi \in GridPoints(d) PROVE ViOK(t) /\ t.vi.line >= -t.grid.hist
    <2>1. PICK l \in (-d.hist)..(d.lines - 1), c \in 0..(d.cols - 1) : t.vi = Point(l, c)
      BY <1>1, <1>2, GridPointsAre
    <2>. QED BY <1>1, <2>1 DEF ViOK, PointIn, Point
  <1>3. ASSUME ViOK(t), t.vi.line >= -t.grid.hist PROVE t.vi \in GridPoints(d)
    <2>1. t.vi = Point(t.vi.line, t.vi.col) BY <1>3 DEF ViOK, PointIn, Point
    <2>2. t.vi.line \in (-d.hist)..(d.lines - 1) /\ t.vi.col \in 0..(d.cols - 1)
      BY <1>1, <1>3 DEF ViOK, PointIn
    <2>. QED BY <1>1, <2>1, <2>2, GridPointsAre
  <1>. QED BY <1>2, <1>3

(* Nothing moves when nothing is done. *)
LEMMA HeldSame == ASSUME NEW t, Shaped(t) PROVE Held(t, t)
  BY DEF Held

(* One operation after another. *)
LEMMA FollowsTrans ==
    ASSUME NEW t, NEW s, NEW u, Follows(t, s), Follows(s, u)
    PROVE  Follows(t, u)
  BY DEF Follows

(* Positions that are left where they are stay in the grid. *)
LEMMA HeldFollows ==
    ASSUME NEW t, NEW s, Held(t, s)
    PROVE  Follows(t, s)
  BY DEF Held, Follows, ViOK, SelectionsOK, ViBelow

(* The same after another operation. *)
LEMMA FollowsHeld ==
    ASSUME NEW t, NEW s, NEW u, Follows(t, s), Held(s, u)
    PROVE  Follows(t, u)
  BY HeldFollows, FollowsTrans

(* A terminal with consistent geometry has its fields. *)
LEMMA GeometryShaped == ASSUME NEW t, GeometryOK(t) PROVE Shaped(t)
  BY DEF GeometryOK, ScreenOK, Shaped

(* The steps that the operations are made of leave the positions alone. *)
LEMMA HeldMoves ==
    ASSUME NEW t, NEW s, Held(t, s)
    PROVE  /\ \A line, col : Held(t, MoveTo(s, line, col))
           /\ \A col : Held(t, MoveToCol(s, col))
           /\ Held(t, NoWrap(s))
           /\ Held(t, [s EXCEPT !.grid.cursor.wrap = TRUE])
  BY DEF Held, Shaped, MoveTo, MoveToCol, NoWrap, TermFields, ScreenFields

(* Those that damage, *)
LEMMA HeldDamage ==
    ASSUME NEW t, NEW s, Held(t, s)
    PROVE  /\ \A line, left, right : Held(t, damage_line(s, line, left, right))
           /\ Held(t, damage_cursor(s))
           /\ Held(t, mark_fully_damaged(s))
  BY DEF Held, Shaped, damage_line, damage_cursor, mark_fully_damaged, TermFields

(* and those that write. *)
LEMMA HeldWrites ==
    ASSUME NEW t, NEW s, Held(t, s)
    PROVE  /\ \A line, left, right : Held(t, Write(s, line, left, right))
           /\ \A top, bottom : Held(t, WriteLines(s, top, bottom))
           /\ \A line, col : Held(t, Smudge(s, line, col))
           /\ \A from, to : Held(t, [s EXCEPT !.sel = Unless(s.sel, from, to)])
           /\ Held(t, [s EXCEPT !.sel = NoSelection])
  BY DEF Held, Shaped, Write, WriteLines, Smudge, Unless, NoSelection, TermFields

-----------------------------------------------------------------------------
(* Operations that leave the positions alone *)

(* Moving the cursor. *)
LEMMA MovesHeld ==
    ASSUME NEW t, Shaped(t)
    PROVE  /\ \A line, col : Held(t, goto(t, line, col))
           /\ \A n : Held(t, goto_line(t, n)) /\ Held(t, goto_col(t, n))
           /\ \A n : Held(t, move_up(t, n)) /\ Held(t, move_down(t, n))
           /\ \A n : Held(t, move_up_and_cr(t, n)) /\ Held(t, move_down_and_cr(t, n))
           /\ \A n : Held(t, move_forward(t, n)) /\ Held(t, move_backward(t, n))
           /\ Held(t, backspace(t)) /\ Held(t, carriage_return(t))
           /\ \A n : Held(t, move_forward_tabs(t, n)) /\ Held(t, move_backward_tabs(t, n))
  <1>0. Held(t, t) BY HeldSame
  <1>1. ASSUME NEW line, NEW col PROVE Held(t, goto(t, line, col))
    <2>1. PICK l, c : goto(t, line, col) = NoWrap(damage_cursor(MoveTo(damage_cursor(t), l, c)))
      BY DEF goto
    <2>2. Held(t, damage_cursor(t)) BY <1>0, HeldDamage
    <2>3. Held(t, MoveTo(damage_cursor(t), l, c)) BY <2>2, HeldMoves
    <2>4. Held(t, damage_cursor(MoveTo(damage_cursor(t), l, c))) BY <2>3, HeldDamage
    <2>. QED BY <2>1, <2>4, HeldMoves
  <1>2. \A line, left, right, col :
          /\ Held(t, MoveToCol(damage_line(t, line, left, right), col))
          /\ Held(t, NoWrap(MoveToCol(damage_line(t, line, left, right), col)))
          /\ Held(t, damage_line(MoveToCol(t, col), line, left, right))
          /\ Held(t, damage_line(NoWrap(MoveToCol(t, col)), line, left, right))
    BY <1>0, HeldMoves, HeldDamage
  <1>3. \A n : /\ Held(t, goto_line(t, n)) /\ Held(t, goto_col(t, n))
               /\ Held(t, move_up(t, n)) /\ Held(t, move_down(t, n))
               /\ Held(t, move_up_and_cr(t, n)) /\ Held(t, move_down_and_cr(t, n))
    BY <1>1 DEF goto_line, goto_col, move_up, move_down, move_up_and_cr, move_down_and_cr
  <1>4. \A n : /\ Held(t, move_forward(t, n)) /\ Held(t, move_backward(t, n))
               /\ Held(t, move_forward_tabs(t, n)) /\ Held(t, move_backward_tabs(t, n))
    BY <1>2 DEF move_forward, move_backward, move_forward_tabs, move_backward_tabs
  <1>5. Held(t, backspace(t)) /\ Held(t, carriage_return(t))
    BY <1>0, <1>2 DEF backspace, carriage_return
  <1>. QED BY <1>1, <1>3, <1>4, <1>5

(* Writing at the cursor and drawing, erasing, and the alignment pattern. *)
LEMMA WritesHeld ==
    ASSUME NEW t, NEW s, Held(t, s)
    PROVE  /\ \A under : Held(t, write_at_cursor(s, under)) /\ Held(t, input_zerowidth(s, under))
           /\ Held(t, Advance(s)) /\ Held(t, decaln(s))
           /\ \A n : /\ Held(t, insert_blank(s, n)) /\ Held(t, delete_chars(s, n))
                     /\ Held(t, erase_chars(s, n))
           /\ \A mode : Held(t, clear_line(s, mode))
  <1>1. \A under : Held(t, write_at_cursor(s, under)) /\ Held(t, input_zerowidth(s, under))
    <2>1. \A line, left, right : Held(t, Write(s, line, left, right)) BY HeldWrites
    <2>2. \A line, left, right, l, c : Held(t, Smudge(Write(s, line, left, right), l, c))
      BY <2>1, HeldWrites
    <2>. QED BY <2>1, <2>2, HeldWrites DEF write_at_cursor, input_zerowidth
  <1>2. Held(t, Advance(s)) BY HeldMoves DEF Advance
  <1>3. Held(t, decaln(s)) BY HeldWrites, HeldDamage DEF decaln
  <1>4. \A line, left, right, l, a, b : Held(t, Write(damage_line(s, line, left, right), l, a, b))
    BY HeldWrites, HeldDamage
  <1>5. \A n : Held(t, insert_blank(s, n)) /\ Held(t, delete_chars(s, n)) /\ Held(t, erase_chars(s, n))
    BY <1>4 DEF insert_blank, delete_chars, erase_chars
  <1>6. ASSUME NEW mode PROVE Held(t, clear_line(s, mode))
    <2>1. PICK line, left, right, l, a, b, from, to :
            \/ clear_line(s, mode) = s
            \/ clear_line(s, mode) =
                 [Write(damage_line(s, line, left, right), l, a, b) EXCEPT !.sel = Unless(s.sel, from, to)]
      BY DEF clear_line
    <2>2. PICK w : w = Write(damage_line(s, line, left, right), l, a, b) OBVIOUS
    <2>3. Held(t, w) BY <1>4, <2>2
    <2>4. Held(t, [w EXCEPT !.sel = Unless(s.sel, from, to)])
      BY <2>3 DEF Held, Shaped, Unless, TermFields
    <2>. QED BY <2>1, <2>2, <2>4
  <1>. QED BY <1>1, <1>2, <1>3, <1>5, <1>6

(* What touches none of the fields the positions depend on leaves them alone. *)
LEMMA OtherHeld ==
    ASSUME NEW t, Shaped(t), NEW s, DOMAIN s = TermFields, s.grid = t.grid,
           s.cols = t.cols, s.lines = t.lines, s.vi = t.vi, s.sel \subseteq t.sel
    PROVE  Held(t, s)
  BY DEF Held, Shaped

(* The tab stops, the saved cursor, the attributes and the scrolling region. *)
LEMMA SettingsHeld ==
    ASSUME NEW t, Shaped(t)
    PROVE  /\ Held(t, set_horizontal_tabstop(t)) /\ Held(t, save_cursor_position(t))
           /\ Held(t, restore_cursor_position(t))
           /\ \A mode : Held(t, clear_tabs(t, mode))
           /\ \A top, bottom : Held(t, set_scrolling_region(t, top, bottom))
           /\ Held(t, deccolm(t)) /\ Held(t, ToggleAutoScroll(t))
           /\ \A attr : Held(t, terminal_attribute(t, attr))
  <1>0. Held(t, t) BY HeldSame
  <1>1. /\ Held(t, set_horizontal_tabstop(t)) /\ \A mode : Held(t, clear_tabs(t, mode))
    BY DEF Held, Shaped, set_horizontal_tabstop, clear_tabs, TermFields
  <1>2. /\ Held(t, save_cursor_position(t)) /\ Held(t, ToggleAutoScroll(t))
        /\ \A attr : Held(t, terminal_attribute(t, attr))
    BY DEF Held, Shaped, save_cursor_position, ToggleAutoScroll, terminal_attribute, TermFields, ScreenFields
  <1>3. Held(t, restore_cursor_position(t))
    <2>1. PICK d : d = damage_cursor(t) OBVIOUS
    <2>2. Held(t, d) BY <1>0, <2>1, HeldDamage
    <2>3. Held(t, [d EXCEPT !.grid.cursor = t.grid.saved])
      BY <2>2 DEF Held, Shaped, TermFields, ScreenFields
    <2>. QED BY <2>1, <2>3, HeldDamage DEF restore_cursor_position
  <1>4. ASSUME NEW top, NEW bottom PROVE Held(t, set_scrolling_region(t, top, bottom))
    <2>1. PICK r : \/ set_scrolling_region(t, top, bottom) = t
                   \/ set_scrolling_region(t, top, bottom) = goto([t EXCEPT !.region = r], 0, 0)
      BY DEF set_scrolling_region
    <2>2. PICK s : s = [t EXCEPT !.region = r] OBVIOUS
    <2>3. Held(t, s) BY <2>2 DEF Held, Shaped, TermFields
    <2>4. Shaped(s) BY <2>3 DEF Held
    <2>5. Held(s, goto(s, 0, 0)) BY <2>4, MovesHeld
    <2>6. Held(t, goto(s, 0, 0)) BY <2>3, <2>5 DEF Held
    <2>. QED BY <1>0, <2>1, <2>2, <2>6
  <1>5. Held(t, deccolm(t)) BY <1>4, HeldWrites, HeldDamage DEF deccolm
  <1>. QED BY <1>1, <1>2, <1>3, <1>4, <1>5

(* With, Without and the setting of the modes otherwise. *)
LEMMA ModeHeld ==
    ASSUME NEW t, Shaped(t)
    PROVE  /\ \A flag : Held(t, With(t, flag)) /\ Held(t, Without(t, flag))
           /\ \A mode : Held(t, [t EXCEPT !.mode = mode])
  BY OtherHeld DEF With, Without, Shaped, TermFields

(* Setting and unsetting a private mode, unless it swaps the screens. *)
LEMMA PrivateHeld ==
    ASSUME NEW t, Shaped(t), NEW mode \in PrivateModes
    PROVE  /\ Held(t, set_private_mode(t, mode)) \/ set_private_mode(t, mode) = swap_alt(t)
           /\ Held(t, unset_private_mode(t, mode)) \/ unset_private_mode(t, mode) = swap_alt(t)
  <1>0. Held(t, t) BY HeldSame
  <1>1. ASSUME NEW s, Held(t, s) PROVE \A flag : Held(t, With(s, flag)) /\ Held(t, Without(s, flag))
    BY <1>1, ModeHeld DEF Held
  <1>2. \A on : Held(t, SetBlinking(t, on)) BY OtherHeld DEF SetBlinking, Shaped, TermFields
  <1>3. Held(t, deccolm(t)) BY SettingsHeld
  <1>4. Held(t, goto(With(t, "ORIGIN"), 0, 0))
    <2>1. PICK s : s = With(t, "ORIGIN") OBVIOUS
    <2>2. Held(t, s) /\ Shaped(s) BY <1>0, <1>1, <2>1 DEF Held
    <2>3. Held(s, goto(s, 0, 0)) BY <2>2, MovesHeld
    <2>. QED BY <2>1, <2>2, <2>3 DEF Held
  <1>5. Held(t, set_private_mode(t, mode)) \/ set_private_mode(t, mode) = swap_alt(t)
    <2>1. \A flag, other : /\ Held(t, With([t EXCEPT !.mode = other], flag))
                           /\ Held(t, With(Without(t, other), flag))
      BY <1>0, <1>1, ModeHeld
    <2>2. \/ set_private_mode(t, mode) \in {t, swap_alt(t), deccolm(t), SetBlinking(t, TRUE),
                                            goto(With(t, "ORIGIN"), 0, 0)}
          \/ \E flag, other : set_private_mode(t, mode) \in
               {With([t EXCEPT !.mode = other], flag), With(Without(t, other), flag), With(t, flag)}
      BY Zenon DEF set_private_mode
    <2>. QED BY <1>0, <1>1, <1>2, <1>3, <1>4, <2>1, <2>2
  <1>6. Held(t, unset_private_mode(t, mode)) \/ unset_private_mode(t, mode) = swap_alt(t)
    <2>1. \/ unset_private_mode(t, mode) \in {t, swap_alt(t), deccolm(t), SetBlinking(t, FALSE)}
          \/ \E flag : unset_private_mode(t, mode) = Without(t, flag)
      BY Zenon DEF unset_private_mode
    <2>. QED BY <1>0, <1>1, <1>2, <1>3, <2>1
  <1>. QED BY <1>5, <1>6

(* The public modes, the keypad, the style, the colors, the titles. *)
LEMMA SmallHeld ==
    ASSUME NEW t, Shaped(t)
    PROVE  /\ \A mode : Held(t, set_mode(t, mode)) /\ Held(t, unset_mode(t, mode))
           /\ Held(t, set_keypad_application_mode(t)) /\ Held(t, unset_keypad_application_mode(t))
           /\ Held(t, ReportBlinking(t))
           /\ \A x : /\ Held(t, set_active_charset(t, x)) /\ Held(t, set_cursor_style(t, x))
                     /\ Held(t, set_cursor_shape(t, x)) /\ Held(t, set_title(t, x))
                     /\ Held(t, reset_color(t, x))
           /\ \A index, rgb : Held(t, set_color(t, index, rgb))
           /\ Held(t, push_title(t)) /\ Held(t, pop_title(t))
  <1>0. Held(t, t) BY HeldSame
  <1>1. \A mode : Held(t, set_mode(t, mode)) /\ Held(t, unset_mode(t, mode))
    BY ModeHeld, HeldDamage DEF set_mode, unset_mode
  <1>2. Held(t, set_keypad_application_mode(t)) /\ Held(t, unset_keypad_application_mode(t))
    BY ModeHeld DEF set_keypad_application_mode, unset_keypad_application_mode
  <1>3. /\ Held(t, ReportBlinking(t))
        /\ \A x : /\ Held(t, set_active_charset(t, x)) /\ Held(t, set_cursor_style(t, x))
                  /\ Held(t, set_cursor_shape(t, x)) /\ Held(t, set_title(t, x))
    BY OtherHeld DEF ReportBlinking, set_active_charset, set_cursor_style, set_cursor_shape, set_title,
       Shaped, TermFields
  <1>4. \A index, rgb : Held(t, [t EXCEPT !.colors[index] = rgb])
    BY OtherHeld DEF Shaped, TermFields
  <1>5. /\ \A x : Held(t, reset_color(t, x))
        /\ \A index, rgb : Held(t, set_color(t, index, rgb))
    BY <1>4, HeldDamage DEF reset_color, set_color
  <1>6. Held(t, push_title(t)) BY OtherHeld DEF push_title, Shaped, TermFields
  <1>7. Held(t, pop_title(t))
    <2>1. PICK s : s = [t EXCEPT !.titles = Front(t.titles)] OBVIOUS
    <2>2. Held(t, s) BY <2>1, OtherHeld DEF Shaped, TermFields
    <2>3. Held(t, [s EXCEPT !.title = Last(t.titles)]) BY <2>2 DEF Held, Shaped, TermFields
    <2>. QED BY <1>0, <2>1, <2>3 DEF pop_title, set_title
  <1>. QED BY <1>1, <1>2, <1>3, <1>5, <1>6, <1>7

(* The keyboard modes. *)
LEMMA KeyboardHeld ==
    ASSUME NEW t, Shaped(t)
    PROVE  /\ \A mode : Held(t, push_keyboard_mode(t, mode))
           /\ \A n : Held(t, pop_keyboard_modes(t, n))
           /\ \A mode, apply : Held(t, apply_keyboard_mode(t, mode, apply))
  <1>0. Held(t, t) BY HeldSame
  <1>1. ASSUME NEW s, Held(t, s), NEW mode, NEW apply PROVE Held(t, set_keyboard_mode(s, mode, apply))
    <2>1. PICK m : set_keyboard_mode(s, mode, apply) = [s EXCEPT !.mode = m] BY DEF set_keyboard_mode
    <2>. QED BY <1>1, <2>1 DEF Held, Shaped, TermFields
  <1>2. ASSUME NEW mode PROVE Held(t, push_keyboard_mode(t, mode))
    <2>1. PICK s : s = IF Len(t.keyboard) >= KEYBOARD_MODE_STACK_MAX_DEPTH /\ t.titles # <<>>
                       THEN [t EXCEPT !.titles = Tail(t.titles)] ELSE t
      OBVIOUS
    <2>2. Held(t, s) BY <1>0, <2>1, OtherHeld DEF Shaped, TermFields
    <2>3. PICK k : k = [s EXCEPT !.keyboard = Append(s.keyboard, mode)] OBVIOUS
    <2>4. Held(t, k) BY <2>2, <2>3 DEF Held, Shaped, TermFields
    <2>5. Held(t, [t EXCEPT !.panicked = TRUE]) BY OtherHeld DEF Shaped, TermFields
    <2>6. push_keyboard_mode(t, mode) \in
            {t, [t EXCEPT !.panicked = TRUE], set_keyboard_mode(k, mode, "Replace")}
      BY <2>1, <2>3, Zenon DEF push_keyboard_mode
    <2>. QED BY <1>0, <1>1, <2>4, <2>5, <2>6
  <1>3. ASSUME NEW n PROVE Held(t, pop_keyboard_modes(t, n))
    <2>1. PICK stack : pop_keyboard_modes(t, n) \in
            {t, set_keyboard_mode([t EXCEPT !.keyboard = stack], TopMode(stack), "Replace")}
      BY Zenon DEF pop_keyboard_modes
    <2>2. Held(t, [t EXCEPT !.keyboard = stack]) BY OtherHeld DEF Shaped, TermFields
    <2>. QED BY <1>0, <1>1, <2>1, <2>2
  <1>4. \A mode, apply : Held(t, apply_keyboard_mode(t, mode, apply))
    BY <1>0, <1>1 DEF apply_keyboard_mode
  <1>. QED BY <1>2, <1>3, <1>4

(* Drawing a frame. *)
LEMMA DrawHeld ==
    ASSUME NEW t, Shaped(t)
    PROVE  Held(t, Draw(t))
  <1>0. Held(t, t) BY HeldSame
  <1>1. Held(t, damage(t))
    <2>1. PICK s : s = IF Has(t, "INSERT") THEN mark_fully_damaged(t) ELSE t OBVIOUS
    <2>2. PICK u : u = [s EXCEPT !.damage.last = CursorPoint(s)] OBVIOUS
    <2>3. PICK l, c : damage(t) \in {u, damage_cursor(u), damage_cursor(damage_line(u, l, c, c))}
      BY <2>1, <2>2 DEF damage
    <2>4. Held(t, s) BY <1>0, <2>1, HeldDamage
    <2>5. Held(t, u) BY <2>2, <2>4 DEF Held, Shaped, TermFields
    <2>. QED BY <2>3, <2>5, HeldDamage
  <1>2. ASSUME NEW s, Held(t, s) PROVE Held(t, [reset_damage(s) EXCEPT !.since = "kept"])
    BY <1>2 DEF Held, Shaped, reset_damage, TermFields
  <1>. QED BY <1>1, <1>2 DEF Draw

-----------------------------------------------------------------------------
(* Selections that move with the text *)

(* The ends of a selection, whichever is the upper one. *)
LEMMA UpperLower ==
    ASSUME NEW cols \in Nat, NEW lines \in Nat, NEW s, SelectionOK(s, cols, lines)
    PROVE  /\ DOMAIN Upper(s) = {"point", "side"} /\ PointIn(Upper(s).point, cols, lines)
           /\ DOMAIN Lower(s) = {"point", "side"} /\ PointIn(Lower(s).point, cols, lines)
  BY DEF SelectionOK, Upper, Lower

(* New ends. *)
LEMMA SetBothOK ==
    ASSUME NEW cols \in Nat, NEW lines \in Nat, NEW s, DOMAIN s = {"ty", "start", "end"},
           NEW a, DOMAIN a = {"point", "side"}, PointIn(a.point, cols, lines),
           NEW b, DOMAIN b = {"point", "side"}, PointIn(b.point, cols, lines)
    PROVE  SelectionOK(SetBoth(s, a, b), cols, lines)
  BY DEF SelectionOK, SetBoth

(* An end that a region moves with its lines stays in the grid: of what leaves the region
   at its top or bottom the part in it remains. Where the screen has become smaller (d),
   the region is all of the larger one. *)
LEMMA RotatedEnds ==
    ASSUME NEW d, NEW cols \in Nat \ {0}, NEW lines \in Nat \ {0}, d.cols = cols, d.lines = lines,
           NEW old \in Nat, NEW top \in Nat, NEW bottom \in Nat, NEW delta \in Int,
           old <= lines \/ (top = 0 /\ old <= bottom),
           top = 0 => lines <= bottom \/ old <= lines,
           NEW s, SelectionOK(s, cols, old)
    PROVE  LET a == rotate_start(d, s, top, bottom, delta)
               b == rotate_end(d, s, top, bottom, delta)
           IN  /\ DOMAIN a = {"point", "side"} /\ PointIn(a.point, cols, lines)
               /\ DOMAIN b = {"point", "side"} /\ PointIn(b.point, cols, lines)
  <1>1. ASSUME NEW p \in [line : Int, col : Nat], p.line < old, p.col < cols
        PROVE  /\ ~InRotated(p.line, top, bottom) => PointIn(p, cols, lines)
               /\ InRotated(p.line, top, bottom) =>
                    LET moved == MinOf(p.line - delta, lines - 1)
                    IN  /\ moved \in Int /\ moved < lines
                        /\ moved < top /\ top # 0 => top < lines
                        /\ moved >= bottom => bottom - 1 < lines
    BY <1>1 DEF InRotated, PointIn, MinOf
  <1>2. PICK p, q : p = Upper(s).point /\ q = Lower(s).point OBVIOUS
  <1>3. /\ p \in [line : Int, col : Nat] /\ p.line < old /\ p.col < cols /\ DOMAIN Upper(s) = {"point", "side"}
        /\ q \in [line : Int, col : Nat] /\ q.line < old /\ q.col < cols /\ DOMAIN Lower(s) = {"point", "side"}
    BY <1>2, UpperLower DEF PointIn
  <1>4. bottommost_line(d) = lines - 1 /\ last_column(d) = cols - 1 BY DEF bottommost_line, last_column
  <1>5. DOMAIN rotate_start(d, s, top, bottom, delta) = {"point", "side"}
        /\ PointIn(rotate_start(d, s, top, bottom, delta).point, cols, lines)
    <2>1. PICK moved : moved = MinOf(p.line - delta, lines - 1) OBVIOUS
    <2>2. CASE ~InRotated(p.line, top, bottom) BY <1>1, <1>2, <1>3, <2>2 DEF rotate_start
    <2>3. CASE InRotated(p.line, top, bottom)
      <3>1. PICK line \in Int, col \in Nat :
              /\ line = IF moved < top /\ top # 0 THEN top ELSE moved
              /\ col = IF moved < top /\ top # 0 /\ s.ty # "Block" THEN 0 ELSE p.col
              /\ line < lines /\ col < cols
        BY <1>1, <1>3, <2>1, <2>3
      <3>2. PICK side : rotate_start(d, s, top, bottom, delta) = [point |-> Point(line, col), side |-> side]
        BY <1>2, <1>4, <2>1, <2>3, <3>1 DEF rotate_start
      <3>. QED BY <3>1, <3>2 DEF PointIn, Point
    <2>. QED BY <2>2, <2>3
  <1>6. DOMAIN rotate_end(d, s, top, bottom, delta) = {"point", "side"}
        /\ PointIn(rotate_end(d, s, top, bottom, delta).point, cols, lines)
    <2>1. PICK moved : moved = MinOf(q.line - delta, lines - 1) OBVIOUS
    <2>2. CASE ~InRotated(q.line, top, bottom) BY <1>1, <1>2, <1>3, <2>2 DEF rotate_end
    <2>3. CASE InRotated(q.line, top, bottom)
      <3>1. PICK line \in Int, col \in Nat :
              /\ line = IF moved >= bottom THEN bottom - 1 ELSE moved
              /\ col = IF moved >= bottom /\ s.ty # "Block" THEN cols - 1 ELSE q.col
              /\ line < lines /\ col < cols
        BY <1>1, <1>3, <2>1, <2>3
      <3>2. PICK side : rotate_end(d, s, top, bottom, delta) = [point |-> Point(line, col), side |-> side]
        BY <1>2, <1>4, <2>1, <2>3, <3>1 DEF rotate_end
      <3>. QED BY <3>1, <3>2 DEF PointIn, Point
    <2>. QED BY <2>2, <2>3
  <1>. QED BY <1>5, <1>6

(* So does the selection, if it is not scrolled away. *)
LEMMA RotateOK ==
    ASSUME NEW d, NEW cols \in Nat \ {0}, NEW lines \in Nat \ {0}, d.cols = cols, d.lines = lines,
           NEW old \in Nat, NEW top \in Nat, NEW bottom \in Nat, NEW delta \in Int,
           old <= lines \/ (top = 0 /\ old <= bottom),
           top = 0 => lines <= bottom \/ old <= lines,
           NEW s, SelectionOK(s, cols, old)
    PROVE  \A r \in rotate_selection(d, s, top, bottom, delta) : SelectionOK(r, cols, lines)
  <1>1. PICK a, b : /\ a = rotate_start(d, s, top, bottom, delta)
                    /\ b = rotate_end(d, s, top, bottom, delta)
    OBVIOUS
  <1>2. /\ DOMAIN a = {"point", "side"} /\ PointIn(a.point, cols, lines)
        /\ DOMAIN b = {"point", "side"} /\ PointIn(b.point, cols, lines)
    <2>1. LET x == rotate_start(d, s, top, bottom, delta)
              y == rotate_end(d, s, top, bottom, delta)
          IN  /\ DOMAIN x = {"point", "side"} /\ PointIn(x.point, cols, lines)
              /\ DOMAIN y = {"point", "side"} /\ PointIn(y.point, cols, lines)
      BY RotatedEnds
    <2>. QED BY <1>1, <2>1
  <1>3. rotate_selection(d, s, top, bottom, delta) \subseteq {SetBoth(s, a, b)}
    BY <1>1 DEF rotate_selection, NoSelection
  <1>4. SelectionOK(SetBoth(s, a, b), cols, lines)
    BY <1>2, SetBothOK DEF SelectionOK
  <1>. QED BY <1>3, <1>4

(* The text of a region moves up, and the vi cursor with it, but not above the view or
   the region. *)
LEMMA ScrollUpFollows ==
    ASSUME NEW t, GeometryOK(t), NEW origin \in Nat, NEW count \in Nat
    PROVE  Follows(t, scroll_up_relative(t, origin, count))
  <1>1. PICK end \in Nat, lines \in Nat, cols \in Nat \ {0}, rows \in Nat \ {0} :
          /\ end = t.region.end /\ lines = MinOf(count, end - t.region.start) /\ end <= rows
          /\ cols = t.cols /\ rows = t.lines
    BY DEF MinOf, GeometryOK, RegionOK
  <1>2. PICK g : g = scroll_up_grid(t.grid, origin, end, lines) OBVIOUS
  <1>3. /\ t.grid.limit \in Nat /\ t.grid.hist \in 0..t.grid.limit /\ t.grid.offset \in Nat
        /\ DOMAIN t.grid = ScreenFields
    BY DEF GeometryOK, ScreenOK
  <1>4. /\ DOMAIN g = ScreenFields /\ g.hist \in Nat /\ g.offset \in Nat /\ g.limit = t.grid.limit
        /\ t.grid.hist <= g.hist
        /\ t.grid.offset <= g.limit => t.grid.offset <= g.offset /\ g.offset <= g.limit
        /\ origin = 0 => g.offset <= g.limit
    <2>1. PICK o : o = scrolled_offset(t.grid, lines) OBVIOUS
    <2>2. /\ o \in Nat /\ o <= t.grid.limit
          /\ t.grid.offset <= t.grid.limit => t.grid.offset <= o
      BY <1>1, <1>3, <2>1 DEF scrolled_offset, MinOf
    <2>3. CASE g = t.grid /\ origin # 0 BY <1>3, <2>3
    <2>4. CASE g = [t.grid EXCEPT !.offset = o,
                           !.hist = IF origin = 0 THEN MinOf(t.grid.hist + lines, t.grid.limit)
                                    ELSE t.grid.hist]
      <3>1. MinOf(t.grid.hist + lines, t.grid.limit) \in Nat
            /\ t.grid.hist <= MinOf(t.grid.hist + lines, t.grid.limit)
        BY <1>1, <1>3 DEF MinOf
      <3>2. /\ DOMAIN g = ScreenFields /\ g.offset = o /\ g.limit = t.grid.limit
            /\ g.hist = IF origin = 0 THEN MinOf(t.grid.hist + lines, t.grid.limit) ELSE t.grid.hist
        BY <1>3, <2>4 DEF ScreenFields
      <3>. QED BY <1>1, <1>3, <2>2, <3>1, <3>2
    <2>. QED BY <1>2, <2>1, <2>3, <2>4 DEF scroll_up_grid
  <1>5. PICK sel : sel = Rotated(t, origin, end, lines) OBVIOUS
  <1>6. PICK top \in Int : top = IF origin = 0 THEN -g.offset ELSE origin BY <1>4
  <1>7. PICK line : line = IF top <= t.vi.line /\ t.vi.line < end THEN MaxOf(t.vi.line - lines, top) ELSE t.vi.line
    OBVIOUS
  <1>8. PICK s : s = [t EXCEPT !.sel = sel, !.grid = g, !.vi.line = line] OBVIOUS
  <1>9. scroll_up_relative(t, origin, count) = mark_fully_damaged(WriteLines(s, 0, t.lines - 1))
    BY <1>1, <1>2, <1>5, <1>6, <1>7, <1>8 DEF scroll_up_relative
  <1>10. /\ DOMAIN s = TermFields /\ s.cols = t.cols /\ s.lines = t.lines /\ s.grid = g
         /\ s.sel = sel /\ s.vi = [t.vi EXCEPT !.line = line]
    BY <1>8 DEF GeometryOK, TermFields
  <1>11. Shaped(s) BY <1>4, <1>10 DEF Shaped
  <1>12. ASSUME ViOK(t) PROVE ViOK(s) /\ (ViBelow(t) => ViBelow(s))
    <2>1. PICK v \in Int : v = t.vi.line /\ v < rows /\ t.vi \in [line : Int, col : Nat] /\ t.vi.col < cols
      BY <1>1, <1>12 DEF ViOK, PointIn
    <2>2. line \in Int /\ line < rows BY <1>1, <1>6, <1>7, <2>1 DEF MaxOf
    <2>3. s.vi \in [line : Int, col : Nat] /\ s.vi.line = line /\ s.vi.col = t.vi.col
      BY <1>10, <2>1, <2>2
    <2>4. ViOK(s) BY <1>1, <1>10, <2>1, <2>2, <2>3 DEF ViOK, PointIn
    <2>5. ASSUME ViBelow(t) PROVE ViBelow(s)
      <3>1. v >= -t.grid.hist \/ (v >= -t.grid.offset /\ t.grid.offset <= t.grid.limit)
        BY <2>1, <2>5 DEF ViBelow
      <3>2. CASE top <= v /\ v < end
        <4>1. line >= top BY <1>1, <1>6, <1>7, <2>1, <3>2 DEF MaxOf
        <4>. QED BY <1>4, <1>6, <1>10, <2>2, <2>3, <4>1 DEF ViBelow
      <3>3. CASE ~(top <= v /\ v < end)
        <4>1. line = v BY <1>7, <2>1, <3>3
        <4>. QED BY <1>3, <1>4, <1>10, <2>3, <3>1, <4>1 DEF ViBelow
      <3>. QED BY <3>2, <3>3
    <2>. QED BY <2>4, <2>5
  <1>13. ASSUME ViOK(t), SelectionsOK(t) PROVE SelectionsOK(s)
    <2>1. PICK d : d = Dims(t) OBVIOUS
    <2>9. d.cols = cols /\ d.lines = rows BY <1>1, <2>1 DEF Dims
    <2>2. ASSUME NEW r \in sel PROVE SelectionOK(r, cols, rows)
      <3>1. PICK q \in t.sel : r \in rotate_selection(d, q, origin, end, lines)
        BY <1>5, <2>1, <2>2 DEF Rotated
      <3>2. SelectionOK(q, cols, rows) BY <1>1, <1>13 DEF SelectionsOK
      <3>3. rows \in Nat /\ lines \in Int /\ rows <= rows BY <1>1
      <3>. QED BY <2>9, <3>1, <3>2, <3>3, RotateOK
    <2>. QED BY <1>1, <1>10, <2>2 DEF SelectionsOK
  <1>14. Follows(t, s) BY <1>10, <1>11, <1>12, <1>13 DEF Follows
  <1>15. Held(s, mark_fully_damaged(WriteLines(s, 0, t.lines - 1)))
    BY <1>11, HeldSame, HeldWrites, HeldDamage
  <1>. QED BY <1>9, <1>14, <1>15, FollowsHeld

(* down, and the vi cursor with it, but not below the region. *)
LEMMA ScrollDownFollows ==
    ASSUME NEW t, GeometryOK(t), NEW origin \in Nat, NEW count \in Nat
    PROVE  Follows(t, scroll_down_relative(t, origin, count))
  <1>1. PICK end \in Nat, start \in Nat, cols \in Nat \ {0}, rows \in Nat \ {0} :
          /\ end = t.region.end /\ start = t.region.start /\ start <= end /\ end <= rows
          /\ cols = t.cols /\ rows = t.lines
    BY DEF GeometryOK, RegionOK
  <1>2. PICK lines \in Int : /\ lines = MinOf(MinOf(count, end - start), end - origin)
                             /\ origin < end => lines >= 0
    <2>1. /\ MinOf(MinOf(count, end - start), end - origin) \in Int
          /\ origin < end => MinOf(MinOf(count, end - start), end - origin) >= 0
      BY <1>1 DEF MinOf
    <2>. QED BY <2>1
  <1>3. PICK sel : sel = Rotated(t, origin, end, -lines) OBVIOUS
  <1>4. PICK line : line = IF origin <= t.vi.line /\ t.vi.line < end THEN MinOf(t.vi.line + lines, end - 1) ELSE t.vi.line
    OBVIOUS
  <1>5. PICK s : s = [t EXCEPT !.sel = sel, !.vi.line = line] OBVIOUS
  <1>6. scroll_down_relative(t, origin, count) = mark_fully_damaged(WriteLines(s, origin, end - 1))
    BY <1>1, <1>2, <1>3, <1>4, <1>5 DEF scroll_down_relative
  <1>7. /\ DOMAIN s = TermFields /\ s.cols = t.cols /\ s.lines = t.lines /\ s.grid = t.grid
        /\ s.sel = sel /\ s.vi = [t.vi EXCEPT !.line = line]
    BY <1>5 DEF GeometryOK, TermFields
  <1>8. Shaped(s) BY <1>7 DEF Shaped, GeometryOK, ScreenOK
  <1>9. ASSUME ViOK(t) PROVE ViOK(s) /\ (ViBelow(t) => ViBelow(s))
    <2>1. PICK v \in Int : v = t.vi.line /\ v < rows /\ t.vi \in [line : Int, col : Nat] /\ t.vi.col < cols
      BY <1>1, <1>9 DEF ViOK, PointIn
    <2>2. line \in Int /\ line < rows /\ v <= line BY <1>1, <1>2, <1>4, <2>1 DEF MinOf
    <2>3. s.vi \in [line : Int, col : Nat] /\ s.vi.line = line /\ s.vi.col = t.vi.col
      BY <1>7, <2>1, <2>2
    <2>4. ViOK(s) BY <1>1, <1>7, <2>1, <2>2, <2>3 DEF ViOK, PointIn
    <2>5. t.grid.hist \in Int /\ t.grid.offset \in Int BY DEF GeometryOK, ScreenOK
    <2>. QED BY <1>7, <2>1, <2>2, <2>3, <2>4, <2>5 DEF ViBelow
  <1>10. ASSUME ViOK(t), SelectionsOK(t) PROVE SelectionsOK(s)
    <2>1. PICK d : d = Dims(t) OBVIOUS
    <2>2. d.cols = cols /\ d.lines = rows BY <1>1, <2>1 DEF Dims
    <2>3. ASSUME NEW r \in sel PROVE SelectionOK(r, cols, rows)
      <3>1. PICK q \in t.sel : r \in rotate_selection(d, q, origin, end, -lines)
        BY <1>3, <2>1, <2>3 DEF Rotated
      <3>2. SelectionOK(q, cols, rows) BY <1>1, <1>10 DEF SelectionsOK
      <3>3. rows \in Nat /\ -lines \in Int /\ rows <= rows BY <1>1, <1>2
      <3>. QED BY <2>2, <3>1, <3>2, <3>3, RotateOK
    <2>. QED BY <1>1, <1>7, <2>3 DEF SelectionsOK
  <1>11. Follows(t, s) BY <1>7, <1>8, <1>9, <1>10 DEF Follows
  <1>12. Held(s, mark_fully_damaged(WriteLines(s, origin, end - 1)))
    BY <1>8, HeldSame, HeldWrites, HeldDamage
  <1>. QED BY <1>6, <1>11, <1>12, FollowsHeld

(* Doing nothing. *)
LEMMA FollowsSame == ASSUME NEW t, GeometryOK(t) PROVE Follows(t, t) /\ Held(t, t) /\ Shaped(t)
  BY GeometryShaped, HeldSame, HeldFollows

(* The operations that scroll. *)
LEMMA ScrollsFollow ==
    ASSUME NEW t, GeometryOK(t), NEW n \in Nat
    PROVE  /\ Follows(t, scroll_up(t, n)) /\ Follows(t, scroll_down(t, n))
           /\ Follows(t, insert_blank_lines(t, n)) /\ Follows(t, delete_lines(t, n))
           /\ Follows(t, linefeed(t)) /\ Follows(t, newline(t)) /\ Follows(t, reverse_index(t))
  <1>0. Follows(t, t) /\ Held(t, t) /\ Shaped(t) BY FollowsSame
  <1>1. PICK start \in Nat, l \in Nat, h \in Nat : start = t.region.start /\ l = t.grid.cursor.line /\ h = t.lines /\ l < h
    BY DEF GeometryOK, RegionOK, ScreenOK, CursorOK
  <1>2. \A k \in Nat : Follows(t, scroll_up(t, k)) /\ Follows(t, scroll_down(t, k))
    BY <1>1, ScrollUpFollows, ScrollDownFollows DEF scroll_up, scroll_down
  <1>3. Follows(t, insert_blank_lines(t, n)) BY <1>0, <1>1, ScrollDownFollows DEF insert_blank_lines
  <1>4. MinOf(h - l, n) \in Nat BY <1>1 DEF MinOf
  <1>5. Follows(t, delete_lines(t, n)) BY <1>0, <1>1, <1>4, ScrollUpFollows DEF delete_lines
  <1>6. \A line, col : Follows(t, damage_cursor(MoveTo(damage_cursor(t), line, col)))
    BY <1>0, HeldMoves, HeldDamage, HeldFollows
  <1>7. Follows(t, linefeed(t)) BY <1>0, <1>2, <1>6 DEF linefeed
  <1>8. Follows(t, newline(t))
    <2>1. PICK s : s = linefeed(t) OBVIOUS
    <2>2. Shaped(s) BY <1>7, <2>1 DEF Follows
    <2>3. Held(s, carriage_return(s)) BY <2>2, MovesHeld
    <2>4. newline(t) \in {s, carriage_return(s)} BY <2>1 DEF newline
    <2>. QED BY <1>7, <2>1, <2>3, <2>4, FollowsHeld
  <1>9. Follows(t, reverse_index(t)) BY <1>0, <1>2, <1>6 DEF reverse_index
  <1>. QED BY <1>2, <1>3, <1>5, <1>7, <1>8, <1>9

(* The line of the cursor is left, by scrolling if it is the last one. *)
LEMMA WraplineFollows ==
    ASSUME NEW t, GeometryOK(t)
    PROVE  Follows(t, wrapline(t))
  <1>0. Follows(t, t) /\ Held(t, t) /\ Shaped(t) BY FollowsSame
  <1>1. ASSUME NEW s, Follows(t, s) PROVE Follows(t, damage_cursor(NoWrap(MoveToCol(s, 0))))
    <2>1. Held(s, s) BY <1>1, HeldSame DEF Follows
    <2>2. Held(s, damage_cursor(NoWrap(MoveToCol(s, 0)))) BY <2>1, HeldMoves, HeldDamage
    <2>. QED BY <1>1, <2>2, FollowsHeld
  <1>2. Follows(t, linefeed(t)) BY ScrollsFollow
  <1>3. \A line, col : Follows(t, MoveTo(damage_cursor(t), line, col))
    BY <1>0, HeldMoves, HeldDamage, HeldFollows
  <1>. QED BY <1>0, <1>1, <1>2, <1>3 DEF wrapline

(* Characters and tabs. *)
LEMMA InputFollows ==
    ASSUME NEW t, TermOK(t), NEW under
    PROVE  /\ Follows(t, input_zerowidth(t, under)) /\ Follows(t, input_narrow(t, under))
           /\ Follows(t, input_wide(t, under)) /\ \A n : Follows(t, put_tab(t, n))
  <1>0. GeometryOK(t) /\ Follows(t, t) /\ Held(t, t) BY FollowsSame DEF TermOK
  <1>1. Follows(t, input_zerowidth(t, under)) BY <1>0, WritesHeld, HeldFollows
  <1>2. ASSUME NEW width \in Nat PROVE Follows(t, InputReady(t, width))
    <2>1. PICK s : s = IF t.grid.cursor.wrap THEN wrapline(t) ELSE t OBVIOUS
    <2>2. Follows(t, s) BY <1>0, <2>1, WraplineFollows
    <2>3. Held(s, s) BY <2>2, HeldSame DEF Follows
    <2>4. \A line, left, right : Follows(t, Write(s, line, left, right))
      BY <2>2, <2>3, HeldWrites, FollowsHeld
    <2>. QED BY <2>1, <2>2, <2>4 DEF InputReady
  <1>3. Follows(t, input_narrow(t, under))
    <2>1. PICK s : s = InputReady(t, 1) OBVIOUS
    <2>2. Follows(t, s) BY <1>2, <2>1
    <2>3. Held(s, s) BY <2>2, HeldSame DEF Follows
    <2>4. Held(s, Advance(write_at_cursor(s, under))) BY <2>3, WritesHeld
    <2>. QED BY <2>1, <2>2, <2>4, FollowsHeld DEF input_narrow
  <1>4. Follows(t, input_wide(t, under))
    <2>1. PICK s : s = InputReady(t, 2) OBVIOUS
    <2>2. Follows(t, s) /\ TermOK(s)
      BY <1>2, <2>1, InputReadyKeeps DEF Keeps
    <2>3. Held(s, s) BY <2>2, HeldSame DEF Follows
    <2>4. Follows(s, s) /\ Follows(s, [s EXCEPT !.grid.cursor.wrap = TRUE])
      BY <2>3, HeldMoves, HeldFollows
    <2>5. Follows(s, wrapline(write_at_cursor(s, under)))
      <3>1. PICK w : w = write_at_cursor(s, under) OBVIOUS
      <3>2. TermOK(w) BY <2>2, <3>1, WriteAtCursorKeeps DEF Keeps
      <3>3. Held(s, w) BY <2>3, <3>1, WritesHeld
      <3>4. Follows(w, wrapline(w)) BY <3>2, WraplineFollows DEF TermOK
      <3>. QED BY <3>1, <3>3, <3>4, HeldFollows, FollowsTrans
    <2>6. ASSUME NEW r, Follows(s, r), NEW col
          PROVE  Follows(s, Advance(write_at_cursor(MoveToCol(write_at_cursor(r, under), col), under)))
      <3>1. Held(r, r) BY <2>6, HeldSame DEF Follows
      <3>2. Held(r, MoveToCol(write_at_cursor(r, under), col)) BY <3>1, WritesHeld, HeldMoves
      <3>3. Held(r, Advance(write_at_cursor(MoveToCol(write_at_cursor(r, under), col), under)))
        BY <3>2, WritesHeld
      <3>. QED BY <2>6, <3>3, FollowsHeld
    <2>7. PICK r, col :
            /\ r \in {s, wrapline(write_at_cursor(s, under))}
            /\ input_wide(t, under) \in
                {Advance(write_at_cursor(MoveToCol(write_at_cursor(r, under), col), under)),
                 [s EXCEPT !.grid.cursor.wrap = TRUE]}
      <3>1. PICK r : r = IF s.grid.cursor.col + 1 < s.cols THEN s ELSE wrapline(write_at_cursor(s, under))
        OBVIOUS
      <3>2. input_wide(t, under) \in
              {Advance(write_at_cursor(MoveToCol(write_at_cursor(r, under), write_at_cursor(r, under).grid.cursor.col + 1), under)),
               [s EXCEPT !.grid.cursor.wrap = TRUE]}
        BY <2>1, <3>1, Zenon DEF input_wide
      <3>. QED BY <3>1, <3>2
    <2>8. Follows(s, r) BY <2>4, <2>5, <2>7
    <2>9. Follows(s, input_wide(t, under)) BY <2>4, <2>6, <2>7, <2>8
    <2>. QED BY <2>2, <2>9, FollowsTrans
  <1>5. ASSUME NEW n PROVE Follows(t, put_tab(t, n))
    <2>1. \A line, left, right, col : Follows(t, MoveToCol(Write(t, line, left, right), col))
      BY <1>0, HeldWrites, HeldMoves, HeldFollows
    <2>. QED BY <1>0, <2>1, WraplineFollows DEF put_tab
  <1>. QED BY <1>1, <1>3, <1>4, <1>5

(* A selection that is dropped where it is cleared. *)
LEMMA UnlessFollows ==
    ASSUME NEW t, NEW s, Held(t, s), NEW from, NEW to
    PROVE  Follows(t, [s EXCEPT !.sel = Unless(t.sel, from, to)])
  <1>1. Held(t, [s EXCEPT !.sel = Unless(t.sel, from, to)]) BY DEF Held, Shaped, Unless, TermFields
  <1>. QED BY <1>1, HeldFollows

(* Clearing the scrollback. *)
LEMMA ClearSavedFollows ==
    ASSUME NEW t, GeometryOK(t)
    PROVE  Follows(t, ClearSaved(t))
  <1>1. CASE t.grid.hist = 0 BY <1>1, FollowsSame DEF ClearSaved
  <1>2. CASE t.grid.hist # 0
    <2>1. PICK s : s = [t EXCEPT !.grid.hist = 0, !.grid.offset = 0] OBVIOUS
    <2>2. PICK sel : sel = Unless(t.sel, -t.grid.hist, -1) OBVIOUS
    <2>3. PICK line : line = line_clamp(Dims(s), "Cursor", t.vi.line) OBVIOUS
    <2>4. PICK u : u = [s EXCEPT !.vi.line = line, !.sel = sel] OBVIOUS
    <2>5. ClearSaved(t) = u BY <1>2, <2>1, <2>2, <2>3, <2>4 DEF ClearSaved
    <2>6. /\ DOMAIN s = TermFields /\ s.cols = t.cols /\ s.lines = t.lines /\ s.vi = t.vi /\ s.sel = t.sel
          /\ s.grid = [t.grid EXCEPT !.hist = 0, !.offset = 0]
      BY <2>1 DEF GeometryOK, TermFields
    <2>7. /\ DOMAIN u = TermFields /\ u.cols = t.cols /\ u.lines = t.lines /\ u.grid = s.grid
          /\ u.sel = sel /\ u.vi = [t.vi EXCEPT !.line = line]
      BY <2>4, <2>6 DEF TermFields
    <2>8. DOMAIN u.grid = ScreenFields /\ u.grid.hist = 0
      BY <2>6, <2>7 DEF GeometryOK, ScreenOK, ScreenFields
    <2>9. PICK rows \in Nat \ {0} : rows = t.lines BY DEF GeometryOK
    <2>10. ViOK(t) => ViOK(u) /\ line >= 0
      <3>. SUFFICES ASSUME ViOK(t) PROVE ViOK(u) /\ line >= 0 OBVIOUS
      <3>1. t.vi \in [line : Int, col : Nat] /\ t.vi.col < t.cols BY DEF ViOK, PointIn
      <3>2. line = Clamp(t.vi.line, 0, rows - 1)
        BY <2>3, <2>6, <2>9 DEF line_clamp, Dims, bottommost_line
      <3>3. line \in Int /\ line >= 0 /\ line < rows BY <2>9, <3>1, <3>2 DEF Clamp, MinOf, MaxOf
      <3>4. u.vi \in [line : Int, col : Nat] /\ u.vi.line = line /\ u.vi.col = t.vi.col
        BY <2>7, <3>1, <3>3
      <3>. QED BY <2>7, <2>9, <3>1, <3>3, <3>4 DEF ViOK, PointIn
    <2>11. ViOK(t) => ViBelow(u)
      <3>. SUFFICES ASSUME ViOK(t) PROVE ViBelow(u) OBVIOUS
      <3>1. u.vi.line = line /\ line >= 0 BY <2>7, <2>10 DEF ViOK, PointIn
      <3>. QED BY <2>8, <3>1 DEF ViBelow
    <2>12. SelectionsOK(t) => SelectionsOK(u) BY <2>2, <2>7 DEF SelectionsOK, Unless
    <2>. QED BY <2>5, <2>7, <2>8, <2>10, <2>11, <2>12 DEF Follows, Shaped
  <1>. QED BY <1>1, <1>2

(* Clearing the screen; where the text moves into the scrollback, so does the vi cursor. *)
LEMMA ClearScreenFollows ==
    ASSUME NEW t, GeometryOK(t), NEW used \in Nat,
           NEW mode \in {"Above", "Below", "All", "Saved"}
    PROVE  Follows(t, clear_screen(t, mode, used))
  <1>0. Follows(t, t) /\ Held(t, t) /\ Shaped(t) BY FollowsSame
  <1>. DEFINE Marked(s) == mark_fully_damaged(s)
  <1>1. ASSUME NEW s, Follows(t, s) PROVE Follows(t, Marked(s))
    <2>1. Held(s, s) BY <1>1, HeldSame DEF Follows
    <2>. QED BY <1>1, <2>1, HeldDamage, FollowsHeld
  <1>2. CASE mode = "Above"
    <2>1. PICK s, from, to : /\ Held(t, s)
                             /\ clear_screen(t, mode, used) = Marked([s EXCEPT !.sel = Unless(t.sel, from, to)])
      <3>1. PICK s : s = Write(IF t.grid.cursor.line > 1 THEN WriteLines(t, 0, t.grid.cursor.line - 1) ELSE t,
                               t.grid.cursor.line, 0, t.grid.cursor.col)
        OBVIOUS
      <3>2. Held(t, s) BY <1>0, <3>1, HeldWrites
      <3>3. clear_screen(t, mode, used) = Marked([s EXCEPT !.sel = Unless(t.sel, 0, t.grid.cursor.line)])
        BY <1>2, <3>1 DEF clear_screen
      <3>. QED BY <3>2, <3>3
    <2>. QED BY <1>1, <2>1, UnlessFollows
  <1>3. CASE mode = "Below"
    <2>1. PICK s : s = WriteLines(Write(t, t.grid.cursor.line, t.grid.cursor.col, t.cols - 1),
                                  t.grid.cursor.line + 1, t.lines - 1)
      OBVIOUS
    <2>2. Held(t, s) BY <1>0, <2>1, HeldWrites
    <2>3. clear_screen(t, mode, used) = Marked([s EXCEPT !.sel = Unless(t.sel, t.grid.cursor.line, t.lines - 1)])
      BY <1>3, <2>1 DEF clear_screen
    <2>. QED BY <1>1, <2>2, <2>3, UnlessFollows
  <1>4. CASE mode = "Saved"
    <2>1. clear_screen(t, mode, used) = Marked(ClearSaved(t)) BY <1>4 DEF clear_screen
    <2>. QED BY <1>1, <2>1, ClearSavedFollows
  <1>5. CASE mode = "All" /\ Has(t, "ALT_SCREEN")
    <2>1. PICK s : s = WriteLines(t, 0, t.lines - 1) OBVIOUS
    <2>2. Held(t, s) BY <1>0, <2>1, HeldWrites
    <2>3. Held(t, [s EXCEPT !.sel = NoSelection]) BY <2>2, HeldWrites
    <2>4. clear_screen(t, mode, used) = Marked([s EXCEPT !.sel = NoSelection])
      BY <1>5, <2>1 DEF clear_screen
    <2>. QED BY <1>1, <2>3, <2>4, HeldFollows
  <1>6. CASE mode = "All" /\ ~Has(t, "ALT_SCREEN")
    <2>1. PICK w : w = WriteLines(t, 0, t.lines - 1) OBVIOUS
    <2>2. Held(t, w) BY <1>0, <2>1, HeldWrites
    <2>3. PICK g : g = scroll_up_grid(t.grid, 0, t.lines, used) OBVIOUS
    <2>4. PICK up : up = SaturatingSub(g.offset, t.grid.offset) OBVIOUS
    <2>5. PICK s : s = [w EXCEPT !.grid = g] OBVIOUS
    <2>6. PICK line : line = line_clamp(Dims(s), "Grid", t.vi.line - up) OBVIOUS
    <2>7. PICK u : u = [s EXCEPT !.vi.line = line, !.sel = NoSelection] OBVIOUS
    <2>8. clear_screen(t, mode, used) = Marked(u)
      BY <1>6, <2>1, <2>3, <2>4, <2>5, <2>6, <2>7 DEF clear_screen
    <2>9. PICK cols \in Nat \ {0}, rows \in Nat \ {0} : cols = t.cols /\ rows = t.lines BY DEF GeometryOK
    <2>10. /\ DOMAIN g = ScreenFields /\ g.offset \in Nat /\ g.hist \in Nat /\ t.grid.offset \in Nat
      <3>1. ScreenOK(g, cols, rows) /\ ScreenOK(t.grid, cols, rows)
        BY <2>3, <2>9, ScrollUpGrid DEF GeometryOK
      <3>. QED BY <3>1 DEF ScreenOK
    <2>11. /\ DOMAIN u = TermFields /\ u.cols = cols /\ u.lines = rows /\ u.grid = g /\ u.sel = {}
           /\ u.vi = [t.vi EXCEPT !.line = line] /\ s.lines = rows /\ s.grid = g /\ s.cols = cols
      BY <2>2, <2>5, <2>7, <2>9 DEF Held, Shaped, TermFields, NoSelection
    <2>12. ViOK(t) => ViOK(u) /\ ViBelow(u)
      <3>. SUFFICES ASSUME ViOK(t) PROVE ViOK(u) /\ ViBelow(u) OBVIOUS
      <3>1. t.vi \in [line : Int, col : Nat] /\ t.vi.col < cols BY <2>9 DEF ViOK, PointIn
      <3>2. up \in Nat BY <2>4, <2>10 DEF SaturatingSub
      <3>3. line = Clamp(t.vi.line - up, -g.hist, rows - 1)
        BY <2>6, <2>11 DEF line_clamp, Dims, topmost_line, bottommost_line
      <3>4. line \in Int /\ line >= -g.hist /\ line < rows
        BY <2>9, <2>10, <3>1, <3>2, <3>3 DEF Clamp, MinOf, MaxOf
      <3>5. u.vi \in [line : Int, col : Nat] /\ u.vi.line = line /\ u.vi.col = t.vi.col
        BY <2>11, <3>1, <3>4
      <3>. QED BY <2>9, <2>11, <3>1, <3>4, <3>5 DEF ViOK, ViBelow, PointIn
    <2>13. Follows(t, u) BY <2>9, <2>10, <2>11, <2>12 DEF Follows, Shaped, SelectionsOK
    <2>. QED BY <1>1, <2>8, <2>13
  <1>. QED BY <1>2, <1>3, <1>4, <1>5, <1>6

-----------------------------------------------------------------------------
(* Scrolling the view *)

(* What is asked of every step: the vi cursor and the selections stay points of the
   screen and of what is above it, and the vi cursor is not above the scrollback, unless
   the screens are swapped, the scrollback is made shorter, or the view is above it. *)
Stays(t, s) ==
    /\ ViOK(t) => ViOK(s)
    /\ ViOK(t) /\ SelectionsOK(t) => SelectionsOK(s)
    /\ ViOK(t) /\ t.vi.line >= -t.grid.hist /\ s.grid.offset <= s.grid.hist =>
         \/ s.vi.line >= -s.grid.hist
         \/ Has(t, "ALT_SCREEN") # Has(s, "ALT_SCREEN")
         \/ s.grid.limit < t.grid.limit

(* Operations that move the positions with the text do. *)
LEMMA FollowsStays ==
    ASSUME NEW t, NEW s, GeometryOK(t), GeometryOK(s), Follows(t, s)
    PROVE  Stays(t, s)
  <1>1. t.grid.hist \in Int /\ s.grid.hist \in Int /\ s.grid.offset \in Int BY DEF GeometryOK, ScreenOK
  <1>2. ASSUME ViOK(t), t.vi.line >= -t.grid.hist, s.grid.offset <= s.grid.hist
        PROVE  s.vi.line >= -s.grid.hist
    <2>1. ViBelow(s) /\ s.vi.line \in Int BY <1>2 DEF Follows, ViBelow, ViOK, PointIn
    <2>. QED BY <1>1, <1>2, <2>1 DEF ViBelow
  <1>. QED BY <1>2 DEF Follows, Stays

(* A vi cursor that may be anywhere, as when it is put back to where a search started,
   in a column of the screen. *)
ViColumn(t) == t.vi \in [line : Int, col : Nat] /\ t.vi.col < t.cols

(* In vi mode the selection ends at the vi cursor. *)
LEMMA RecomputeLaw ==
    ASSUME NEW t, DOMAIN t = TermFields, t.cols \in Nat, t.lines \in Nat
    PROVE  LET s == vi_mode_recompute_selection(t)
           IN  /\ DOMAIN s = TermFields /\ s.cols = t.cols /\ s.lines = t.lines /\ s.mode = t.mode
               /\ s.grid = t.grid /\ s.vi = t.vi
               /\ ViOK(t) /\ SelectionsOK(t) => SelectionsOK(s)
  <1>. PICK cols \in Nat, lines \in Nat : cols = t.cols /\ lines = t.lines OBVIOUS
  <1>. PICK s : s = vi_mode_recompute_selection(t) OBVIOUS
  <1>. DEFINE sel == {IF is_empty(x) THEN x ELSE include_all(update(x, t.vi, "Left")) : x \in t.sel}
  <1>1. CASE ~Has(t, "VI")
    <2>1. s = t BY <1>1 DEF vi_mode_recompute_selection
    <2>. QED BY <2>1
  <1>2. CASE Has(t, "VI")
    <2>1. s = [t EXCEPT !.sel = sel] BY <1>2 DEF vi_mode_recompute_selection
    <2>2. /\ DOMAIN s = TermFields /\ s.sel = sel /\ s.cols = t.cols /\ s.lines = t.lines /\ s.mode = t.mode
          /\ s.grid = t.grid /\ s.vi = t.vi
      BY <2>1 DEF TermFields
    <2>3. ASSUME NEW x, SelectionOK(x, cols, lines), PointIn(t.vi, cols, lines)
          PROVE  SelectionOK(include_all(update(x, t.vi, "Left")), cols, lines)
      <3>1. PICK y : y = update(x, t.vi, "Left") OBVIOUS
      <3>2. SelectionOK(y, cols, lines) BY <2>3, <3>1 DEF SelectionOK, update, Anchor
      <3>3. PICK a, b : include_all(y) = [y EXCEPT !.start.side = a, !.end.side = b] BY DEF include_all
      <3>4. SelectionOK(include_all(y), cols, lines) BY <3>2, <3>3 DEF SelectionOK
      <3>. QED BY <3>1, <3>4
    <2>4. ASSUME ViOK(t), SelectionsOK(t) PROVE SelectionsOK(s)
      <3>1. PointIn(t.vi, cols, lines) /\ \A x \in t.sel : SelectionOK(x, cols, lines)
        BY <2>4 DEF ViOK, SelectionsOK
      <3>2. \A y \in sel : SelectionOK(y, cols, lines) BY <2>3, <3>1
      <3>. QED BY <2>2, <3>2 DEF SelectionsOK
    <2>. QED BY <2>2, <2>4
  <1>. QED BY <1>1, <1>2

(* Only the view has changed; it is within the scrollback if it was. *)
Viewed(t, s) ==
    /\ TermOK(s) /\ s.cols = t.cols /\ s.lines = t.lines /\ s.mode = t.mode
    /\ s.grid.hist = t.grid.hist /\ s.grid.limit = t.grid.limit /\ s.grid.cursor = t.grid.cursor
    /\ t.grid.offset <= t.grid.hist => s.grid.offset <= s.grid.hist
    /\ SelectionsOK(t) => SelectionsOK(s)

(* The vi cursor is moved into the view. *)
InView(t, s) ==
    s.vi = Point(Clamp(t.vi.line, -s.grid.offset, t.lines - 1 - s.grid.offset), t.vi.col)

(* Scrolling the view takes the vi cursor and the selection with it. *)
LEMMA ScrollDisplayLaw ==
    ASSUME NEW t, TermOK(t), ViColumn(t), NEW scroll,
           scroll.to \in {"PageUp", "PageDown", "Top", "Bottom", "Delta"}, scroll.by \in Int
    PROVE  Viewed(t, scroll_display(t, scroll)) /\ InView(t, scroll_display(t, scroll))
  <1>. PICK cols \in Nat \ {0}, lines \in Nat \ {0} : cols = t.cols /\ lines = t.lines
    BY DEF TermOK, GeometryOK
  <1>1. PICK g : g = scroll_display_grid(t.grid, t.lines, scroll) OBVIOUS
  <1>2. /\ g.offset \in Nat /\ DOMAIN g = ScreenFields
        /\ g.hist = t.grid.hist /\ g.limit = t.grid.limit /\ g.cursor = t.grid.cursor
        /\ t.grid.offset <= t.grid.hist => g.offset <= g.hist
    <2>1. t.grid.offset \in Nat /\ t.grid.hist \in Nat /\ DOMAIN t.grid = ScreenFields
      BY DEF TermOK, GeometryOK, ScreenOK
    <2>2. PICK o : /\ g = [t.grid EXCEPT !.offset = o]
                   /\ o = CASE scroll.to = "PageUp" -> MinOf(t.grid.offset + lines, t.grid.hist)
                            [] scroll.to = "PageDown" -> SaturatingSub(t.grid.offset, lines)
                            [] scroll.to = "Top" -> t.grid.hist
                            [] scroll.to = "Bottom" -> 0
                            [] scroll.to = "Delta" -> Clamp(t.grid.offset + scroll.by, 0, t.grid.hist)
      BY <1>1 DEF scroll_display_grid
    <2>3. o \in Nat /\ (t.grid.offset <= t.grid.hist => o <= t.grid.hist)
      BY <2>1, <2>2 DEF MinOf, MaxOf, SaturatingSub, Clamp
    <2>4. /\ g.offset = o /\ DOMAIN g = ScreenFields
          /\ g.hist = t.grid.hist /\ g.limit = t.grid.limit /\ g.cursor = t.grid.cursor
      BY <2>1, <2>2 DEF ScreenFields
    <2>. QED BY <2>3, <2>4
  <1>3. PICK s : s = [t EXCEPT !.grid = g] OBVIOUS
  <1>4. /\ DOMAIN s = TermFields /\ s.cols = cols /\ s.lines = lines /\ s.mode = t.mode /\ s.grid = g
        /\ s.vi = t.vi /\ s.sel = t.sel
    BY <1>3 DEF TermOK, GeometryOK, TermFields
  <1>5. PICK line : line = Clamp(t.vi.line, -g.offset, lines - 1 - g.offset) OBVIOUS
  <1>6. PICK v : v = ViInView(s) OBVIOUS
  <1>7. /\ DOMAIN v = TermFields /\ v.cols = cols /\ v.lines = lines /\ v.mode = t.mode /\ v.grid = g
        /\ v.vi = [t.vi EXCEPT !.line = line] /\ v.sel = t.sel
    <2>1. v = [s EXCEPT !.vi.line = line] BY <1>4, <1>5, <1>6 DEF ViInView
    <2>. QED BY <1>4, <2>1 DEF TermFields
  <1>8. line \in Int /\ line < lines BY <1>2, <1>5 DEF ViColumn, Clamp, MinOf, MaxOf
  <1>9. v.vi = Point(line, t.vi.col) BY <1>7, <1>8 DEF ViColumn, Point
  <1>10. ViOK(v) BY <1>7, <1>8, <1>9 DEF ViOK, ViColumn, PointIn, Point
  <1>11. SelectionsOK(t) => SelectionsOK(v) BY <1>7 DEF SelectionsOK
  <1>12. PICK u : u = vi_mode_recompute_selection(v) OBVIOUS
  <1>13. /\ DOMAIN u = TermFields /\ u.cols = cols /\ u.lines = lines /\ u.mode = t.mode /\ u.grid = g
         /\ u.vi = v.vi
         /\ ViOK(v) /\ SelectionsOK(v) => SelectionsOK(u)
    BY <1>7, <1>12, RecomputeLaw
  <1>14. PICK r : r = scroll_display(t, scroll) OBVIOUS
  <1>15. r \in {u, mark_fully_damaged(u)}
    BY <1>1, <1>3, <1>6, <1>12, <1>14 DEF scroll_display
  <1>16. /\ r.cols = cols /\ r.lines = lines /\ r.mode = t.mode /\ r.grid = g /\ r.vi = v.vi /\ r.sel = u.sel
    BY <1>13, <1>15 DEF mark_fully_damaged, TermFields
  <1>17. TermOK(r) BY <1>14, ScrollDisplayKeeps DEF Keeps
  <1>18. SelectionsOK(t) => SelectionsOK(r) BY <1>10, <1>11, <1>13, <1>16 DEF SelectionsOK
  <1>19. Viewed(t, r) /\ InView(t, r) BY <1>2, <1>5, <1>9, <1>16, <1>17, <1>18 DEF Viewed, InView
  <1>. QED BY <1>14, <1>19

(* Nothing is scrolled. *)
LEMMA ViewedSame == ASSUME NEW t, TermOK(t) PROVE Viewed(t, t)
  BY DEF Viewed

(* One change of the view after another. *)
LEMMA ViewedTrans ==
    ASSUME NEW t, NEW s, NEW u, Viewed(t, s), Viewed(s, u)
    PROVE  Viewed(t, u)
  BY DEF Viewed

(* A vi cursor that is in view is on the screen, and in the scrollback if the view is. *)
LEMMA InViewOK ==
    ASSUME NEW t, TermOK(t), ViColumn(t), NEW s, Viewed(t, s), InView(t, s)
    PROVE  ViOK(s) /\ (s.grid.offset <= s.grid.hist => s.vi.line >= -s.grid.hist)
  <1>1. PICK line \in Int, col \in Nat, lines \in Nat \ {0}, offset \in Nat, hist \in Nat :
          /\ line = t.vi.line /\ col = t.vi.col /\ lines = t.lines /\ lines = s.lines
          /\ offset = s.grid.offset /\ hist = s.grid.hist
    BY SMTT(60) DEF ViColumn, Viewed, TermOK, GeometryOK, ScreenOK
  <1>2. PICK clamped \in Int : /\ clamped = Clamp(line, -offset, lines - 1 - offset)
                               /\ clamped >= -offset /\ clamped < lines
    <2>1. LET clamped == Clamp(line, -offset, lines - 1 - offset)
          IN  clamped \in Int /\ clamped >= -offset /\ clamped < lines
      BY DEF Clamp, MinOf, MaxOf
    <2>. QED BY <2>1
  <1>3. s.vi = Point(clamped, col) BY <1>1, <1>2 DEF InView
  <1>4. col < s.cols BY <1>1 DEF ViColumn, Viewed
  <1>. QED BY <1>1, <1>2, <1>3, <1>4 DEF ViOK, PointIn, Point

(* Scrolling keeps the vi cursor in the grid, *)
LEMMA ScrollDisplayStays ==
    ASSUME NEW t, TermOK(t), NEW scroll,
           scroll.to \in {"PageUp", "PageDown", "Top", "Bottom", "Delta"}, scroll.by \in Int
    PROVE  Stays(t, scroll_display(t, scroll))
  <1>1. PICK s : s = scroll_display(t, scroll) OBVIOUS
  <1>2. ASSUME ViOK(t) PROVE /\ ViOK(s) /\ (SelectionsOK(t) => SelectionsOK(s))
                             /\ s.grid.offset <= s.grid.hist => s.vi.line >= -s.grid.hist
    <2>1. ViColumn(t) BY <1>2 DEF ViOK, ViColumn, PointIn
    <2>2. Viewed(t, s) /\ InView(t, s) BY <1>1, <2>1, ScrollDisplayLaw
    <2>. QED BY <2>1, <2>2, InViewOK DEF Viewed
  <1>. QED BY <1>1, <1>2 DEF Stays

(* as far as to a point, *)
LEMMA ScrollToPointLaw ==
    ASSUME NEW t, TermOK(t), ViOK(t), NEW p, p.line \in Int
    PROVE  LET s == scroll_to_point(t, p)
           IN  /\ Viewed(t, s) /\ ViOK(s)
               /\ t.grid.offset <= t.grid.hist /\ t.vi.line >= -t.grid.hist => s.vi.line >= -s.grid.hist
  <1>1. t.grid.offset \in Int /\ t.lines \in Int /\ ViColumn(t)
    BY DEF TermOK, GeometryOK, ScreenOK, ViOK, ViColumn, PointIn
  <1>2. ASSUME NEW n \in Int
        PROVE  LET s == scroll_display(t, Delta(n))
               IN  /\ Viewed(t, s) /\ ViOK(s)
                   /\ t.grid.offset <= t.grid.hist => s.vi.line >= -s.grid.hist
    <2>1. Delta(n).to = "Delta" /\ Delta(n).by = n BY DEF Delta
    <2>2. PICK s : s = scroll_display(t, Delta(n)) OBVIOUS
    <2>3. Viewed(t, s) /\ InView(t, s) BY <1>1, <2>1, <2>2, ScrollDisplayLaw
    <2>4. t.grid.offset <= t.grid.hist => s.grid.offset <= s.grid.hist BY <2>3 DEF Viewed
    <2>. QED BY <1>1, <2>2, <2>3, <2>4, InViewOK
  <1>3. PICK s : s = scroll_to_point(t, p) OBVIOUS
  <1>4. PICK a \in Int, b \in Int : a = -t.grid.offset - p.line /\ b = -t.grid.offset + t.lines - 1 - p.line
    BY <1>1
  <1>5. s = scroll_display(t, Delta(a)) \/ s = scroll_display(t, Delta(b)) \/ s = t
    BY <1>3, <1>4 DEF scroll_to_point
  <1>. QED BY <1>2, <1>3, <1>5, ViewedSame

(* and with the vi cursor to that point. *)
LEMMA GotoPointLaw ==
    ASSUME NEW t, TermOK(t), ViOK(t), NEW p, PointIn(p, t.cols, t.lines)
    PROVE  LET s == vi_goto_point(t, p)
           IN  Viewed(t, s) /\ ViOK(s) /\ s.vi = p
  <1>1. PICK s : s = scroll_to_point(t, p) OBVIOUS
  <1>2. Viewed(t, s) BY <1>1, ScrollToPointLaw DEF PointIn
  <1>3. PICK u : u = [s EXCEPT !.vi = p] OBVIOUS
  <1>4. /\ DOMAIN u = TermFields /\ u.cols = t.cols /\ u.lines = t.lines /\ u.mode = t.mode
        /\ u.grid = s.grid /\ u.vi = p /\ u.sel = s.sel
    BY <1>2, <1>3 DEF Viewed, TermOK, GeometryOK, TermFields
  <1>5. ViOK(u) BY <1>4 DEF ViOK
  <1>6. SelectionsOK(t) => SelectionsOK(u) BY <1>2, <1>4 DEF Viewed, SelectionsOK
  <1>7. PICK v : v = vi_mode_recompute_selection(u) OBVIOUS
  <1>8. /\ v.cols = t.cols /\ v.lines = t.lines /\ v.mode = t.mode /\ v.grid = s.grid /\ v.vi = p
        /\ ViOK(u) /\ SelectionsOK(u) => SelectionsOK(v)
    <2>1. u.cols \in Nat /\ u.lines \in Nat BY <1>4 DEF TermOK, GeometryOK
    <2>. QED BY <1>4, <1>7, <2>1, RecomputeLaw
  <1>9. TermOK(v)
    <2>1. View(s, u) /\ TermOK(s) BY <1>2, <1>3, SelectView DEF Viewed
    <2>2. TermOK(u) BY <2>1, ViewKeeps
    <2>3. View(u, v) BY <1>7, <2>2, RecomputeView
    <2>. QED BY <2>2, <2>3, ViewKeeps
  <1>10. Viewed(t, v) BY <1>2, <1>5, <1>6, <1>8, <1>9 DEF Viewed
  <1>11. v = vi_goto_point(t, p) BY <1>1, <1>3, <1>7 DEF vi_goto_point
  <1>. QED BY <1>5, <1>4, <1>8, <1>10, <1>11 DEF ViOK

(* A point of the grid is on the screen or above it, not above the scrollback. *)
LEMMA GridPointIn ==
    ASSUME NEW t, GeometryOK(t), NEW p \in GridPoints(Dims(t))
    PROVE  PointIn(p, t.cols, t.lines) /\ p.line >= -t.grid.hist
  <1>1. PICK d : d = Dims(t) OBVIOUS
  <1>2. /\ d.cols = t.cols /\ d.lines = t.lines /\ d.hist = t.grid.hist
        /\ d.cols \in Nat \ {0} /\ d.lines \in Nat \ {0} /\ d.hist \in Nat
    BY <1>1 DEF Dims, GeometryOK, ScreenOK
  <1>3. PICK l \in (-d.hist)..(d.lines - 1), c \in 0..(d.cols - 1) : p = Point(l, c)
    BY <1>1, <1>2, GridPointsAre
  <1>. QED BY <1>2, <1>3 DEF PointIn, Point

(* The motions of vi mode. *)
LEMMA ViMotionStays ==
    ASSUME NEW t, TermOK(t), NEW p \in GridPoints(Dims(t))
    PROVE  Stays(t, vi_motion(t, p))
  <1>1. GeometryOK(t) BY DEF TermOK
  <1>2. PointIn(p, t.cols, t.lines) /\ p.line >= -t.grid.hist BY <1>1, GridPointIn
  <1>3. Stays(t, t) BY <1>1, FollowsSame, FollowsStays
  <1>4. PICK s : s = vi_goto_point(t, p) OBVIOUS
  <1>5. ViOK(t) => Viewed(t, s) /\ ViOK(s) /\ s.vi = p BY <1>2, <1>4, GotoPointLaw
  <1>6. Stays(t, s) BY <1>2, <1>5 DEF Stays, Viewed
  <1>. QED BY <1>3, <1>4, <1>6 DEF vi_motion

(* Vi mode is entered at the terminal's cursor, or at the top of the view. *)
LEMMA ToggleViLaw ==
    ASSUME NEW t, TermOK(t)
    PROVE  LET s == toggle_vi_mode(t)
           IN  /\ s.cols = t.cols /\ s.lines = t.lines /\ s.grid = t.grid /\ s.sel = t.sel
               /\ ViOK(t) => ViOK(s)
               /\ s.vi = t.vi \/ s.vi.line >= -t.grid.offset
               /\ Has(t, "VI") \/ Has(s, "VI")
  <1>1. PICK s : s = toggle_vi_mode(t) OBVIOUS
  <1>2. /\ t.cols \in Nat \ {0} /\ t.lines \in Nat \ {0} /\ t.grid.offset \in Nat /\ DOMAIN t = TermFields
        /\ t.grid.cursor.line \in 0..(t.lines - 1) /\ t.grid.cursor.col \in 0..(t.cols - 1)
    BY DEF TermOK, GeometryOK, ScreenOK, CursorOK
  <1>3. CASE Has(t, "VI")
    <2>1. s = Without(t, "VI") BY <1>1, <1>3 DEF toggle_vi_mode
    <2>. QED BY <1>1, <1>2, <1>3, <2>1 DEF Without, TermFields, ViOK
  <1>4. CASE ~Has(t, "VI")
    <2>1. PICK p : p = IF t.grid.cursor.line > t.lines - 1 - t.grid.offset
                       THEN Point(-t.grid.offset, 0) ELSE CursorPoint(t)
      OBVIOUS
    <2>2. PICK w : w = With(t, "VI") OBVIOUS
    <2>3. s = [w EXCEPT !.vi = p] BY <1>1, <1>4, <2>1, <2>2 DEF toggle_vi_mode
    <2>4. /\ DOMAIN w = TermFields /\ w.cols = t.cols /\ w.lines = t.lines /\ w.grid = t.grid
          /\ w.sel = t.sel /\ "VI" \in w.mode
      BY <1>2, <2>2 DEF With, TermFields
    <2>5. /\ s.cols = t.cols /\ s.lines = t.lines /\ s.grid = t.grid /\ s.sel = t.sel /\ s.vi = p
          /\ "VI" \in s.mode
      BY <2>3, <2>4 DEF TermFields
    <2>6. PointIn(p, t.cols, t.lines) /\ p.line >= -t.grid.offset
      BY <1>2, <2>1 DEF PointIn, Point, CursorPoint
    <2>. QED BY <1>1, <2>5, <2>6 DEF ViOK, Has
  <1>. QED BY <1>3, <1>4

(* and keeps the vi cursor in the grid. *)
LEMMA ToggleViStays ==
    ASSUME NEW t, TermOK(t)
    PROVE  Stays(t, toggle_vi_mode(t))
  <1>1. PICK s : s = toggle_vi_mode(t) OBVIOUS
  <1>2. /\ s.cols = t.cols /\ s.lines = t.lines /\ s.grid = t.grid /\ s.sel = t.sel
        /\ ViOK(t) => ViOK(s)
        /\ s.vi = t.vi \/ s.vi.line >= -t.grid.offset
    BY <1>1, ToggleViLaw
  <1>3. t.grid.offset \in Int /\ t.grid.hist \in Int BY DEF TermOK, GeometryOK, ScreenOK
  <1>4. ASSUME ViOK(t), t.vi.line >= -t.grid.hist, t.grid.offset <= t.grid.hist
        PROVE  s.vi.line >= -t.grid.hist
    <2>1. s.vi.line \in Int BY <1>2, <1>4 DEF ViOK, PointIn
    <2>. QED BY <1>2, <1>3, <1>4, <2>1
  <1>. QED BY <1>1, <1>2, <1>4 DEF Stays, SelectionsOK

-----------------------------------------------------------------------------
(* Selecting, the two screens, resizing *)

(* A selection of cells that are displayed. *)
LEMMA DisplayedIn ==
    ASSUME NEW l \in Nat, NEW c \in Nat, NEW offset \in Nat, NEW cols \in Nat, NEW lines \in Nat,
           l < lines, c < cols
    PROVE  PointIn(Point(l - offset, c), cols, lines)
  BY DEF PointIn, Point

(* A selection of points that are displayed is in the grid. *)
LEMMA SelectStays ==
    ASSUME NEW t, TermOK(t), NEW p, PointIn(p, t.cols, t.lines)
    PROVE  /\ Stays(t, [t EXCEPT !.sel = {Selection("Simple", p, "Left")}])
           /\ \A s \in t.sel : Stays(t, [t EXCEPT !.sel = {update(s, p, "Right")}])
  <1>1. ASSUME NEW sel PROVE LET s == [t EXCEPT !.sel = sel]
                             IN  /\ s.cols = t.cols /\ s.lines = t.lines /\ s.vi = t.vi /\ s.grid = t.grid
                                 /\ s.sel = sel
    BY DEF TermOK, GeometryOK, TermFields
  <1>2. ASSUME NEW sel, SelectionsOK(t) => \A x \in sel : SelectionOK(x, t.cols, t.lines)
        PROVE  Stays(t, [t EXCEPT !.sel = sel])
    BY <1>1, <1>2 DEF Stays, ViOK, SelectionsOK
  <1>3. SelectionOK(Selection("Simple", p, "Left"), t.cols, t.lines)
    BY DEF Selection, Anchor, SelectionOK
  <1>4. ASSUME NEW s \in t.sel, SelectionsOK(t) PROVE SelectionOK(update(s, p, "Right"), t.cols, t.lines)
    BY <1>4 DEF SelectionsOK, SelectionOK, update, Anchor
  <1>. QED BY <1>2, <1>3, <1>4

(* The screens are swapped: the selection is dropped, and the vi cursor is left where it is. *)
LEMMA SwapPositions ==
    ASSUME NEW t, TermOK(t)
    PROVE  LET s == swap_alt(t) IN s.vi = t.vi /\ s.sel = {}
  <1>. DEFINE p == IF Has(t, "ALT_SCREEN") THEN t
                   ELSE [t EXCEPT !.inactive.cursor = t.grid.cursor, !.grid.saved = t.grid.cursor]
              k == [p EXCEPT !.keyboard = p.inactive_keyboard, !.inactive_keyboard = p.keyboard]
              u == set_keyboard_mode(k, TopMode(p.inactive_keyboard), "Replace")
              v == IF Has(t, "ALT_SCREEN") THEN Without(u, "ALT_SCREEN") ELSE With(u, "ALT_SCREEN")
              s == [v EXCEPT !.grid = v.inactive, !.inactive = v.grid, !.sel = NoSelection]
  <1>1. swap_alt(t) = mark_fully_damaged(WriteLines(s, 0, t.lines - 1))
    BY ZenonT(60) DEF swap_alt
  <1>2. DOMAIN p = TermFields /\ p.vi = t.vi BY DEF TermOK, GeometryOK, TermFields
  <1>. HIDE DEF p
  <1>3. DOMAIN k = TermFields /\ k.vi = t.vi BY <1>2 DEF TermFields
  <1>. HIDE DEF k
  <1>4. DOMAIN u = TermFields /\ u.vi = t.vi BY <1>3 DEF set_keyboard_mode, TermFields
  <1>. HIDE DEF u
  <1>5. DOMAIN v = TermFields /\ v.vi = t.vi BY <1>4 DEF With, Without, TermFields
  <1>. HIDE DEF v
  <1>6. DOMAIN s = TermFields /\ s.vi = t.vi /\ s.sel = {} BY <1>5 DEF NoSelection, TermFields
  <1>. HIDE DEF s
  <1>. QED BY <1>1, <1>6 DEF mark_fully_damaged, WriteLines, TermFields

(* Swapping the screens keeps the positions on the screen that is shown. *)
LEMMA SwapStays ==
    ASSUME NEW t, TermOK(t)
    PROVE  Stays(t, swap_alt(t))
  <1>1. PICK s : s = swap_alt(t) OBVIOUS
  <1>2. s.vi = t.vi /\ s.sel = {} BY <1>1, SwapPositions
  <1>3. PICK u : Swapped(t, u) /\ s = mark_fully_damaged(WriteLines(u, 0, t.lines - 1))
    BY <1>1, SwapLaw
  <1>4. s.cols = t.cols /\ s.lines = t.lines /\ s.mode = u.mode
    BY <1>3 DEF Swapped, mark_fully_damaged, WriteLines, TermFields
  <1>5. Has(t, "ALT_SCREEN") # Has(s, "ALT_SCREEN") BY <1>3, <1>4 DEF Swapped, Has
  <1>. QED BY <1>1, <1>2, <1>4, <1>5 DEF Stays, ViOK, SelectionsOK

(* A reset puts the vi cursor at the top of the screen. *)
LEMMA ResetStays ==
    ASSUME NEW t, TermOK(t)
    PROVE  Stays(t, reset_state(t))
  <1>1. PICK s : s = reset_state(t) OBVIOUS
  <1>2. TermOK(s) /\ s.cols = t.cols /\ s.lines = t.lines
    BY <1>1, ResetKeeps DEF Keeps, SameScreen
  <1>3. s.vi = Point(0, 0) /\ s.sel = {}
    <2>1. PICK a : /\ DOMAIN a = TermFields
                   /\ a = IF Has(t, "ALT_SCREEN") THEN [t EXCEPT !.grid = t.inactive, !.inactive = t.grid] ELSE t
      BY DEF TermOK, GeometryOK, TermFields
    <2>2. PICK u : u = [a EXCEPT !.grid = reset_grid(a.grid), !.inactive = reset_grid(a.inactive),
                    !.region = [start |-> 0, end |-> t.lines], !.tabs = TabStops(t.cols),
                    !.titles = <<>>, !.title = {}, !.sel = NoSelection, !.vi = Point(0, 0),
                    !.keyboard = <<>>, !.inactive_keyboard = <<>>, !.style = {}, !.charset = 0,
                    !.mode = (t.mode \cap {"VI"}) \cup DefaultMode]
      OBVIOUS
    <2>3. DOMAIN u = TermFields /\ u.vi = Point(0, 0) /\ u.sel = {}
      BY <2>1, <2>2 DEF NoSelection, TermFields
    <2>4. s = mark_fully_damaged(WriteLines(u, 0, t.lines - 1))
      BY <1>1, <2>1, <2>2 DEF reset_state
    <2>. QED BY <2>3, <2>4 DEF mark_fully_damaged, WriteLines, TermFields
  <1>4. s.cols \in Nat \ {0} /\ s.lines \in Nat \ {0} /\ s.grid.hist \in Nat
    BY <1>2 DEF TermOK, GeometryOK, ScreenOK
  <1>. QED BY <1>1, <1>3, <1>4 DEF Stays, ViOK, SelectionsOK, PointIn, Point

(* A new configuration may make the scrollback shorter. *)
LEMMA OptionsStay ==
    ASSUME NEW t, TermOK(t), NEW config, ConfigOK(config)
    PROVE  Stays(t, set_options(t, config))
  <1>1. PICK a, u : /\ a = [t EXCEPT !.config = config]
                    /\ u = IF Has(t, "ALT_SCREEN")
                           THEN [a EXCEPT !.inactive = update_history(t.inactive, config.history)]
                           ELSE [a EXCEPT !.grid = update_history(t.grid, config.history)]
    OBVIOUS
  <1>2. PICK v : v = IF config.kitty = t.config.kitty THEN u
                     ELSE [u EXCEPT !.keyboard = <<>>, !.inactive_keyboard = <<>>,
                                    !.mode = u.mode \ KITTY_KEYBOARD_PROTOCOL]
    OBVIOUS
  <1>3. PICK s : s = set_options(t, config) OBVIOUS
  <1>4. s = mark_fully_damaged(v) BY <1>1, <1>2, <1>3 DEF set_options
  <1>5. PICK size \in Nat : size = config.history BY DEF ConfigOK
  <1>6. /\ DOMAIN u = TermFields /\ u.cols = t.cols /\ u.lines = t.lines /\ u.vi = t.vi /\ u.sel = t.sel
        /\ u.grid \in {t.grid, update_history(t.grid, size)}
    BY <1>1, <1>5 DEF TermOK, GeometryOK, TermFields
  <1>7. /\ s.cols = t.cols /\ s.lines = t.lines /\ s.vi = t.vi /\ s.sel = t.sel /\ s.grid = u.grid
    BY <1>2, <1>4, <1>6 DEF mark_fully_damaged, TermFields
  <1>8. s.grid.hist >= t.grid.hist \/ s.grid.limit < t.grid.limit
    <2>1. /\ t.grid.hist \in Nat /\ t.grid.limit \in Nat /\ t.grid.hist <= t.grid.limit
          /\ DOMAIN t.grid = ScreenFields
      BY DEF TermOK, GeometryOK, ScreenOK
    <2>2. CASE s.grid = t.grid BY <2>1, <2>2
    <2>3. CASE s.grid = update_history(t.grid, size)
      <3>1. s.grid.hist = MinOf(t.grid.hist, size) /\ s.grid.limit = size
        BY <2>1, <2>3 DEF update_history, ScreenFields
      <3>. QED BY <2>1, <3>1 DEF MinOf
    <2>. QED BY <1>6, <1>7, <2>2, <2>3
  <1>9. s.grid.hist \in Int /\ t.grid.hist \in Int
    <2>1. TermOK(s) BY <1>3, OptionsKeep DEF Keeps
    <2>. QED BY <2>1 DEF TermOK, GeometryOK, ScreenOK
  <1>10. ASSUME ViOK(t), t.vi.line >= -t.grid.hist
         PROVE  s.vi.line >= -s.grid.hist \/ s.grid.limit < t.grid.limit
    <2>1. t.vi.line \in Int BY <1>10 DEF ViOK, PointIn
    <2>. QED BY <1>7, <1>8, <1>9, <1>10, <2>1
  <1>. QED BY <1>3, <1>7, <1>10 DEF Stays, ViOK, SelectionsOK

(* A new size: the vi cursor moves with the text and into the view, and the selection
   with the lines unless they are reflowed. *)
LEMMA ResizedLaw ==
    ASSUME NEW t, TermOK(t), ViColumn(t), NEW cols \in Nat \ {0}, NEW lines \in Nat \ {0},
           NEW g, ScreenOK(g, cols, lines), NEW i, ScreenOK(i, cols, lines)
    PROVE  LET s == Resized(t, cols, lines, g, i)
           IN  /\ s.cols = cols /\ s.lines = lines /\ s.grid = g /\ s.mode = t.mode
               /\ ViOK(s) /\ s.vi.line >= -g.offset
               /\ SelectionsOK(t) => SelectionsOK(s)
  <1>1. PICK old \in Nat \ {0}, hist \in Nat, cursor \in Nat, offset \in Nat :
          old = t.lines /\ hist = t.grid.hist /\ cursor = t.grid.cursor.line /\ offset = g.offset
    BY DEF TermOK, GeometryOK, ScreenOK, CursorOK
  <1>2. PICK delta \in Int : delta = MinOf(MaxOf(lines - old, MinOf(0, lines - cursor - 1)), hist)
    <2>1. MinOf(MaxOf(lines - old, MinOf(0, lines - cursor - 1)), hist) \in Int BY DEF MinOf, MaxOf
    <2>. QED BY <2>1
  <1>3. PICK bottom \in Nat : bottom = MaxOf(lines, old) /\ lines <= bottom /\ old <= bottom
    BY DEF MaxOf
  <1>4. PICK p : p = [t EXCEPT !.cols = cols, !.lines = lines, !.grid = g, !.inactive = i] OBVIOUS
  <1>5. /\ DOMAIN p = TermFields /\ p.cols = cols /\ p.lines = lines /\ p.grid = g
        /\ p.mode = t.mode /\ p.sel = t.sel
    BY <1>4 DEF TermOK, GeometryOK, TermFields
  <1>6. PICK sel : sel = IF cols # t.cols THEN NoSelection ELSE Rotated(p, 0, bottom, -delta) OBVIOUS
  <1>7. PICK vi : vi = Point(t.vi.line + delta, MinOf(t.vi.col, cols - 1)) OBVIOUS
  <1>8. PICK tabs, region, d, cell :
          /\ tabs = IF cols # t.cols THEN resize_tabs(t.tabs, t.cols, cols) ELSE t.tabs
          /\ region = [start |-> 0, end |-> lines] /\ d = damage_resize(cols, lines) /\ cell = Point(0, 0)
    OBVIOUS
  <1>9. PICK q : q = [p EXCEPT !.sel = sel, !.tabs = tabs, !.vi = vi, !.region = region,
                               !.damage = d, !.cell = cell, !.since = "written"]
    OBVIOUS
  <1>10. PICK line : line = Clamp(q.vi.line, -q.grid.offset, q.lines - 1 - q.grid.offset) OBVIOUS
  <1>11. PICK s : s = [q EXCEPT !.vi.line = line] OBVIOUS
  <1>12. s = Resized(t, cols, lines, g, i)
    <2>1. Resized(t, cols, lines, g, i) = ViInView(q)
      BY <1>1, <1>2, <1>3, <1>4, <1>6, <1>7, <1>8, <1>9, ZenonT(30) DEF Resized
    <2>. QED BY <1>10, <1>11, <2>1 DEF ViInView
  <1>13. /\ DOMAIN q = TermFields /\ q.cols = cols /\ q.lines = lines /\ q.grid = g /\ q.mode = t.mode
        /\ q.sel = sel /\ q.vi = vi
    BY <1>5, <1>9 DEF TermFields
  <1>14. /\ DOMAIN s = TermFields /\ s.cols = cols /\ s.lines = lines /\ s.grid = g /\ s.mode = t.mode
         /\ s.sel = sel /\ s.vi = [vi EXCEPT !.line = line]
    BY <1>13, <1>11 DEF TermFields
  <1>15. line \in Int /\ line >= -offset /\ line < lines /\ vi \in [line : Int, col : Nat] /\ vi.col < cols
    <2>1. vi \in [line : Int, col : Nat] /\ vi.col < cols
      BY <1>7 DEF ViColumn, Point, MinOf
    <2>. QED BY <1>1, <1>13, <1>10, <2>1 DEF Clamp, MinOf, MaxOf
  <1>16. ViOK(s) /\ s.vi.line >= -g.offset
    <2>1. s.vi \in [line : Int, col : Nat] /\ s.vi.line = line /\ s.vi.col = vi.col BY <1>14, <1>15
    <2>. QED BY <1>1, <1>14, <1>15, <2>1 DEF ViOK, PointIn
  <1>17. ASSUME SelectionsOK(t) PROVE SelectionsOK(s)
    <2>1. CASE cols # t.cols BY <1>6, <1>14, <2>1 DEF NoSelection, SelectionsOK
    <2>2. CASE cols = t.cols
      <3>1. PICK e : e = Dims(p) OBVIOUS
      <3>2. e.cols = cols /\ e.lines = lines BY <1>5, <3>1 DEF Dims
      <3>3. ASSUME NEW r \in sel PROVE SelectionOK(r, cols, lines)
        <4>1. PICK x \in t.sel : r \in rotate_selection(e, x, 0, bottom, -delta)
          BY <1>5, <1>6, <2>2, <3>1, <3>3 DEF Rotated
        <4>2. SelectionOK(x, cols, old) BY <1>1, <1>17, <2>2 DEF SelectionsOK
        <4>3. PICK zero \in Nat, back \in Int : zero = 0 /\ back = -delta OBVIOUS
        <4>4. old \in Nat OBVIOUS
        <4>. QED BY <1>3, <3>2, <4>1, <4>2, <4>3, <4>4, RotateOK
      <3>. QED BY <1>14, <3>3 DEF SelectionsOK
    <2>. QED BY <2>1, <2>2
  <1>. QED BY <1>14, <1>16, <1>17, <1>12

(* A terminal of a new size keeps its positions. *)
LEMMA ResizeStays ==
    ASSUME NEW t, TermOK(t), NEW cols \in Nat \ {0}, NEW lines \in Nat \ {0},
           NEW s \in TermResize(t, cols, lines), TermOK(s)
    PROVE  Stays(t, s)
  <1>1. CASE cols = t.cols /\ lines = t.lines
    <2>1. s = t BY <1>1 DEF TermResize
    <2>. QED BY <2>1, FollowsSame, FollowsStays DEF TermOK
  <1>2. CASE ~(cols = t.cols /\ lines = t.lines)
    <2>1. PICK a, b : a = ~Has(t, "ALT_SCREEN") /\ b = Has(t, "ALT_SCREEN") OBVIOUS
    <2>2. PICK g \in resize_grid(t.grid, t, a, cols, lines), i \in resize_grid(t.inactive, t, b, cols, lines) :
            s = Resized(t, cols, lines, g, i)
      BY <1>2, <2>1 DEF TermResize
    <2>3. ScreenOK(g, cols, lines) /\ ScreenOK(i, cols, lines)
      BY ResizeGridOK DEF TermOK, GeometryOK
    <2>4. ViOK(t) => /\ s.grid = g /\ ViOK(s) /\ s.vi.line >= -g.offset
                     /\ SelectionsOK(t) => SelectionsOK(s)
      BY <2>2, <2>3, ResizedLaw DEF ViOK, ViColumn, PointIn
    <2>5. g.offset \in Int /\ g.hist \in Int BY <2>3 DEF ScreenOK
    <2>6. ASSUME ViOK(t), g.offset <= g.hist PROVE s.vi.line >= -g.hist
      <3>1. s.vi.line \in Int BY <2>4, <2>6 DEF ViOK, PointIn
      <3>. QED BY <2>4, <2>5, <2>6, <3>1
    <2>. QED BY <2>4, <2>6 DEF Stays
  <1>. QED BY <1>1, <1>2

-----------------------------------------------------------------------------
(* Every step *)

(* What is held, or moves with the text, stays in the grid. *)
LEMMA Staying ==
    ASSUME TermInv, TermInv', Held(term, term') \/ Follows(term, term') \/ Stays(term, term')
    PROVE  Stays(term, term')
  <1>1. GeometryOK(term) /\ GeometryOK(term') BY DEF TermInv, TermOK
  <1>. QED BY <1>1, HeldFollows, FollowsStays

(* Writing and erasing, *)
LEMMA WritingStays ==
    ASSUME TermInv, TermInv', Input \/ Erase
    PROVE  Stays(term, term')
  <1>0. TermOK(term) /\ GeometryOK(term) /\ Held(term, term)
    BY FollowsSame DEF TermInv, TermOK
  <1>1. CASE Input
    <2>1. Follows(term, term') BY <1>0, <1>1, InputFollows DEF Input, Do
    <2>. QED BY <2>1, Staying
  <1>2. CASE Erase
    <2>1. PICK zero, above, below : zero \in Nat /\ zero = 0 /\ above = "Above" /\ below = "Below" OBVIOUS
    <2>2. CASE Do(clear_screen(term, above, zero)) \/ Do(clear_screen(term, below, zero))
      <3>1. Follows(term, term') BY <1>0, <2>1, <2>2, ClearScreenFollows DEF Do
      <3>. QED BY <3>1, Staying
    <2>3. CASE \/ Do(decaln(term))
               \/ \E n \in 1..2 : Do(insert_blank(term, n)) \/ Do(delete_chars(term, n))
                                  \/ Do(erase_chars(term, n))
               \/ \E mode \in {"Left", "Right", "All"} : Do(clear_line(term, mode))
      <3>1. Held(term, term') BY <1>0, <2>3, WritesHeld DEF Do
      <3>. QED BY <3>1, Staying
    <2>. QED BY <1>2, <2>1, <2>2, <2>3 DEF Erase
  <1>. QED BY <1>1, <1>2

(* moving the cursor, also to tab stops, *)
LEMMA MovingStays ==
    ASSUME TermInv, TermInv', Move \/ Tab
    PROVE  Stays(term, term')
  <1>0. TermOK(term) /\ GeometryOK(term) /\ Shaped(term)
    BY FollowsSame DEF TermInv, TermOK
  <1>1. CASE Move
    <2>1. CASE \/ \E line \in 0..term.lines - 1 : Do(goto(term, line, term.cols - 1))
               \/ Do(goto_line(term, 0)) \/ Do(goto_col(term, 1))
               \/ Do(move_up(term, 1)) \/ Do(move_down(term, 1))
               \/ Do(move_up_and_cr(term, 1)) \/ Do(move_down_and_cr(term, 1))
               \/ Do(move_forward(term, 1)) \/ Do(move_backward(term, 1)) \/ Do(backspace(term))
               \/ Do(carriage_return(term))
      <3>1. Held(term, term') BY <1>0, <2>1, MovesHeld DEF Do
      <3>. QED BY <3>1, Staying
    <2>2. CASE Do(save_cursor_position(term)) \/ Do(restore_cursor_position(term))
      <3>1. Held(term, term') BY <1>0, <2>2, SettingsHeld DEF Do
      <3>. QED BY <3>1, Staying
    <2>3. CASE \/ Do(newline(term)) \/ Do(reverse_index(term))
               \/ Do(insert_blank_lines(term, 1)) \/ Do(delete_lines(term, 2))
      <3>1. PICK one \in Nat, two \in Nat : one = 1 /\ two = 2 OBVIOUS
      <3>2. Follows(term, term') BY <1>0, <2>3, <3>1, ScrollsFollow DEF Do
      <3>. QED BY <3>2, Staying
    <2>. QED BY <1>1, <2>1, <2>2, <2>3 DEF Move
  <1>2. CASE Tab
    <2>1. CASE Do(put_tab(term, 1))
      <3>1. PICK any : any = 0 OBVIOUS
      <3>2. \A n : Follows(term, put_tab(term, n)) BY <1>0, <3>1, InputFollows
      <3>. QED BY <2>1, <3>2, Staying DEF Do
    <2>2. CASE Do(move_forward_tabs(term, 2)) \/ Do(move_backward_tabs(term, 1))
      BY <1>0, <2>2, MovesHeld, Staying DEF Do
    <2>3. CASE \/ Do(set_horizontal_tabstop(term))
               \/ \E mode \in {"Current", "All"} : Do(clear_tabs(term, mode))
      BY <1>0, <2>3, SettingsHeld, Staying DEF Do
    <2>. QED BY <1>2, <2>1, <2>2, <2>3 DEF Tab
  <1>. QED BY <1>1, <1>2

(* setting modes and the scrolling region, and drawing, *)
LEMMA ModesStay ==
    ASSUME TermInv, TermInv', Region \/ InsertMode \/ Modes \/ Frame
    PROVE  Stays(term, term')
  <1>0. TermOK(term) /\ GeometryOK(term) /\ Shaped(term)
    BY FollowsSame DEF TermInv, TermOK
  <1>1. ASSUME NEW mode \in PrivateModes, Do(set_private_mode(term, mode)) \/ Do(unset_private_mode(term, mode))
        PROVE  Stays(term, term')
    BY <1>0, <1>1, PrivateHeld, SwapStays, Staying DEF Do
  <1>2. CASE Region
    <2>1. CASE \E top \in 1..term.lines, bottom \in 2..term.lines + 1 : Do(set_scrolling_region(term, top, bottom))
      BY <1>0, <2>1, SettingsHeld, Staying DEF Do
    <2>2. CASE \E mode \in {"Origin", "LineWrap"} :
                 Do(set_private_mode(term, mode)) \/ Do(unset_private_mode(term, mode))
      BY <1>1, <2>2 DEF PrivateModes, ModeOf
    <2>3. CASE Do(input_wide(term, "narrow")) BY <1>0, <2>3, InputFollows, Staying DEF Do
    <2>. QED BY <1>2, <2>1, <2>2, <2>3 DEF Region
  <1>3. CASE InsertMode
    <2>1. CASE Do(set_private_mode(term, "LineWrap")) \/ Do(unset_private_mode(term, "LineWrap"))
      <3>1. PICK mode \in PrivateModes : mode = "LineWrap" BY DEF PrivateModes, ModeOf
      <3>. QED BY <1>1, <2>1, <3>1
    <2>2. CASE \/ Do(set_mode(term, "Insert")) \/ Do(unset_mode(term, "Insert"))
               \/ Do(set_mode(term, "LineFeedNewLine")) \/ Do(unset_mode(term, "LineFeedNewLine"))
      BY <1>0, <2>2, SmallHeld, Staying DEF Do
    <2>. QED BY <1>3, <2>1, <2>2 DEF InsertMode
  <1>4. CASE Modes
    <2>1. CASE \E mode \in PrivateModes \ Flags :
                 Do(set_private_mode(term, mode)) \/ Do(unset_private_mode(term, mode))
      BY <1>1, <2>1
    <2>2. CASE \/ Do(set_keypad_application_mode(term)) \/ Do(unset_keypad_application_mode(term))
               \/ Do(ReportBlinking(term))
      BY <1>0, <2>2, SmallHeld, Staying DEF Do
    <2>3. CASE Do(reset_state(term)) BY <1>0, <2>3, ResetStays DEF Do
    <2>4. CASE Do(toggle_vi_mode(term)) BY <1>0, <2>4, ToggleViStays DEF Do
    <2>. QED BY <1>4, <2>1, <2>2, <2>3, <2>4 DEF Modes
  <1>5. CASE Frame BY <1>0, <1>5, DrawHeld, Staying DEF Frame, Do
  <1>. QED BY <1>2, <1>3, <1>4, <1>5

(* the stacks, the pen and the style, *)
LEMMA StacksStay ==
    ASSUME TermInv, TermInv', Stacks \/ Pen \/ Style
    PROVE  Stays(term, term')
  <1>0. TermOK(term) /\ GeometryOK(term) /\ Shaped(term)
    BY FollowsSame DEF TermInv, TermOK
  <1>1. PICK swap \in PrivateModes : swap = "SwapScreenAndSetRestoreCursor" BY DEF PrivateModes, ModeOf
  <1>2. CASE Do(set_private_mode(term, swap)) \/ Do(unset_private_mode(term, swap))
    BY <1>0, <1>2, PrivateHeld, SwapStays, Staying DEF Do
  <1>3. CASE Do(reset_state(term)) BY <1>0, <1>3, ResetStays DEF Do
  <1>4. CASE Stacks
    <2>1. CASE \/ \E mode \in KeyboardModes :
                    \/ Len(term.keyboard) < MaxKeyboardModes /\ Do(push_keyboard_mode(term, mode))
                    \/ \E apply \in {"Replace", "Union", "Difference"} :
                         Do(apply_keyboard_mode(term, mode, apply))
               \/ \E n \in {1, 3} : Do(pop_keyboard_modes(term, n))
      BY <1>0, <2>1, KeyboardHeld, Staying DEF Do
    <2>2. CASE (\E title \in Titles : Do(set_title(term, title))) \/ Do(push_title(term)) \/ Do(pop_title(term))
      BY <1>0, <2>2, SmallHeld, Staying DEF Do
    <2>3. CASE \E kitty \in BOOLEAN : Do(set_options(term, [term.config EXCEPT !.kitty = kitty]))
      <3>1. PICK kitty, c : kitty \in BOOLEAN /\ c = [term.config EXCEPT !.kitty = kitty] /\ Do(set_options(term, c))
        BY <2>3
      <3>2. ConfigOK(c) BY <1>0, <3>1 DEF TermOK, ModesOK, StacksOK, ConfigOK
      <3>. QED BY <1>0, <3>1, <3>2, OptionsStay DEF Do
    <2>. QED BY <1>1, <1>2, <1>3, <1>4, <2>1, <2>2, <2>3 DEF Stacks
  <1>5. CASE Pen
    BY <1>0, <1>1, <1>2, <1>5, SettingsHeld, Staying DEF Pen, Do
  <1>6. CASE Style
    <2>1. CASE Do(swap_alt(term)) BY <1>0, <2>1, SwapStays DEF Do
    <2>2. CASE \/ \E index \in {"Cursor", "Foreground"} :
                    Do(set_color(term, index, 1)) \/ Do(reset_color(term, index))
               \/ Do(set_cursor_style(term, {})) \/ Do(set_cursor_shape(term, "Beam"))
               \/ \E index \in 0..1 : Do(set_active_charset(term, index))
      BY <1>0, <2>2, SmallHeld, Staying DEF Do
    <2>. QED BY <1>3, <1>6, <2>1, <2>2 DEF Style
  <1>. QED BY <1>4, <1>5, <1>6

(* scrolling, *)
LEMMA ScrollStays ==
    ASSUME TermInv, TermInv', Scroll
    PROVE  Stays(term, term')
  <1>0. TermOK(term) /\ GeometryOK(term) /\ Shaped(term) /\ term.lines \in Nat /\ term.grid.hist \in Nat
    BY FollowsSame DEF TermInv, TermOK, GeometryOK, ScreenOK
  <1>1. CASE \E n \in 1..2 : Do(scroll_up(term, n)) \/ Do(scroll_down(term, n))
    <2>1. PICK n \in Nat : Do(scroll_up(term, n)) \/ Do(scroll_down(term, n)) BY <1>1
    <2>. QED BY <1>0, <2>1, ScrollsFollow, Staying DEF Do
  <1>2. CASE \E scroll \in {-1, 1} : Do(scroll_display(term, Delta(scroll)))
    <2>1. PICK by \in Int : Do(scroll_display(term, Delta(by))) BY <1>2
    <2>2. PICK scroll : scroll = Delta(by) OBVIOUS
    <2>3. scroll.to = "Delta" /\ scroll.by \in Int BY <2>2 DEF Delta
    <2>. QED BY <1>0, <2>1, <2>2, <2>3, ScrollDisplayStays DEF Do
  <1>3. CASE \E scroll \in {"PageUp", "PageDown", "Top", "Bottom"} : Do(scroll_display(term, ScrollTo(scroll)))
    <2>1. PICK to \in {"PageUp", "PageDown", "Top", "Bottom"} : Do(scroll_display(term, ScrollTo(to))) BY <1>3
    <2>2. PICK scroll : scroll = ScrollTo(to) OBVIOUS
    <2>3. scroll.to = to /\ scroll.by \in Int BY <2>2 DEF ScrollTo
    <2>. QED BY <1>0, <2>1, <2>2, <2>3, ScrollDisplayStays DEF Do
  <1>4. CASE \/ \E used \in (IF term.grid.hist > 0 THEN 0 ELSE 1)..term.lines : Do(clear_screen(term, "All", used))
             \/ \E mode \in {"Above", "Below", "Saved"} : Do(clear_screen(term, mode, 0))
    <2>1. PICK used \in Nat, mode \in {"Above", "Below", "All", "Saved"} : Do(clear_screen(term, mode, used))
      BY <1>0, <1>4
    <2>. QED BY <1>0, <2>1, ClearScreenFollows, Staying DEF Do
  <1>5. CASE Do(deccolm(term)) BY <1>0, <1>5, SettingsHeld, Staying DEF Do
  <1>6. CASE Do(linefeed(term))
    <2>1. PICK zero \in Nat : zero = 0 OBVIOUS
    <2>. QED BY <1>0, <1>6, <2>1, ScrollsFollow, Staying DEF Do
  <1>. QED BY <1>1, <1>2, <1>3, <1>4, <1>5, <1>6 DEF Scroll

(* the view, the other screen, and other sizes. *)
LEMMA ViewStays ==
    ASSUME TermInv, TermInv', ViMode \/ Select \/ Screens \/ Resize
    PROVE  Stays(term, term')
  <1>0. TermOK(term) /\ GeometryOK(term) /\ Shaped(term) /\ TermOK(term')
    BY FollowsSame DEF TermInv, TermOK
  <1>1. CASE ViMode
    <2>1. CASE Do(toggle_vi_mode(term)) BY <1>0, <2>1, ToggleViStays DEF Do
    <2>2. CASE \E p \in GridPoints(Dims(term)) : Do(vi_motion(term, p))
      BY <1>0, <2>2, ViMotionStays DEF Do
    <2>. QED BY <1>1, <2>1, <2>2 DEF ViMode
  <1>2. CASE Select
    <2>1. ASSUME NEW p \in Displayed PROVE PointIn(p, term.cols, term.lines)
      <3>1. PICK cols \in Nat, lines \in Nat, offset \in Nat :
              cols = term.cols /\ lines = term.lines /\ offset = term.grid.offset
        BY <1>0 DEF GeometryOK, ScreenOK
      <3>2. PICK l \in 0..(lines - 1), c \in 0..(cols - 1) : p = Point(l - offset, c)
        BY <2>1, <3>1 DEF Displayed
      <3>3. l \in Nat /\ c \in Nat /\ l < lines /\ c < cols BY <3>1, <3>2
      <3>4. PointIn(Point(l - offset, c), cols, lines) BY <3>1, <3>3, DisplayedIn
      <3>. QED BY <3>1, <3>2, <3>4
    <2>2. PICK p \in Displayed :
            \/ Do([term EXCEPT !.sel = {Selection("Simple", p, "Left")}])
            \/ \E s \in term.sel : Do([term EXCEPT !.sel = {update(s, p, "Right")}])
      BY <1>2 DEF Select
    <2>3. /\ Stays(term, [term EXCEPT !.sel = {Selection("Simple", p, "Left")}])
          /\ \A s \in term.sel : Stays(term, [term EXCEPT !.sel = {update(s, p, "Right")}])
      BY <1>0, <2>1, SelectStays
    <2>. QED BY <2>2, <2>3 DEF Do
  <1>3. CASE Screens
    <2>1. CASE Do(swap_alt(term)) BY <1>0, <2>1, SwapStays DEF Do
    <2>2. CASE Do(reset_state(term)) BY <1>0, <2>2, ResetStays DEF Do
    <2>3. CASE Do(ToggleAutoScroll(term)) BY <1>0, <2>3, SettingsHeld, Staying DEF Do
    <2>4. CASE \E history \in 0..History : Do(set_options(term, [term.config EXCEPT !.history = history]))
      <3>1. PICK history, c :
              history \in Nat /\ c = [term.config EXCEPT !.history = history] /\ Do(set_options(term, c))
        BY <2>4, SizeAssumption
      <3>2. ConfigOK(c) BY <1>0, <3>1 DEF TermOK, ModesOK, StacksOK, ConfigOK
      <3>. QED BY <1>0, <3>1, <3>2, OptionsStay DEF Do
    <2>. QED BY <1>3, <2>1, <2>2, <2>3, <2>4 DEF Screens
  <1>4. CASE Resize
    <2>1. PICK size \in NewSizes[group] : \E t \in TermResize(term, size[1], size[2]) : Do(t)
      BY <1>4 DEF Resize
    <2>2. PICK cols, lines : cols = size[1] /\ lines = size[2] OBVIOUS
    <2>3. PICK t \in TermResize(term, cols, lines) : Do(t) BY <2>1, <2>2
    <2>4. cols \in Nat \ {0} /\ lines \in Nat \ {0}
      BY <1>4, <2>2, SizeAssumption DEF Resize, In, SizeOK
    <2>. QED BY <1>0, <2>3, <2>4, ResizeStays DEF Do
  <1>. QED BY <1>1, <1>2, <1>3, <1>4

(* The positions of the terminal after every step that is not one of the search bar. *)
LEMMA PositionsStay ==
    ASSUME TermInv, TermInv', [Next]_vars
    PROVE  Search \/ Stays(term, term')
  <1>1. CASE UNCHANGED vars
    <2>1. term' = term BY <1>1 DEF vars
    <2>. QED BY <2>1, FollowsSame, FollowsStays DEF TermInv, TermOK
  <1>. QED BY <1>1, WritingStays, MovingStays, ModesStay, StacksStay, ScrollStays, ViewStays DEF Next

-----------------------------------------------------------------------------
(* The search bar *)

BarFields ==
    {"t", "rows", "index", "history", "delta", "origin", "focused", "dfas", "timer", "late",
     "pending", "before"}

(* A point in a column of the screen. *)
ColumnIn(p, cols) == p \in [line : Int, col : Nat] /\ p.col < cols

(* The terminal a search is made in: its vi cursor is in the grid, and its view in the
   scrollback. *)
ShownOK(t) ==
    /\ TermOK(t) /\ ViOK(t)
    /\ t.vi.line >= -t.grid.hist /\ t.grid.offset <= t.grid.hist

(* The points a search remembers may be above the scrollback or below the screen, but are
   in a column of it. *)
BarPointsOK(b) ==
    /\ DOMAIN b = BarFields /\ ShownOK(b.t) /\ b.delta \in Int
    /\ ColumnIn(b.origin, b.t.cols) /\ \A p \in b.focused : ColumnIn(p, b.t.cols)

(* The entry of the history that is shown exists. *)
HistoryOK(b) ==
    /\ b.history \in Seq(Seq(Chars)) /\ Len(b.history) <= MAX_SEARCH_HISTORY_SIZE
    /\ b.index = NoIndex \/ b.index \in 0..(Len(b.history) - 1)

(* Between searches the screen has all lines of the window. *)
RowsOK(b) ==
    /\ b.rows \in Nat \ {0} /\ b.pending \in BOOLEAN
    /\ ~search_active(b) /\ ~b.pending => b.t.lines = b.rows
    /\ b.rows = 1 => b.t.lines = 1

(* The origin of a search in vi mode is where the vi cursor was, on the screen as it will
   be once the bar has taken its line, or is. *)
OriginOK(b) ==
    /\ \A d \in b.before : d \in Int
    /\ search_active(b) /\ Vi(b) /\ b.rows # 1 =>
         \A d \in b.before :
           IF b.pending
           THEN /\ b.t.lines = b.rows
                /\ b.origin.line = b.t.grid.cursor.line + d
                                   - (IF b.t.grid.cursor.line + 1 = b.t.lines THEN 1 ELSE 0)
           ELSE b.origin.line = b.t.grid.cursor.line + d

(* What holds of the search bar in every state. *)
BarOK(b) == BarPointsOK(b) /\ HistoryOK(b) /\ RowsOK(b) /\ OriginOK(b)

(* A part of a step of the search moves the view, the vi cursor, and what is remembered
   of the matches. *)
Searched(b, c) ==
    /\ BarPointsOK(c)
    /\ c.t.cols = b.t.cols /\ c.t.lines = b.t.lines /\ c.t.grid.hist = b.t.grid.hist
    /\ c.t.grid.cursor = b.t.grid.cursor /\ c.t.mode = b.t.mode
    /\ c.rows = b.rows /\ c.pending = b.pending /\ c.index = b.index /\ c.history = b.history
    /\ c.before = b.before

(* One such part after another. *)
LEMMA SearchedTrans ==
    ASSUME NEW b, NEW c, NEW d, Searched(b, c), Searched(c, d)
    PROVE  Searched(b, d)
  BY DEF Searched

(* Such a step keeps what holds of the bar, if it keeps the origin or forgets what it
   stands for. *)
LEMMA SearchedOK ==
    ASSUME NEW b, BarOK(b), NEW c, Searched(b, c), c.origin = b.origin
    PROVE  BarOK(c)
  BY DEF BarOK, Searched, HistoryOK, RowsOK, OriginOK, search_active, Vi, Has

(* and, once forgotten, the origin may move. *)
LEMMA ForgottenOK ==
    ASSUME NEW b, HistoryOK(b), RowsOK(b), NEW c, Searched(b, c)
    PROVE  BarOK([c EXCEPT !.before = None])
  <1>1. PICK d : d = [c EXCEPT !.before = None] OBVIOUS
  <1>2. /\ DOMAIN d = BarFields /\ d.t = c.t /\ d.delta = c.delta /\ d.origin = c.origin
        /\ d.focused = c.focused /\ d.rows = b.rows /\ d.pending = b.pending /\ d.index = b.index
        /\ d.history = b.history /\ d.before = {}
    BY <1>1 DEF Searched, BarPointsOK, BarFields, None
  <1>3. BarPointsOK(d) BY <1>2 DEF Searched, BarPointsOK
  <1>4. HistoryOK(d) /\ RowsOK(d) /\ OriginOK(d)
    BY <1>2 DEF Searched, HistoryOK, RowsOK, OriginOK, search_active
  <1>. QED BY <1>1, <1>3, <1>4 DEF BarOK

(* The view of the terminal is moved within the scrollback. *)
LEMMA ViewedShown ==
    ASSUME NEW t, ShownOK(t), NEW s, Viewed(t, s), ViOK(s),
           s.vi.line >= -s.grid.hist \/ s.vi.line >= -s.grid.offset
    PROVE  ShownOK(s)
  <1>1. s.grid.offset \in Int /\ s.grid.hist \in Int /\ s.vi.line \in Int
    BY DEF Viewed, TermOK, GeometryOK, ScreenOK, ViOK, PointIn
  <1>. QED BY <1>1 DEF ShownOK, Viewed

(* Scrolling by lines, with a vi cursor that is put anywhere first. *)
LEMMA ShownScroll ==
    ASSUME NEW t, ShownOK(t), NEW p, ColumnIn(p, t.cols), NEW n \in Int
    PROVE  LET s == scroll_display([t EXCEPT !.vi = p], Delta(n))
           IN  ShownOK(s) /\ Viewed(t, s)
               /\ s.vi.line = Clamp(p.line, -s.grid.offset, t.lines - 1 - s.grid.offset)
  <1>1. PICK u : u = [t EXCEPT !.vi = p] OBVIOUS
  <1>2. /\ u.vi = p /\ u.cols = t.cols /\ u.lines = t.lines /\ u.mode = t.mode /\ u.grid = t.grid
        /\ u.sel = t.sel
    BY <1>1 DEF ShownOK, TermOK, GeometryOK, TermFields
  <1>3. TermOK(u)
    <2>1. View(t, u) BY <1>1, SelectView DEF ShownOK
    <2>. QED BY <2>1, ViewKeeps DEF ShownOK
  <1>4. ViColumn(u) BY <1>2 DEF ColumnIn, ViColumn
  <1>5. PICK scroll : scroll = Delta(n) OBVIOUS
  <1>6. scroll.to = "Delta" /\ scroll.by = n BY <1>5 DEF Delta
  <1>7. PICK s : s = scroll_display(u, scroll) OBVIOUS
  <1>8. Viewed(u, s) /\ InView(u, s) BY <1>3, <1>4, <1>6, <1>7, ScrollDisplayLaw
  <1>9. ViOK(s) /\ (s.grid.offset <= s.grid.hist => s.vi.line >= -s.grid.hist)
    BY <1>3, <1>4, <1>8, InViewOK
  <1>10. Viewed(t, s) BY <1>2, <1>8 DEF Viewed, SelectionsOK
  <1>11. s.grid.offset <= s.grid.hist BY <1>10 DEF Viewed, ShownOK
  <1>12. ShownOK(s) BY <1>9, <1>10, <1>11, ViewedShown
  <1>13. s.vi.line = Clamp(p.line, -s.grid.offset, t.lines - 1 - s.grid.offset)
    BY <1>2, <1>8 DEF InView, Point
  <1>. QED BY <1>1, <1>5, <1>7, <1>10, <1>12, <1>13

(* Scrolling in any way, *)
LEMMA ShownDisplay ==
    ASSUME NEW t, ShownOK(t), NEW scroll,
           scroll.to \in {"PageUp", "PageDown", "Top", "Bottom", "Delta"}, scroll.by \in Int
    PROVE  ShownOK(scroll_display(t, scroll)) /\ Viewed(t, scroll_display(t, scroll))
  <1>1. PICK s : s = scroll_display(t, scroll) OBVIOUS
  <1>2. TermOK(t) /\ ViColumn(t) BY DEF ShownOK, ViOK, PointIn, ViColumn
  <1>3. Viewed(t, s) /\ InView(t, s) BY <1>1, <1>2, ScrollDisplayLaw
  <1>4. ViOK(s) /\ (s.grid.offset <= s.grid.hist => s.vi.line >= -s.grid.hist)
    BY <1>2, <1>3, InViewOK
  <1>5. s.grid.offset <= s.grid.hist BY <1>3 DEF Viewed, ShownOK
  <1>. QED BY <1>1, <1>3, <1>4, <1>5, ViewedShown

(* and to a match, with the vi cursor or without it. *)
LEMMA ShownPoint ==
    ASSUME NEW t, ShownOK(t), NEW p, p.line \in Int
    PROVE  ShownOK(scroll_to_point(t, p)) /\ Viewed(t, scroll_to_point(t, p))
  <1>1. PICK s : s = scroll_to_point(t, p) OBVIOUS
  <1>2. Viewed(t, s) /\ ViOK(s) /\ s.vi.line >= -s.grid.hist
    BY <1>1, ScrollToPointLaw DEF ShownOK
  <1>. QED BY <1>1, <1>2, ViewedShown

(* The vi cursor is put to the match. *)
LEMMA ShownGoto ==
    ASSUME NEW t, ShownOK(t), NEW p, PointIn(p, t.cols, t.lines), p.line >= -t.grid.hist
    PROVE  ShownOK(vi_goto_point(t, p)) /\ Viewed(t, vi_goto_point(t, p))
  <1>1. PICK s : s = vi_goto_point(t, p) OBVIOUS
  <1>2. Viewed(t, s) /\ ViOK(s) /\ s.vi = p BY <1>1, GotoPointLaw DEF ShownOK
  <1>3. s.vi.line >= -s.grid.hist BY <1>2 DEF Viewed
  <1>. QED BY <1>1, <1>2, <1>3, ViewedShown

(* A bar with the view of its terminal moved, and other matches remembered. *)
LEMMA MovedSearched ==
    ASSUME NEW b, BarPointsOK(b), NEW c, DOMAIN c = BarFields, ShownOK(c.t), Viewed(b.t, c.t),
           c.delta \in Int, ColumnIn(c.origin, b.t.cols), \A p \in c.focused : ColumnIn(p, b.t.cols),
           c.rows = b.rows, c.pending = b.pending, c.index = b.index, c.history = b.history,
           c.before = b.before
    PROVE  Searched(b, c)
  BY DEF Searched, BarPointsOK, Viewed

(* A bar whose terminal is left alone. *)
LEMMA StillSearched ==
    ASSUME NEW b, BarPointsOK(b), NEW c, DOMAIN c = BarFields, c.t = b.t,
           c.delta \in Int, ColumnIn(c.origin, b.t.cols), \A p \in c.focused : ColumnIn(p, b.t.cols),
           c.rows = b.rows, c.pending = b.pending, c.index = b.index, c.history = b.history,
           c.before = b.before
    PROVE  Searched(b, c)
  BY DEF Searched, BarPointsOK

(* Back to the origin. *)
LEMMA ResetSearched ==
    ASSUME NEW b, BarPointsOK(b)
    PROVE  LET c == search_reset_state(b)
           IN  /\ Searched(b, c) /\ c.origin = b.origin
               /\ Vi(b) => c.t.vi.line = Clamp(b.origin.line, -c.t.grid.offset, b.t.lines - 1 - c.t.grid.offset)
  <1>1. PICK s : s = [b EXCEPT !.timer = FALSE, !.focused = None] OBVIOUS
  <1>2. /\ DOMAIN s = BarFields /\ s.t = b.t /\ s.rows = b.rows /\ s.pending = b.pending
        /\ s.index = b.index /\ s.history = b.history /\ s.before = b.before /\ s.delta = b.delta
        /\ s.origin = b.origin /\ s.focused = {}
    BY <1>1 DEF BarPointsOK, BarFields, None
  <1>3. PICK c : c = search_reset_state(b) OBVIOUS
  <1>4. CASE ~Vi(b)
    <2>1. c = s BY <1>1, <1>3, <1>4 DEF search_reset_state
    <2>2. Searched(b, c) BY <1>2, <2>1, StillSearched DEF BarPointsOK
    <2>. QED BY <1>2, <1>3, <1>4, <2>1, <2>2
  <1>5. CASE Vi(b)
    <2>1. PICK t : t = scroll_display([b.t EXCEPT !.vi = b.origin], Delta(b.delta)) OBVIOUS
    <2>2. c = [s EXCEPT !.t = t, !.delta = 0] BY <1>1, <1>3, <1>5, <2>1 DEF search_reset_state
    <2>3. /\ DOMAIN c = BarFields /\ c.t = t /\ c.rows = b.rows /\ c.pending = b.pending
          /\ c.index = b.index /\ c.history = b.history /\ c.before = b.before /\ c.delta = 0
          /\ c.origin = b.origin /\ c.focused = {}
      BY <1>2, <2>2 DEF BarFields
    <2>4. /\ ShownOK(t) /\ Viewed(b.t, t)
          /\ t.vi.line = Clamp(b.origin.line, -t.grid.offset, b.t.lines - 1 - t.grid.offset)
      BY <2>1, ShownScroll DEF BarPointsOK
    <2>5. Searched(b, c) BY <2>3, <2>4, MovedSearched DEF BarPointsOK
    <2>. QED BY <1>3, <2>3, <2>4, <2>5
  <1>. QED BY <1>4, <1>5

(* A result a search can have: a match is in the grid. *)
ResultOK(b, r) ==
    /\ r.found \in {"match", "none", "interrupted", "error"}
    /\ r.found = "match" => PointIn(r.at, b.t.cols, b.t.lines) /\ r.at.line >= -b.t.grid.hist

(* The results are such, and once typing is over no error is among them. *)
LEMMA ResultsAre ==
    ASSUME NEW b, BarPointsOK(b), NEW typing \in BOOLEAN, NEW r \in Results(b, typing)
    PROVE  ResultOK(b, r) /\ (~typing => r.found # "error")
  <1>1. PICK cols \in Nat \ {0}, lines \in Nat \ {0}, hist \in Nat :
          cols = b.t.cols /\ lines = b.t.lines /\ hist = b.t.grid.hist
    BY DEF BarPointsOK, ShownOK, TermOK, GeometryOK, ScreenOK
  <1>2. CASE r \in {[found |-> "match", at |-> p] : p \in {Point(-hist, 0), Point(lines - 1, cols - 1)}}
    <2>1. PICK p \in {Point(-hist, 0), Point(lines - 1, cols - 1)} : r = [found |-> "match", at |-> p]
      BY <1>2
    <2>2. p \in [line : Int, col : Nat] /\ p.line < lines /\ p.line >= -hist /\ p.col < cols
      BY <2>1 DEF Point
    <2>. QED BY <1>1, <2>1, <2>2 DEF ResultOK, PointIn
  <1>3. CASE r \in {[found |-> f, at |-> Point(0, 0)] :
                      f \in {"none"} \cup (IF typing THEN {"interrupted", "error"} ELSE {})}
    BY <1>3 DEF ResultOK
  <1>. QED BY <1>1, <1>2, <1>3 DEF Results

(* Going to a match. *)
LEMMA GotoMatchLaw ==
    ASSUME NEW b, BarPointsOK(b), NEW r, ResultOK(b, r), r.found = "error" => ~b.dfas
    PROVE  Searched(b, goto_match(b, r)) /\ goto_match(b, r).origin = b.origin
  <1>1. PICK c : c = goto_match(b, r) OBVIOUS
  <1>2. Searched(b, b) BY StillSearched DEF BarPointsOK
  <1>3. CASE ~b.dfas BY <1>2, <1>3 DEF goto_match
  <1>4. CASE b.dfas /\ r.found = "none"
    <2>1. c = search_reset_state(b) BY <1>1, <1>4 DEF goto_match
    <2>. QED BY <1>1, <2>1, ResetSearched
  <1>5. CASE b.dfas /\ r.found = "interrupted"
    <2>1. c = [b EXCEPT !.timer = TRUE, !.focused = None] BY <1>1, <1>5 DEF goto_match
    <2>2. /\ DOMAIN c = BarFields /\ c.t = b.t /\ c.rows = b.rows /\ c.pending = b.pending
          /\ c.index = b.index /\ c.history = b.history /\ c.before = b.before /\ c.delta = b.delta
          /\ c.origin = b.origin /\ c.focused = {}
      BY <2>1 DEF BarPointsOK, BarFields, None
    <2>. QED BY <1>1, <2>2, StillSearched DEF BarPointsOK
  <1>6. CASE b.dfas /\ r.found = "match"
    <2>0. PointIn(r.at, b.t.cols, b.t.lines) /\ r.at.line >= -b.t.grid.hist BY <1>6 DEF ResultOK
    <2>1. PICK t : t = IF Vi(b) THEN vi_goto_point(b.t, r.at) ELSE scroll_to_point(b.t, r.at) OBVIOUS
    <2>2. ShownOK(t) /\ Viewed(b.t, t)
      BY <2>0, <2>1, ShownGoto, ShownPoint DEF BarPointsOK, PointIn
    <2>3. PICK n : n = b.delta + b.t.grid.offset - t.grid.offset OBVIOUS
    <2>4. n \in Int
      <3>1. b.t.grid.offset \in Int /\ t.grid.offset \in Int
        BY <2>2 DEF BarPointsOK, ShownOK, TermOK, GeometryOK, ScreenOK
      <3>. QED BY <2>3, <3>1 DEF BarPointsOK
    <2>5. c = [b EXCEPT !.t = t, !.focused = {r.at}, !.timer = FALSE, !.delta = n]
      BY <1>1, <1>6, <2>1, <2>3 DEF goto_match
    <2>6. /\ DOMAIN c = BarFields /\ c.t = t /\ c.rows = b.rows /\ c.pending = b.pending
          /\ c.index = b.index /\ c.history = b.history /\ c.before = b.before /\ c.delta = n
          /\ c.origin = b.origin /\ c.focused = {r.at}
      BY <2>5 DEF BarPointsOK, BarFields
    <2>7. ColumnIn(r.at, b.t.cols) BY <2>0 DEF PointIn, ColumnIn
    <2>8. Searched(b, c) BY <2>2, <2>4, <2>6, <2>7, MovedSearched DEF BarPointsOK
    <2>. QED BY <1>1, <2>6, <2>8
  <1>. QED BY <1>3, <1>4, <1>5, <1>6 DEF ResultOK

(* Another regex is compiled. *)
LEMMA CompiledSearched ==
    ASSUME NEW b, BarPointsOK(b), NEW dfas
    PROVE  LET c == [b EXCEPT !.dfas = dfas]
           IN  Searched(b, c) /\ c.origin = b.origin /\ c.dfas = dfas /\ c.t = b.t
  <1>1. PICK c : c = [b EXCEPT !.dfas = dfas] OBVIOUS
  <1>2. /\ DOMAIN c = BarFields /\ c.t = b.t /\ c.rows = b.rows /\ c.pending = b.pending
        /\ c.index = b.index /\ c.history = b.history /\ c.before = b.before /\ c.delta = b.delta
        /\ c.origin = b.origin /\ c.focused = b.focused /\ c.dfas = dfas
    BY <1>1 DEF BarPointsOK, BarFields
  <1>. QED BY <1>1, <1>2, StillSearched DEF BarPointsOK

(* After every change of the regex, the search is made again. *)
LEMMA UpdateSearched ==
    ASSUME NEW b, BarPointsOK(b), NEW r, ResultOK(b, r)
    PROVE  Searched(b, update_search(b, r)) /\ update_search(b, r).origin = b.origin
  <1>1. PICK u : u = update_search(b, r) OBVIOUS
  <1>2. CASE Regex(b) = <<>>
    <2>1. PICK c : c = search_reset_state(b) OBVIOUS
    <2>2. Searched(b, c) /\ c.origin = b.origin BY <2>1, ResetSearched
    <2>3. u = [c EXCEPT !.dfas = FALSE] BY <1>1, <1>2, <2>1 DEF update_search
    <2>4. Searched(c, u) /\ u.origin = c.origin BY <2>2, <2>3, CompiledSearched DEF Searched
    <2>. QED BY <1>1, <2>2, <2>4, SearchedTrans
  <1>3. CASE Regex(b) # <<>>
    <2>1. PICK c : c = [b EXCEPT !.dfas = r.found # "error"] OBVIOUS
    <2>2. Searched(b, c) /\ c.origin = b.origin /\ (c.dfas <=> r.found # "error") /\ c.t = b.t
      BY <2>1, CompiledSearched
    <2>3. u = goto_match(c, r) BY <1>1, <1>3, <2>1 DEF update_search
    <2>4. BarPointsOK(c) /\ ResultOK(c, r) /\ (r.found = "error" => ~c.dfas)
      BY <2>2 DEF Searched, ResultOK
    <2>5. Searched(c, u) /\ u.origin = c.origin BY <2>3, <2>4, GotoMatchLaw
    <2>. QED BY <1>1, <2>2, <2>5, SearchedTrans
  <1>. QED BY <1>2, <1>3

(* Another entry of the history, or another text of one. *)
LEMMA EntryOK ==
    ASSUME NEW b, BarOK(b), search_active(b), NEW c, DOMAIN c = BarFields, HistoryOK(c),
           search_active(c), c.t = b.t, c.rows = b.rows, c.pending = b.pending, c.before = b.before, c.delta = b.delta,
           c.origin = b.origin, c.focused = b.focused
    PROVE  BarOK(c)
  <1>1. BarPointsOK(c) BY DEF BarOK, BarPointsOK
  <1>2. OriginOK(c) BY DEF BarOK, OriginOK, Vi, Has
  <1>3. RowsOK(c) BY DEF BarOK, RowsOK
  <1>. QED BY <1>1, <1>2, <1>3 DEF BarOK

(* The entry that is shown. *)
LEMMA ShownEntry ==
    ASSUME NEW b, HistoryOK(b), search_active(b)
    PROVE  /\ b.index \in Nat /\ b.index + 1 \in 1..Len(b.history) /\ Len(b.history) \in Nat
           /\ DOMAIN b.history = 1..Len(b.history) /\ Regex(b) \in Seq(Chars)
  <1>1. Len(b.history) \in Nat /\ DOMAIN b.history = 1..Len(b.history) BY DEF HistoryOK
  <1>2. b.index \in Nat /\ b.index + 1 \in 1..Len(b.history)
    BY <1>1 DEF HistoryOK, search_active
  <1>3. b.history[b.index + 1] \in Seq(Chars) BY <1>2 DEF HistoryOK
  <1>. QED BY <1>1, <1>2, <1>3 DEF Regex

(* An entry is changed. *)
LEMMA ChangedHistory ==
    ASSUME NEW b, BarOK(b), search_active(b), NEW i \in 1..Len(b.history), NEW r \in Seq(Chars),
           NEW n \in {0, b.index}
    PROVE  BarOK([b EXCEPT !.history = [b.history EXCEPT ![i] = r], !.index = n])
  <1>1. PICK h : h = [b.history EXCEPT ![i] = r] OBVIOUS
  <1>2. h \in Seq(Seq(Chars)) /\ Len(h) = Len(b.history) BY <1>1 DEF BarOK, HistoryOK
  <1>3. PICK c : c = [b EXCEPT !.history = h, !.index = n] OBVIOUS
  <1>4. /\ DOMAIN c = BarFields /\ c.t = b.t /\ c.rows = b.rows /\ c.pending = b.pending
        /\ c.before = b.before /\ c.delta = b.delta /\ c.origin = b.origin /\ c.focused = b.focused
        /\ c.history = h /\ c.index = n
    BY <1>3 DEF BarOK, BarPointsOK, BarFields
  <1>5. n \in 0..(Len(b.history) - 1)
    <2>1. b.index \in Nat /\ b.index + 1 \in 1..Len(b.history) /\ Len(b.history) \in Nat
      BY ShownEntry DEF BarOK
    <2>. QED BY <2>1
  <1>6. HistoryOK(c) /\ search_active(c)
    BY <1>2, <1>4, <1>5 DEF BarOK, HistoryOK, search_active, NoIndex
  <1>. QED BY <1>1, <1>3, <1>4, <1>6, EntryOK

(* Selecting in the terminal of the search. *)
LEMMA SelectedOK ==
    ASSUME NEW b, BarOK(b), NEW sel
    PROVE  BarOK([b EXCEPT !.t.sel = sel])
  <1>1. PICK t : t = [b.t EXCEPT !.sel = sel] OBVIOUS
  <1>2. PICK c : c = [b EXCEPT !.t = t] OBVIOUS
  <1>3. /\ DOMAIN c = BarFields /\ c.t = t /\ c.rows = b.rows /\ c.pending = b.pending
        /\ c.index = b.index /\ c.history = b.history /\ c.before = b.before /\ c.delta = b.delta
        /\ c.origin = b.origin /\ c.focused = b.focused
    BY <1>2 DEF BarOK, BarPointsOK, BarFields
  <1>4. /\ t.vi = b.t.vi /\ t.cols = b.t.cols /\ t.lines = b.t.lines /\ t.mode = b.t.mode
        /\ t.grid = b.t.grid
    BY <1>1 DEF BarOK, BarPointsOK, ShownOK, TermOK, GeometryOK, TermFields
  <1>5. TermOK(t)
    <2>1. TermOK(b.t) BY DEF BarOK, BarPointsOK, ShownOK
    <2>2. View(b.t, t) BY <1>1, <2>1, SelectView
    <2>. QED BY <2>1, <2>2, ViewKeeps
  <1>6. ShownOK(t) BY <1>4, <1>5 DEF BarOK, BarPointsOK, ShownOK, ViOK
  <1>7. Searched(b, c) BY <1>3, <1>4, <1>6 DEF Searched, BarOK, BarPointsOK
  <1>8. BarOK(c) BY <1>3, <1>7, SearchedOK
  <1>. QED BY <1>1, <1>2, <1>8

(* Searching again. *)
LEMMA UpdatedOK ==
    ASSUME NEW b, BarOK(b), NEW r, ResultOK(b, r)
    PROVE  BarOK(update_search(b, r))
  BY UpdateSearched, SearchedOK DEF BarOK

(* Typing in the search bar, *)
LEMMA TypeSearchOK ==
    ASSUME BarOK(bar), TypeSearch
    PROVE  BarOK(bar')
  <1>0. search_active(bar) /\ HistoryOK(bar) /\ BarPointsOK(bar) BY DEF TypeSearch, BarOK
  <1>1. PICK result \in Results(bar, TRUE) :
          \/ \E r \in Typed(bar) : Len(r) <= MaxRegex /\ bar' = search_input(bar, r, result)
          \/ bar' = search_pop_word(bar, result)
          \/ bar' = search_history_previous(bar, result)
          \/ bar' = search_history_next(bar, result)
    BY DEF TypeSearch
  <1>2. ResultOK(bar, result) BY <1>0, <1>1, ResultsAre
  <1>3. /\ bar.index \in Nat /\ bar.index + 1 \in 1..Len(bar.history) /\ Len(bar.history) \in Nat
        /\ DOMAIN bar.history = 1..Len(bar.history) /\ Regex(bar) \in Seq(Chars)
    BY <1>0, ShownEntry
  <1>4. ASSUME NEW i \in 1..Len(bar.history), NEW r \in Seq(Chars), NEW n \in {0, bar.index},
               NEW c, c = [bar EXCEPT !.history = [bar.history EXCEPT ![i] = r], !.index = n]
        PROVE  BarOK(c) /\ c.t = bar.t
    <2>1. c.t = bar.t BY <1>4 DEF BarOK, BarPointsOK, BarFields
    <2>. QED BY <1>0, <1>4, <2>1, ChangedHistory
  <1>5. CASE \E r \in Typed(bar) : bar' = search_input(bar, r, result)
    <2>1. PICK r \in Typed(bar) : bar' = search_input(bar, r, result) BY <1>5
    <2>2. r \in Seq(Chars)
      <3>1. PICK x : x = Regex(bar) OBVIOUS
      <3>2. x \in Seq(Chars) /\ Len(x) \in Nat BY <1>3, <3>1
      <3>3. r \in {Append(x, c) : c \in Chars} \cup {SubSeq(x, 1, Len(x) - 1)} BY <2>1, <3>1 DEF Typed
      <3>4. CASE r = SubSeq(x, 1, Len(x) - 1) BY <3>2, <3>4
      <3>. QED BY <3>2, <3>3, <3>4
    <2>3. PICK e : e = EditRegex(bar, r) OBVIOUS
    <2>4. BarOK(e) /\ e.t = bar.t
      <3>1. PICK one \in Nat : one = 1 /\ one \in 1..Len(bar.history) BY <1>3
      <3>2. e = [bar EXCEPT !.history = [bar.history EXCEPT ![one] = r], !.index = 0]
        BY <2>3, <3>1 DEF EditRegex
      <3>. QED BY <1>4, <2>2, <3>1, <3>2
    <2>5. PICK f : f = IF Vi(bar) THEN e ELSE [e EXCEPT !.t.sel = NoSelection] OBVIOUS
    <2>6. BarOK(f) BY <2>4, <2>5, SelectedOK
    <2>7. ResultOK(f, result)
      <3>1. f.t.cols = bar.t.cols /\ f.t.lines = bar.t.lines /\ f.t.grid = bar.t.grid
        BY <2>4, <2>5 DEF BarOK, BarPointsOK, BarFields, ShownOK, TermOK, GeometryOK, TermFields
      <3>. QED BY <1>2, <3>1 DEF ResultOK
    <2>8. bar' = update_search(f, result) BY <2>1, <2>3, <2>5 DEF search_input
    <2>. QED BY <2>6, <2>7, <2>8, UpdatedOK
  <1>6. CASE bar' = search_pop_word(bar, result)
    <2>1. PICK empty \in Seq(Chars) : empty = <<>> BY EmptySeq
    <2>2. PICK i : i = bar.index + 1 OBVIOUS
    <2>3. PICK c : c = [bar EXCEPT !.history = [bar.history EXCEPT ![i] = empty], !.index = bar.index]
      OBVIOUS
    <2>4. BarOK(c) /\ c.t = bar.t BY <1>3, <1>4, <2>1, <2>2, <2>3
    <2>5. c = [bar EXCEPT !.history[bar.index + 1] = <<>>]
      BY <2>1, <2>2, <2>3 DEF BarOK, BarPointsOK
    <2>6. bar' = update_search(c, result) BY <1>6, <2>5 DEF search_pop_word
    <2>. QED BY <1>2, <2>4, <2>6, UpdatedOK DEF ResultOK
  <1>7. ASSUME NEW n \in 0..(Len(bar.history) - 1), bar' = update_search([bar EXCEPT !.index = n], result)
        PROVE  BarOK(bar')
    <2>1. PICK c : c = [bar EXCEPT !.index = n] OBVIOUS
    <2>2. /\ DOMAIN c = BarFields /\ c.t = bar.t /\ c.rows = bar.rows /\ c.pending = bar.pending
          /\ c.before = bar.before /\ c.delta = bar.delta /\ c.origin = bar.origin
          /\ c.focused = bar.focused /\ c.history = bar.history /\ c.index = n
      BY <2>1 DEF BarOK, BarPointsOK, BarFields
    <2>3. HistoryOK(c) /\ search_active(c)
      BY <1>0, <1>7, <2>2 DEF HistoryOK, search_active, NoIndex
    <2>4. BarOK(c) BY <1>0, <2>2, <2>3, EntryOK
    <2>. QED BY <1>2, <1>7, <2>1, <2>2, <2>4, UpdatedOK DEF ResultOK
  <1>8. CASE bar' = search_history_previous(bar, result)
    <2>1. CASE bar.index + 1 >= Len(bar.history) BY <1>8, <2>1 DEF search_history_previous
    <2>2. CASE ~(bar.index + 1 >= Len(bar.history))
      <3>1. bar.index + 1 \in 0..(Len(bar.history) - 1) BY <1>3, <2>2
      <3>2. bar' = update_search([bar EXCEPT !.index = bar.index + 1], result)
        BY <1>8, <2>2 DEF search_history_previous
      <3>. QED BY <1>7, <3>1, <3>2
    <2>. QED BY <2>1, <2>2
  <1>9. CASE bar' = search_history_next(bar, result)
    <2>1. CASE bar.index = 0 BY <1>9, <2>1 DEF search_history_next
    <2>2. CASE bar.index # 0
      <3>1. bar.index - 1 \in 0..(Len(bar.history) - 1) BY <1>3, <2>2
      <3>2. bar' = update_search([bar EXCEPT !.index = bar.index - 1], result)
        BY <1>9, <2>2 DEF search_history_next
      <3>. QED BY <1>7, <3>1, <3>2
    <2>. QED BY <2>1, <2>2
  <1>. QED BY <1>1, <1>5, <1>6, <1>8, <1>9

(* Around the grid, the next cell and the one before are in a column of it. *)
LEMMA AroundColumn ==
    ASSUME NEW t, GeometryOK(t), NEW p, ColumnIn(p, t.cols)
    PROVE  /\ ColumnIn(add(Dims(t), "None", p, 1), t.cols)
           /\ ColumnIn(sub(Dims(t), "None", p, 1), t.cols)
  <1>1. PICK d : d = Dims(t) OBVIOUS
  <1>2. PICK n \in Nat \ {0}, lines \in Nat \ {0}, hist \in Nat, line \in Int, col \in Nat :
          n = d.cols /\ n = t.cols /\ lines = d.lines /\ hist = d.hist /\ line = p.line /\ col = p.col
    BY <1>1 DEF GeometryOK, ScreenOK, Dims, ColumnIn
  <1>3. ASSUME NEW l \in Int, NEW c \in Int
        PROVE  ColumnIn(grid_clamp(d, "None", Point(l, c % n)), n)
    <2>1. c % n \in Nat /\ c % n <= n - 1 OBVIOUS
    <2>2. PICK total \in Nat \ {0} : total = total_lines(d) BY <1>2 DEF total_lines
    <2>3. (l - lines) % total \in Int /\ (lines - 1 - l) % total \in Int BY <2>2
    <2>4. line_clamp(d, "None", l) \in Int
      BY <1>2, <2>2, <2>3 DEF line_clamp, topmost_line, bottommost_line
    <2>5. grid_clamp(d, "None", Point(l, c % n)) = Point(line_clamp(d, "None", l), MinOf(c % n, n - 1))
      BY <1>2 DEF grid_clamp, last_column, Point
    <2>6. MinOf(c % n, n - 1) \in Nat /\ MinOf(c % n, n - 1) < n BY <2>1 DEF MinOf
    <2>. QED BY <2>4, <2>5, <2>6 DEF ColumnIn, Point
  <1>4. ColumnIn(add(d, "None", p, 1), n)
    <2>1. PICK l \in Int, c \in Int : l = line + ((1 + col) \div n) /\ c = col + 1 OBVIOUS
    <2>2. add(d, "None", p, 1) = grid_clamp(d, "None", Point(l, c % n)) BY <1>2, <2>1 DEF add
    <2>. QED BY <1>3, <2>2
  <1>5. ColumnIn(sub(d, "None", p, 1), n)
    <2>1. PICK k \in Nat, one \in Nat : k = SaturatingSub(1 + n - 1, col) /\ one = 1
      BY DEF SaturatingSub
    <2>2. PICK l \in Int, c \in Int : l = line - (k \div n) /\ c = n + col - (one % n)
      <3>1. k \div n \in Int /\ one % n \in 0..(n - 1) BY <2>1, ReadingOrder
      <3>2. line - (k \div n) \in Int /\ n + col - (one % n) \in Int BY <3>1
      <3>. QED BY <3>2
    <2>3. sub(d, "None", p, 1) = grid_clamp(d, "None", Point(l, c % n)) BY <1>2, <2>1, <2>2 DEF sub
    <2>. QED BY <1>3, <2>3
  <1>. QED BY <1>1, <1>2, <1>4, <1>5

(* The origin of a search is put to a point, and the view. *)
LEMMA OriginSearched ==
    ASSUME NEW b, BarPointsOK(b), NEW t, ShownOK(t), Viewed(b.t, t), NEW n \in Int,
           NEW p, ColumnIn(p, b.t.cols)
    PROVE  Searched(b, [b EXCEPT !.t = t, !.delta = n, !.origin = p])
  <1>1. PICK c : c = [b EXCEPT !.t = t, !.delta = n, !.origin = p] OBVIOUS
  <1>2. /\ DOMAIN c = BarFields /\ c.t = t /\ c.rows = b.rows /\ c.pending = b.pending
        /\ c.index = b.index /\ c.history = b.history /\ c.before = b.before /\ c.delta = n
        /\ c.origin = p /\ c.focused = b.focused
    BY <1>1 DEF BarPointsOK, BarFields
  <1>. QED BY <1>1, <1>2, MovedSearched DEF BarPointsOK

(* The next match. *)
LEMMA AdvanceSearched ==
    ASSUME NEW b, BarPointsOK(b), NEW direction, NEW r, ResultOK(b, r), r.found # "error"
    PROVE  Searched(b, advance_search_origin(b, direction, r))
  <1>1. PICK p : p = CHOOSE q \in b.focused : TRUE OBVIOUS
  <1>2. PICK q : q = IF direction = "Right" THEN add(Dims(b.t), "None", p, 1)
                     ELSE sub(Dims(b.t), "None", p, 1)
    OBVIOUS
  <1>3. PICK c : c = IF b.focused = None THEN b
                     ELSE [b EXCEPT !.t = scroll_to_point(b.t, q), !.delta = 0, !.origin = q]
    OBVIOUS
  <1>4. Searched(b, c)
    <2>1. CASE b.focused = None
      <3>1. Searched(b, b) BY StillSearched DEF BarPointsOK
      <3>. QED BY <1>3, <2>1, <3>1
    <2>2. CASE b.focused # None
      <3>1. ColumnIn(p, b.t.cols)
        <4>1. p \in b.focused BY <1>1, <2>2 DEF None
        <4>. QED BY <4>1 DEF BarPointsOK
      <3>2. GeometryOK(b.t) /\ ShownOK(b.t) BY DEF BarPointsOK, ShownOK, TermOK
      <3>3. ColumnIn(q, b.t.cols) BY <1>2, <3>1, <3>2, AroundColumn
      <3>4. PICK t : t = scroll_to_point(b.t, q) OBVIOUS
      <3>5. ShownOK(t) /\ Viewed(b.t, t) BY <3>2, <3>3, <3>4, ShownPoint DEF ColumnIn
      <3>6. PICK zero \in Int : zero = 0 OBVIOUS
      <3>7. c = [b EXCEPT !.t = t, !.delta = zero, !.origin = q] BY <1>3, <2>2, <3>4, <3>6
      <3>. QED BY <3>3, <3>5, <3>7, OriginSearched
    <2>. QED BY <2>1, <2>2
  <1>5. PICK g : g = goto_match(c, r) OBVIOUS
  <1>6. Searched(c, g)
    <2>1. BarPointsOK(c) /\ ResultOK(c, r) BY <1>4 DEF Searched, ResultOK
    <2>. QED BY <1>5, <2>1, GotoMatchLaw
  <1>7. PICK o : o = CHOOSE z \in g.focused : TRUE OBVIOUS
  <1>8. PICK there : there = scroll_to_point(g.t, o) OBVIOUS
  <1>9. PICK moved : moved = there.grid.offset - g.t.grid.offset OBVIOUS
  <1>10. PICK u : u = IF g.focused = None THEN g
                      ELSE [g EXCEPT !.delta = moved, !.origin = o,
                                     !.t = scroll_display(there, Delta(-moved))]
    OBVIOUS
  <1>11. Searched(g, u)
    <2>0. BarPointsOK(g) /\ ShownOK(g.t) BY <1>6 DEF Searched, BarPointsOK
    <2>1. CASE g.focused = None
      <3>1. Searched(g, g) BY <2>0, StillSearched DEF BarPointsOK
      <3>. QED BY <1>10, <2>1, <3>1
    <2>2. CASE g.focused # None
      <3>1. ColumnIn(o, g.t.cols)
        <4>1. o \in g.focused BY <1>7, <2>2 DEF None
        <4>. QED BY <2>0, <4>1 DEF BarPointsOK
      <3>2. ShownOK(there) /\ Viewed(g.t, there) BY <1>8, <2>0, <3>1, ShownPoint DEF ColumnIn
      <3>3. moved \in Int BY <1>9, <2>0, <3>2 DEF ShownOK, TermOK, GeometryOK, ScreenOK
      <3>4. PICK scroll : scroll = Delta(-moved) OBVIOUS
      <3>5. scroll.to = "Delta" /\ scroll.by \in Int BY <3>3, <3>4 DEF Delta
      <3>6. PICK t : t = scroll_display(there, scroll) OBVIOUS
      <3>7. ShownOK(t) /\ Viewed(there, t) BY <3>2, <3>5, <3>6, ShownDisplay
      <3>8. Viewed(g.t, t) BY <3>2, <3>7, ViewedTrans
      <3>9. u = [g EXCEPT !.t = t, !.delta = moved, !.origin = o] BY <1>10, <2>2, <3>4, <3>6
      <3>. QED BY <2>0, <3>1, <3>3, <3>7, <3>8, <3>9, OriginSearched
    <2>. QED BY <2>1, <2>2
  <1>12. Searched(b, u) BY <1>4, <1>6, <1>11, SearchedTrans
  <1>13. u = advance_search_origin(b, direction, r)
    <2>. DEFINE From(x) == IF direction = "Right" THEN add(Dims(b.t), "None", x, 1)
                           ELSE sub(Dims(b.t), "None", x, 1)
                OriginAt(x, y) == [x EXCEPT !.t = scroll_to_point(x.t, y), !.delta = 0, !.origin = y]
                Moved(x, y, z) ==
                    LET m == z.grid.offset - x.t.grid.offset
                    IN  [x EXCEPT !.delta = m, !.origin = y, !.t = scroll_display(z, Delta(-m))]
                NextOrigin(x, y) == Moved(x, y, scroll_to_point(x.t, y))
                Focused(x) == CHOOSE y \in x.focused : TRUE
                Onward(x) == IF x.focused = None THEN x ELSE NextOrigin(x, Focused(x))
    <2>1. advance_search_origin(b, direction, r)
            = Onward(goto_match(IF b.focused = None THEN b ELSE OriginAt(b, From(Focused(b))), r))
      BY Zenon DEF advance_search_origin
    <2>2. c = IF b.focused = None THEN b ELSE OriginAt(b, From(Focused(b))) BY <1>1, <1>2, <1>3
    <2>3. u = Onward(g) BY <1>7, <1>8, <1>9, <1>10
    <2>. HIDE DEF From, OriginAt, Moved, NextOrigin, Focused, Onward
    <2>. QED BY <1>5, <2>1, <2>2, <2>3
  <1>. QED BY <1>12, <1>13

(* Going to the next match keeps what holds of the bar. *)
LEMMA FocusMatchOK ==
    ASSUME BarOK(bar), FocusMatch
    PROVE  BarOK(bar')
  <1>1. PICK result \in Results(bar, FALSE), direction \in {"Left", "Right"} :
          bar' = [advance_search_origin(bar, direction, result) EXCEPT !.before = None]
    BY DEF FocusMatch
  <1>2. ResultOK(bar, result) /\ result.found # "error" BY <1>1, ResultsAre DEF BarOK
  <1>3. Searched(bar, advance_search_origin(bar, direction, result))
    BY <1>2, AdvanceSearched DEF BarOK
  <1>. QED BY <1>1, <1>3, ForgottenOK DEF BarOK

(* Opening the search bar: *)
LEMMA OpenSearchOK ==
    ASSUME BarOK(bar), OpenSearch
    PROVE  BarOK(bar')
  <1>. PICK b : b = bar OBVIOUS
  <1>. PICK c : c = bar' OBVIOUS
  <1>0. BarPointsOK(b) /\ HistoryOK(b) /\ RowsOK(b) /\ ShownOK(b.t) BY DEF BarOK, BarPointsOK
  <1>1. PICK direction : ~search_active(b) /\ c = start_search(b, direction) BY DEF OpenSearch
  <1>2. PICK h : h = IF b.history = <<>> \/ b.history[1] # <<>> THEN <<<<>>>> \o b.history ELSE b.history
    OBVIOUS
  <1>3. h \in Seq(Seq(Chars)) /\ Len(h) \in Nat /\ Len(h) >= 1
    <2>1. <<<<>>>> \in Seq(Seq(Chars)) /\ Len(<<<<>>>>) = 1 OBVIOUS
    <2>2. b.history \in Seq(Seq(Chars)) BY <1>0 DEF HistoryOK
    <2>3. Len(<<<<>>>> \o b.history) = 1 + Len(b.history) /\ Len(b.history) \in Nat
          /\ <<<<>>>> \o b.history \in Seq(Seq(Chars))
      BY <2>1, <2>2
    <2>4. CASE b.history = <<>> \/ b.history[1] # <<>> BY <1>2, <2>3, <2>4
    <2>5. CASE ~(b.history = <<>> \/ b.history[1] # <<>>)
      <3>1. Len(b.history) # 0 BY <2>2, <2>5
      <3>. QED BY <1>2, <2>2, <2>3, <2>5, <3>1
    <2>. QED BY <2>4, <2>5
  <1>4. PICK n : n = MinOf(Len(h), MAX_SEARCH_HISTORY_SIZE) OBVIOUS
  <1>5. n \in Nat /\ n >= 1 /\ n <= Len(h) /\ n <= MAX_SEARCH_HISTORY_SIZE
    BY <1>3, <1>4, SearchAssumption DEF MinOf
  <1>6. PICK i : i = SubSeq(h, 1, n) OBVIOUS
  <1>7. i \in Seq(Seq(Chars)) /\ Len(i) = n BY <1>3, <1>5, <1>6
  <1>8. PICK o : o = SearchOrigin(b, direction) OBVIOUS
  <1>9. PICK before : before = IF b.pending THEN None ELSE {b.t.vi.line - b.t.grid.cursor.line} OBVIOUS
  <1>10. PICK m : m = IF Vi(b) THEN 0 ELSE b.delta OBVIOUS
  <1>11. c = [b EXCEPT !.history = i, !.index = 0, !.focused = None, !.pending = TRUE,
                       !.origin = o, !.delta = m, !.before = before]
    BY <1>1, <1>2, <1>4, <1>6, <1>8, <1>9, <1>10, Zenon DEF start_search
  <1>12. /\ DOMAIN c = BarFields /\ c.t = b.t /\ c.rows = b.rows /\ c.pending = TRUE
         /\ c.index = 0 /\ c.history = i /\ c.before = before /\ c.delta = m
         /\ c.origin = o /\ c.focused = {}
    BY <1>0, <1>11 DEF BarPointsOK, BarFields, None
  <1>13. PICK cols \in Nat \ {0}, lines \in Nat \ {0}, offset \in Nat, cursor \in Int, line \in Int, col \in Nat :
           /\ cols = b.t.cols /\ lines = b.t.lines /\ offset = b.t.grid.offset
           /\ cursor = b.t.grid.cursor.line /\ line = b.t.vi.line /\ col = b.t.vi.col /\ col < cols
    <2>1. b.t.grid.cursor.line \in Int BY <1>0, CursorRange DEF ShownOK, TermOK
    <2>2. b.t.vi.line \in Int /\ b.t.vi.col \in Nat /\ b.t.vi.col < b.t.cols
      BY <1>0 DEF ShownOK, ViOK, PointIn
    <2>3. b.t.cols \in Nat \ {0} /\ b.t.lines \in Nat \ {0} /\ b.t.grid.offset \in Nat
      BY <1>0 DEF ShownOK, TermOK, GeometryOK, ScreenOK
    <2>. QED BY <2>1, <2>2, <2>3
  <1>14. ColumnIn(o, cols)
    BY <1>8, <1>13 DEF SearchOrigin, ColumnIn, Point
  <1>15. BarPointsOK(c) BY <1>0, <1>10, <1>12, <1>13, <1>14 DEF BarPointsOK
  <1>16. HistoryOK(c) BY <1>5, <1>7, <1>12 DEF HistoryOK
  <1>17. RowsOK(c) BY <1>0, <1>12 DEF RowsOK
  <1>18. OriginOK(c)
    <2>1. \A d \in before : d \in Int /\ d = line - cursor /\ ~b.pending BY <1>9, <1>13 DEF None
    <2>2. ~b.pending => b.t.lines = b.rows BY <1>0, <1>1 DEF RowsOK
    <2>3. Vi(b) => o.line = line - (IF cursor + 1 = lines THEN 1 ELSE 0)
      BY <1>8, <1>13 DEF SearchOrigin, Point
    <2>4. Vi(c) <=> Vi(b) BY <1>12 DEF Vi, Has
    <2>5. ASSUME Vi(c), NEW d \in before
          PROVE  o.line = cursor + d - (IF cursor + 1 = lines THEN 1 ELSE 0) /\ b.t.lines = b.rows
      BY <1>13, <2>1, <2>2, <2>3, <2>4, <2>5
    <2>. QED BY <1>12, <1>13, <2>1, <2>5 DEF OriginOK
  <1>. QED BY <1>15, <1>16, <1>17, <1>18 DEF BarOK

(* closing it, *)
LEMMA ExitOK ==
    ASSUME NEW b, BarOK(b)
    PROVE  BarOK(exit_search(b)) /\ exit_search(b).t = b.t /\ ~search_active(exit_search(b))
  <1>1. PICK c : c = exit_search(b) OBVIOUS
  <1>2. /\ DOMAIN c = BarFields /\ c.t = b.t /\ c.rows = b.rows /\ c.pending = TRUE
        /\ c.index = NoIndex /\ c.history = b.history /\ c.before = b.before /\ c.delta = b.delta
        /\ c.origin = b.origin /\ c.focused = {}
    BY <1>1 DEF BarOK, BarPointsOK, BarFields, exit_search, None
  <1>3. ~search_active(c) BY <1>2 DEF search_active
  <1>4. BarPointsOK(c) BY <1>2 DEF BarOK, BarPointsOK
  <1>5. HistoryOK(c) BY <1>2 DEF BarOK, HistoryOK
  <1>6. RowsOK(c) BY <1>2 DEF BarOK, RowsOK
  <1>7. OriginOK(c) BY <1>2, <1>3 DEF BarOK, OriginOK
  <1>. QED BY <1>1, <1>2, <1>3, <1>4, <1>5, <1>6, <1>7 DEF BarOK

(* without a match, where in vi mode the vi cursor returns to the origin, *)
LEMMA CancelOK ==
    ASSUME NEW b, BarOK(b)
    PROVE  LET c == cancel_search(b)
           IN  /\ BarOK(c) /\ ~search_active(c) /\ c.t.cols = b.t.cols
               /\ Vi(b) => c.t.vi.line = Clamp(b.origin.line, -c.t.grid.offset, b.t.lines - 1 - c.t.grid.offset)
                           /\ c.t.lines = b.t.lines /\ c.t.grid.offset \in Nat
  <1>1. PICK s : s = IF Vi(b) THEN search_reset_state(b)
                     ELSE [b EXCEPT !.t.sel = IF b.focused = None THEN b.t.sel
                              ELSE {update(Selection("Simple", p, "Left"), p, "Right") : p \in b.focused}]
    OBVIOUS
  <1>2. BarOK(s) /\ s.t.cols = b.t.cols
    <2>1. CASE Vi(b)
      <3>1. Searched(b, s) /\ s.origin = b.origin BY <1>1, <2>1, ResetSearched DEF BarOK
      <3>. QED BY <3>1, SearchedOK DEF Searched
    <2>2. CASE ~Vi(b)
      <3>1. PICK sel : s = [b EXCEPT !.t.sel = sel] BY <1>1, <2>2
      <3>2. s.t.cols = b.t.cols
        BY <3>1 DEF BarOK, BarPointsOK, BarFields, ShownOK, TermOK, GeometryOK, TermFields
      <3>. QED BY <3>1, <3>2, SelectedOK
    <2>. QED BY <2>1, <2>2
  <1>3. PICK u : u = [s EXCEPT !.dfas = FALSE] OBVIOUS
  <1>4. Searched(s, u) /\ u.origin = s.origin /\ u.t = s.t
    BY <1>2, <1>3, CompiledSearched DEF BarOK
  <1>5. BarOK(u) BY <1>2, <1>4, SearchedOK
  <1>6. PICK c : c = cancel_search(b) OBVIOUS
  <1>7. c = exit_search(u) BY <1>1, <1>3, <1>6 DEF cancel_search
  <1>8. BarOK(c) /\ c.t = s.t /\ ~search_active(c) BY <1>4, <1>5, <1>7, ExitOK
  <1>9. ASSUME Vi(b)
        PROVE  /\ c.t.vi.line = Clamp(b.origin.line, -c.t.grid.offset, b.t.lines - 1 - c.t.grid.offset)
               /\ c.t.lines = b.t.lines /\ c.t.grid.offset \in Nat
    <2>1. s = search_reset_state(b) BY <1>1, <1>9
    <2>2. /\ Searched(b, s)
          /\ s.t.vi.line = Clamp(b.origin.line, -s.t.grid.offset, b.t.lines - 1 - s.t.grid.offset)
      BY <1>9, <2>1, ResetSearched DEF BarOK
    <2>. QED BY <1>8, <2>2 DEF Searched, BarPointsOK, ShownOK, TermOK, GeometryOK, ScreenOK
  <1>. QED BY <1>2, <1>6, <1>8, <1>9

(* or at a match. *)
LEMMA CloseSearchOK ==
    ASSUME BarOK(bar), CloseSearch
    PROVE  BarOK(bar')
  <1>1. CASE bar' = cancel_search(bar) BY <1>1, CancelOK
  <1>2. CASE \E result \in Results(bar, FALSE) :
               bar' = [confirm_search(bar, result) EXCEPT !.before = None]
    <2>1. PICK result \in Results(bar, FALSE) : bar' = [confirm_search(bar, result) EXCEPT !.before = None]
      BY <1>2
    <2>2. ASSUME NEW c, BarOK(c) PROVE BarOK([c EXCEPT !.before = None])
      <3>1. Searched(c, c) BY <2>2, StillSearched DEF BarOK, BarPointsOK
      <3>. QED BY <2>2, <3>1, ForgottenOK DEF BarOK
    <2>3. PICK c : c = IF bar.timer THEN goto_match(bar, result) ELSE bar OBVIOUS
    <2>4. BarOK(c)
      <3>1. ResultOK(bar, result) /\ result.found # "error" BY <2>1, ResultsAre DEF BarOK
      <3>2. BarOK(goto_match(bar, result)) BY <3>1, GotoMatchLaw, SearchedOK DEF BarOK
      <3>. QED BY <2>3, <3>2
    <2>5. confirm_search(bar, result) = IF ~Vi(bar) THEN cancel_search(bar) ELSE exit_search(c)
      BY <2>3 DEF confirm_search
    <2>6. BarOK(confirm_search(bar, result)) BY <2>4, <2>5, CancelOK, ExitOK
    <2>. QED BY <2>1, <2>2, <2>6
  <1>. QED BY <1>1, <1>2 DEF CloseSearch

(* The search that was delayed. *)
LEMMA SearchTimerOK ==
    ASSUME BarOK(bar), SearchTimer
    PROVE  BarOK(bar')
  <1>0. BarPointsOK(bar) BY DEF BarOK
  <1>1. ASSUME NEW c, c = [bar EXCEPT !.timer = FALSE, !.late = TRUE] \/ c = [bar EXCEPT !.late = FALSE]
        PROVE  Searched(bar, c) /\ c.origin = bar.origin /\ c.t = bar.t
    <2>1. /\ DOMAIN c = BarFields /\ c.t = bar.t /\ c.rows = bar.rows /\ c.pending = bar.pending
          /\ c.index = bar.index /\ c.history = bar.history /\ c.before = bar.before /\ c.delta = bar.delta
          /\ c.origin = bar.origin /\ c.focused = bar.focused
      BY <1>0, <1>1 DEF BarPointsOK, BarFields
    <2>. QED BY <1>0, <2>1, StillSearched DEF BarPointsOK
  <1>2. CASE bar' = [bar EXCEPT !.timer = FALSE, !.late = TRUE] BY <1>1, <1>2, SearchedOK
  <1>3. CASE \E result \in Results(bar, FALSE) : bar' = goto_match([bar EXCEPT !.late = FALSE], result)
    <2>1. PICK result \in Results(bar, FALSE) : bar' = goto_match([bar EXCEPT !.late = FALSE], result)
      BY <1>3
    <2>2. PICK c : c = [bar EXCEPT !.late = FALSE] OBVIOUS
    <2>3. BarOK(c) /\ c.t = bar.t BY <1>1, <2>2, SearchedOK
    <2>4. ResultOK(c, result) /\ result.found # "error" BY <1>0, <2>1, <2>3, ResultsAre DEF ResultOK
    <2>. QED BY <2>1, <2>2, <2>3, <2>4, GotoMatchLaw, SearchedOK DEF BarOK
  <1>. QED BY <1>2, <1>3 DEF SearchTimer

(* Scrolling the view, which the search remembers, *)
LEMMA ScrollViewOK ==
    ASSUME NEW b, BarOK(b), NEW scroll, scroll.to = "Delta", scroll.by \in Int
    PROVE  BarOK(ScrollView(b, scroll))
  <1>1. PICK t : t = scroll_display(b.t, scroll) OBVIOUS
  <1>2. ShownOK(t) /\ Viewed(b.t, t) BY <1>1, ShownDisplay DEF BarOK, BarPointsOK
  <1>3. PICK n : n = IF search_active(b) THEN b.delta + b.t.grid.offset - t.grid.offset ELSE b.delta
    OBVIOUS
  <1>4. n \in Int
    <2>1. b.t.grid.offset \in Int /\ t.grid.offset \in Int
      BY <1>2 DEF BarOK, BarPointsOK, ShownOK, TermOK, GeometryOK, ScreenOK
    <2>. QED BY <1>3, <2>1 DEF BarOK, BarPointsOK
  <1>5. PICK c : c = ScrollView(b, scroll) OBVIOUS
  <1>6. c = [b EXCEPT !.t = t, !.delta = n] BY <1>1, <1>3, <1>5 DEF ScrollView
  <1>7. /\ DOMAIN c = BarFields /\ c.t = t /\ c.rows = b.rows /\ c.pending = b.pending
        /\ c.index = b.index /\ c.history = b.history /\ c.before = b.before /\ c.delta = n
        /\ c.origin = b.origin /\ c.focused = b.focused
    BY <1>6 DEF BarOK, BarPointsOK, BarFields
  <1>8. Searched(b, c) BY <1>2, <1>4, <1>7, MovedSearched DEF BarOK, BarPointsOK
  <1>. QED BY <1>5, <1>7, <1>8, SearchedOK

(* and entering and leaving vi mode, which ends it. *)
LEMMA ToggleViOK ==
    ASSUME NEW b, BarOK(b)
    PROVE  BarOK(ToggleVi(b))
  <1>1. PICK s : s = IF Vi(b) THEN [b EXCEPT !.dfas = FALSE] ELSE [b EXCEPT !.t.sel = NoSelection] OBVIOUS
  <1>2. BarOK(s) /\ s.index = b.index
    <2>1. CASE Vi(b)
      <3>1. Searched(b, s) /\ s.origin = b.origin BY <1>1, <2>1, CompiledSearched DEF BarOK
      <3>. QED BY <3>1, SearchedOK DEF Searched
    <2>2. CASE ~Vi(b)
      <3>1. s = [b EXCEPT !.t.sel = NoSelection] BY <1>1, <2>2
      <3>. QED BY <3>1, SelectedOK DEF BarOK, BarPointsOK, BarFields
    <2>. QED BY <2>1, <2>2
  <1>3. PICK c : c = IF search_active(b) THEN cancel_search(s) ELSE s OBVIOUS
  <1>4. BarOK(c) /\ ~search_active(c) BY <1>2, <1>3, CancelOK DEF search_active
  <1>5. ShownOK(c.t) BY <1>4 DEF BarOK, BarPointsOK
  <1>6. PICK t : t = toggle_vi_mode(c.t) OBVIOUS
  <1>7. /\ t.cols = c.t.cols /\ t.lines = c.t.lines /\ t.grid = c.t.grid /\ ViOK(t)
        /\ t.vi = c.t.vi \/ t.vi.line >= -t.grid.offset
    BY <1>5, <1>6, ToggleViLaw DEF ShownOK
  <1>8. TermOK(t)
    <2>1. PICK any : any = 0 OBVIOUS
    <2>. QED BY <1>5, <1>6, <2>1, SmallModesKeep DEF ShownOK, Keeps
  <1>9. ShownOK(t)
    <2>1. t.vi.line \in Int /\ t.grid.offset \in Int /\ t.grid.hist \in Int
      BY <1>7, <1>8 DEF ViOK, PointIn, TermOK, GeometryOK, ScreenOK
    <2>. QED BY <1>5, <1>7, <1>8, <2>1 DEF ShownOK
  <1>10. PICK d : d = [c EXCEPT !.t = t] OBVIOUS
  <1>11. /\ DOMAIN d = BarFields /\ d.t = t /\ d.rows = c.rows /\ d.pending = c.pending
         /\ d.index = c.index /\ d.history = c.history /\ d.before = c.before /\ d.delta = c.delta
         /\ d.origin = c.origin /\ d.focused = c.focused
    BY <1>4, <1>10 DEF BarOK, BarPointsOK, BarFields
  <1>12. BarPointsOK(d) BY <1>4, <1>7, <1>9, <1>11 DEF BarOK, BarPointsOK
  <1>13. HistoryOK(d) /\ RowsOK(d) BY <1>4, <1>7, <1>11 DEF BarOK, HistoryOK, RowsOK, search_active
  <1>14. OriginOK(d) BY <1>4, <1>11 DEF BarOK, OriginOK, search_active
  <1>15. d = ToggleVi(b) BY <1>1, <1>3, <1>6, <1>10 DEF ToggleVi
  <1>. QED BY <1>12, <1>13, <1>14, <1>15 DEF BarOK

(* What is done to the view during a search. *)
LEMMA SearchViewOK ==
    ASSUME BarOK(bar), SearchView
    PROVE  BarOK(bar')
  <1>1. CASE \E lines \in {-1, 1} : bar' = ScrollView(bar, Delta(lines))
    <2>1. PICK n \in Int : bar' = ScrollView(bar, Delta(n)) BY <1>1
    <2>2. PICK scroll : scroll = Delta(n) OBVIOUS
    <2>3. scroll.to = "Delta" /\ scroll.by \in Int BY <2>2 DEF Delta
    <2>. QED BY <2>1, <2>2, <2>3, ScrollViewOK
  <1>2. CASE bar' = ToggleVi(bar) BY <1>2, ToggleViOK
  <1>. QED BY <1>1, <1>2 DEF SearchView

(* The lines of a screen are changed: the view stays in the scrollback, and of a lower
   screen the cursor is not below it. *)
LEMMA LinesLaw ==
    ASSUME NEW cols \in Nat, NEW old \in Nat \ {0}, NEW lines \in Nat \ {0},
           NEW g, ScreenOK(g, cols, old), g.offset <= g.hist
    PROVE  LET h == resize_lines(g, old, lines)
           IN  /\ h.offset <= h.hist
               /\ lines < old => h.cursor.line = MinOf(g.cursor.line, lines - 1)
  <1>0. /\ g.hist \in Nat /\ g.limit \in Nat /\ g.hist <= g.limit /\ g.offset \in Nat
        /\ g.cursor.line \in 0..(old - 1) /\ DOMAIN g = ScreenFields
        /\ DOMAIN g.cursor = CursorFields /\ DOMAIN g.saved = CursorFields
    BY DEF ScreenOK, CursorOK
  <1>1. PICK h : h = resize_lines(g, old, lines) OBVIOUS
  <1>2. ASSUME NEW s, DOMAIN s = ScreenFields, NEW hist, NEW offset, NEW l, NEW m,
               h = [s EXCEPT !.hist = hist, !.offset = offset, !.cursor.line = l, !.saved.line = m]
        PROVE  h.hist = hist /\ h.offset = offset
    BY <1>2 DEF ScreenFields
  <1>3. CASE lines > old
    <2>1. PICK added \in Nat : added = lines - old BY <1>3
    <2>2. PICK taken \in Nat : taken = MinOf(g.hist, added) BY <1>0 DEF MinOf
    <2>3. PICK s : s = IF taken # added THEN scroll_up_grid(g, 0, lines, added - taken) ELSE g OBVIOUS
    <2>4. ScreenOK(s, cols, old)
      <3>1. PICK zero \in Int, n \in Nat : zero = 0 /\ n = added - taken
        <4>1. taken <= added BY <1>0, <2>2 DEF MinOf
        <4>2. added - taken \in Nat BY <4>1
        <4>. QED BY <4>2
      <3>2. ScreenOK(scroll_up_grid(g, zero, lines, n), cols, old) BY ScrollUpGrid
      <3>. QED BY <2>3, <3>1, <3>2
    <2>5. s.hist \in Nat /\ s.offset \in Nat /\ DOMAIN s = ScreenFields BY <2>4 DEF ScreenOK
    <2>6. PICK hist \in Nat : hist = SaturatingSub(s.hist, added) BY <2>5 DEF SaturatingSub
    <2>7. PICK offset \in Nat : offset = MinOf(SaturatingSub(s.offset, added), hist) /\ offset <= hist
      BY <2>5 DEF MinOf, SaturatingSub
    <2>8. h = [s EXCEPT !.hist = hist, !.offset = offset, !.cursor.line = g.cursor.line + taken,
                        !.saved.line = g.saved.line + taken]
      BY <1>1, <1>3, <2>1, <2>2, <2>3, <2>6, <2>7 DEF resize_lines
    <2>9. h.hist = hist /\ h.offset = offset BY <1>2, <2>5, <2>8
    <2>. QED BY <1>1, <1>3, <2>7, <2>9
  <1>4. CASE ~(lines > old)
    <2>1. PICK required \in Nat : required = SaturatingSub(g.cursor.line + 1, lines)
      BY <1>0 DEF SaturatingSub
    <2>2. PICK s : s = IF required > 0 THEN scroll_up_grid(g, 0, old, required) ELSE g OBVIOUS
    <2>3. /\ DOMAIN s = ScreenFields /\ s.offset <= s.hist /\ s.cursor = g.cursor /\ s.saved = g.saved
      <3>1. CASE required > 0
        <4>1. s = [g EXCEPT !.offset = scrolled_offset(g, required), !.hist = MinOf(g.hist + required, g.limit)]
          BY <2>2, <3>1 DEF scroll_up_grid
        <4>2. /\ DOMAIN s = ScreenFields /\ s.offset = scrolled_offset(g, required)
              /\ s.hist = MinOf(g.hist + required, g.limit) /\ s.cursor = g.cursor /\ s.saved = g.saved
          BY <1>0, <4>1 DEF ScreenFields
        <4>3. scrolled_offset(g, required) <= MinOf(g.hist + required, g.limit)
          BY <1>0 DEF scrolled_offset, MinOf
        <4>. QED BY <4>2, <4>3
      <3>2. CASE ~(required > 0) BY <1>0, <2>2, <3>2
      <3>. QED BY <3>1, <3>2
    <2>4. PICK l, m : l = MinOf(g.cursor.line, lines - 1) /\ m = MinOf(g.saved.line, lines - 1) OBVIOUS
    <2>5. h = [s EXCEPT !.cursor.line = l, !.saved.line = m]
      BY <1>1, <1>4, <2>1, <2>2, <2>4 DEF resize_lines
    <2>6. h.hist = s.hist /\ h.offset = s.offset /\ h.cursor.line = l
      BY <1>0, <2>3, <2>5 DEF ScreenFields, CursorFields
    <2>. QED BY <1>1, <1>4, <2>3, <2>4, <2>6
  <1>. QED BY <1>3, <1>4

(* The screen of a search gets other lines. *)
LEMMA ShownResized ==
    ASSUME NEW t, ShownOK(t), NEW lines \in Nat \ {0}, NEW s \in TermResize(t, t.cols, lines)
    PROVE  /\ ShownOK(s) /\ s.cols = t.cols /\ s.lines = lines /\ s.mode = t.mode
           /\ lines < t.lines => s.grid.cursor.line = MinOf(t.grid.cursor.line, lines - 1)
  <1>0. /\ TermOK(t) /\ ViColumn(t) /\ ScreenOK(t.grid, t.cols, t.lines) /\ ScreenOK(t.inactive, t.cols, t.lines)
        /\ t.grid.offset <= t.grid.hist
    BY DEF ShownOK, TermOK, GeometryOK, ViOK, ViColumn, PointIn
  <1>1. PICK cols \in Nat \ {0}, old \in Nat \ {0} : cols = t.cols /\ old = t.lines
    BY <1>0 DEF TermOK, GeometryOK
  <1>2. CASE lines = old
    <2>1. s = t BY <1>1, <1>2 DEF TermResize
    <2>. QED BY <1>1, <1>2, <2>1
  <1>3. CASE lines # old
    <2>1. PICK a, b : a = ~Has(t, "ALT_SCREEN") /\ b = Has(t, "ALT_SCREEN") OBVIOUS
    <2>2. PICK g \in resize_grid(t.grid, t, a, cols, lines), i \in resize_grid(t.inactive, t, b, cols, lines) :
            s = Resized(t, cols, lines, g, i)
      BY <1>1, <1>3, <2>1 DEF TermResize
    <2>3. ScreenOK(g, cols, lines) /\ ScreenOK(i, cols, lines)
      BY <1>0, <1>1, ResizeGridOK
    <2>4. g = resize_lines(t.grid, old, lines) BY <1>1, <1>3 DEF resize_grid
    <2>5. g.offset <= g.hist /\ (lines < old => g.cursor.line = MinOf(t.grid.cursor.line, lines - 1))
      BY <1>0, <1>1, <2>4, LinesLaw
    <2>6. /\ s.cols = cols /\ s.lines = lines /\ s.grid = g /\ s.mode = t.mode
          /\ ViOK(s) /\ s.vi.line >= -g.offset
      BY <1>0, <2>2, <2>3, ResizedLaw
    <2>7. TermOK(s) BY <1>0, <2>2, <2>3, ResizedOK
    <2>8. s.vi.line >= -g.hist
      <3>1. s.vi.line \in Int /\ g.offset \in Int /\ g.hist \in Int BY <2>3, <2>6 DEF ViOK, PointIn, ScreenOK
      <3>. QED BY <2>5, <2>6, <3>1
    <2>. QED BY <1>1, <2>5, <2>6, <2>7, <2>8 DEF ShownOK
  <1>. QED BY <1>2, <1>3

(* The bar takes its line, or gives it back. *)
LEMMA UpdateForBarOK ==
    ASSUME BarOK(bar), UpdateForBar
    PROVE  BarOK(bar')
  <1>. PICK b : b = bar OBVIOUS
  <1>. PICK c : c = bar' OBVIOUS
  <1>0. BarPointsOK(b) /\ HistoryOK(b) /\ RowsOK(b) /\ OriginOK(b) /\ ShownOK(b.t) BY DEF BarOK, BarPointsOK
  <1>1. PICK rows \in Nat \ {0} : rows = b.rows BY <1>0 DEF RowsOK
  <1>2. PICK n \in Nat \ {0} : n = IF search_active(b) THEN MaxOf(rows - 1, 1) ELSE rows
    BY DEF MaxOf
  <1>3. PICK t \in TermResize(b.t, b.t.cols, n) : c = [b EXCEPT !.t = t, !.pending = FALSE]
    BY <1>1, <1>2 DEF UpdateForBar
  <1>4. /\ ShownOK(t) /\ t.cols = b.t.cols /\ t.lines = n /\ t.mode = b.t.mode
        /\ n < b.t.lines => t.grid.cursor.line = MinOf(b.t.grid.cursor.line, n - 1)
    BY <1>0, <1>3, ShownResized
  <1>5. /\ DOMAIN c = BarFields /\ c.t = t /\ c.rows = b.rows /\ c.pending = FALSE
        /\ c.index = b.index /\ c.history = b.history /\ c.before = b.before /\ c.delta = b.delta
        /\ c.origin = b.origin /\ c.focused = b.focused
    BY <1>0, <1>3 DEF BarPointsOK, BarFields
  <1>6. BarPointsOK(c) BY <1>0, <1>4, <1>5 DEF BarPointsOK
  <1>7. HistoryOK(c) BY <1>0, <1>5 DEF HistoryOK
  <1>8. RowsOK(c)
    <2>1. ~search_active(c) => t.lines = rows BY <1>2, <1>4, <1>5 DEF search_active
    <2>2. rows = 1 => t.lines = 1 BY <1>2, <1>4 DEF MaxOf
    <2>. QED BY <1>1, <1>5, <2>1, <2>2 DEF RowsOK
  <1>9. OriginOK(c)
    <2>1. PICK cursor \in Int : cursor = b.t.grid.cursor.line /\ cursor <= b.t.lines - 1
      <3>1. b.t.grid.cursor.line \in 0..(b.t.lines - 1) /\ b.t.lines \in Nat
        BY <1>0, CursorRange DEF ShownOK, TermOK
      <3>. QED BY <3>1
    <2>2. ASSUME search_active(b), Vi(b), rows # 1, NEW d \in b.before
          PROVE  b.origin.line = t.grid.cursor.line + d
      <3>1. d \in Int /\ b.pending BY <1>0, <2>2 DEF OriginOK, UpdateForBar
      <3>2. /\ b.t.lines = rows
            /\ b.origin.line = cursor + d - (IF cursor + 1 = rows THEN 1 ELSE 0)
        BY <1>0, <1>1, <2>1, <2>2, <3>1 DEF OriginOK
      <3>3. n = rows - 1 BY <1>1, <1>2, <2>2 DEF MaxOf
      <3>4. t.grid.cursor.line = MinOf(cursor, rows - 2) BY <1>1, <1>4, <2>1, <3>2, <3>3
      <3>5. t.grid.cursor.line = cursor - (IF cursor + 1 = rows THEN 1 ELSE 0)
        BY <1>1, <2>1, <3>2, <3>4 DEF MinOf
      <3>. QED BY <2>1, <3>1, <3>2, <3>5
    <2>. QED BY <1>0, <1>1, <1>4, <1>5, <2>2 DEF OriginOK, search_active, Vi, Has
  <1>. QED BY <1>6, <1>7, <1>8, <1>9 DEF BarOK

(* Whatever the search bar does. *)
LEMMA SearchOK ==
    ASSUME BarOK(bar), Search
    PROVE  BarOK(bar')
  BY OpenSearchOK, TypeSearchOK, FocusMatchOK, CloseSearchOK, SearchTimerOK, SearchViewOK,
     UpdateForBarOK
  DEF Search, SearchNext

-----------------------------------------------------------------------------
(* The inductive invariant *)

(* The positions of the terminal and those of the search bar. *)
PosInv == TermInv /\ ViOK(term) /\ SelectionsOK(term) /\ BarOK(bar)

(* Nothing but the search changes the search bar. *)
LEMMA BarAlone ==
    ASSUME Next, ~Search
    PROVE  bar' = bar
  <1>1. CASE Input \/ Erase \/ Move \/ Tab BY <1>1, Zenon DEF Input, Erase, Move, Tab, Do
  <1>2. CASE Region \/ InsertMode \/ Frame \/ Modes
    BY <1>2, Zenon DEF Region, InsertMode, Frame, Modes, Do
  <1>3. CASE Stacks \/ Pen \/ Style BY <1>3, Zenon DEF Stacks, Pen, Style, Do
  <1>4. CASE Scroll \/ ViMode \/ Select \/ Screens \/ Resize
    BY <1>4, Zenon DEF Scroll, ViMode, Select, Screens, Resize, Do
  <1>. QED BY <1>1, <1>2, <1>3, <1>4 DEF Next

(* At the start. *)
LEMMA InitPositions ==
    ASSUME Init
    PROVE  PosInv
  <1>1. TermInv BY InitInv
  <1>2. PICK row \in Int : /\ SearchInit(goto(term, row, 0))
                          /\ \E cols, lines, config, cell : term = NewTerm(cols, lines, config, cell)
    <2>1. PICK size : size = Size[group] OBVIOUS
    <2>2. PICK col : /\ term = NewTerm(size[1], size[2],
                                  Config(group = "stacks", IF group \in DOMAIN NewSizes \cup {"search"} THEN History ELSE 0),
                                  Point(col % size[2], col))
                     /\ SearchInit(goto(term, IF group = "tall_search" THEN size[2] - 1 ELSE 0, 0))
      BY <2>1 DEF Init
    <2>3. size[2] \in Nat BY <2>1, SizeAssumption DEF Init, SizeOK
    <2>4. PICK row \in Int : row = IF group = "tall_search" THEN size[2] - 1 ELSE 0 BY <2>3
    <2>. QED BY <2>2, <2>4
  <1>3. /\ TermOK(term) /\ GeometryOK(term) /\ Shaped(term) BY <1>1, FollowsSame DEF TermInv, TermOK
  <1>4. PICK config : /\ term.vi = Point(0, 0) /\ term.sel = {} /\ term.grid = Screen(config.history)
                      /\ term.config = config
    BY <1>2 DEF NewTerm, NoSelection
  <1>5. ViOK(term) BY <1>3, <1>4 DEF ViOK, PointIn, Point, GeometryOK
  <1>6. SelectionsOK(term) BY <1>4 DEF SelectionsOK
  <1>7. PICK g : g = goto(term, row, 0) OBVIOUS
  <1>8. /\ TermOK(g) /\ g.cols = term.cols /\ g.lines = term.lines /\ g.config = config
        /\ g.grid.limit = term.grid.limit /\ g.grid.offset = term.grid.offset /\ g.vi = term.vi
    <2>1. PICK zero \in Nat : zero = 0 OBVIOUS
    <2>2. Jump(term, g) /\ GeometryOK(g) BY <1>3, <1>7, <2>1, GotoJump
    <2>3. Keeps(term, g) BY <1>3, <2>2, JumpKeeps
    <2>4. Held(term, g) BY <1>3, <1>7, MovesHeld
    <2>. QED BY <1>4, <2>2, <2>3, <2>4 DEF Keeps, Jump, SameElsewhere, Held
  <1>9. PICK hist : hist = g.config.history OBVIOUS
  <1>10. hist \in Nat /\ g.grid.limit = hist /\ g.grid.offset = 0
    BY <1>4, <1>8, <1>9 DEF Screen, TermOK, ModesOK, StacksOK
  <1>11. PICK t : t = [g EXCEPT !.grid.hist = hist] OBVIOUS
  <1>12. PICK grid : grid = [g.grid EXCEPT !.hist = hist] OBVIOUS
  <1>13. /\ DOMAIN t = TermFields /\ t.cols = g.cols /\ t.lines = g.lines /\ t.grid = grid
         /\ t.inactive = g.inactive /\ t.mode = g.mode /\ t.region = g.region /\ t.tabs = g.tabs
         /\ t.keyboard = g.keyboard /\ t.inactive_keyboard = g.inactive_keyboard
         /\ t.titles = g.titles /\ t.title = g.title /\ t.vi = g.vi /\ t.style = g.style
         /\ t.damage = g.damage /\ t.config = g.config /\ t.cell = g.cell
    BY <1>8, <1>11, <1>12 DEF TermOK, GeometryOK, TermFields
  <1>14. /\ DOMAIN grid = ScreenFields /\ grid.hist = hist /\ grid.limit = hist /\ grid.offset = 0
         /\ grid.cursor = g.grid.cursor /\ grid.saved = g.grid.saved
    BY <1>8, <1>10, <1>12 DEF TermOK, GeometryOK, ScreenOK, ScreenFields
  <1>15. TermOK(t)
    <2>1. ScreenOK(grid, t.cols, t.lines)
      BY <1>8, <1>10, <1>13, <1>14 DEF TermOK, GeometryOK, ScreenOK
    <2>2. GeometryOK(t) BY <1>8, <1>13, <2>1 DEF TermOK, GeometryOK
    <2>3. ModesOK(t) BY <1>8, <1>13 DEF TermOK, ModesOK, StacksOK, TitlesOK
    <2>. QED BY <2>2, <2>3 DEF TermOK
  <1>16. ShownOK(t)
    <2>1. t.vi = Point(0, 0) /\ t.grid.hist = hist /\ t.grid.offset = 0
      BY <1>4, <1>8, <1>13, <1>14
    <2>2. t.vi.line >= -t.grid.hist BY <1>10, <2>1 DEF Point
    <2>. QED BY <1>5, <1>8, <1>10, <1>13, <1>15, <2>1, <2>2 DEF ShownOK, ViOK
  <1>17. bar = NewBar(t) BY <1>2, <1>7, <1>9, <1>11 DEF SearchInit
  <1>18. /\ DOMAIN bar = BarFields /\ bar.t = t /\ bar.rows = t.lines /\ bar.index = NoIndex
         /\ bar.history = <<>> /\ bar.delta = 0 /\ bar.origin = Point(0, 0) /\ bar.focused = {}
         /\ bar.pending = FALSE /\ bar.before = {}
    BY <1>17 DEF NewBar, BarFields, None
  <1>19. BarPointsOK(bar)
    BY <1>15, <1>16, <1>18 DEF BarPointsOK, ColumnIn, Point, TermOK, GeometryOK
  <1>20. HistoryOK(bar)
    <2>1. <<>> \in Seq(Seq(Chars)) /\ Len(<<>>) = 0 BY EmptySeq
    <2>. QED BY <1>18, <2>1, SearchAssumption DEF HistoryOK
  <1>21. RowsOK(bar) BY <1>15, <1>18 DEF RowsOK, TermOK, GeometryOK
  <1>22. OriginOK(bar) BY <1>18 DEF OriginOK
  <1>. QED BY <1>1, <1>5, <1>6, <1>19, <1>20, <1>21, <1>22 DEF PosInv, BarOK

(* At every step. *)
LEMMA NextPositions ==
    ASSUME PosInv, [Next]_vars
    PROVE  PosInv'
  <1>1. TermInv /\ TermInv' BY NextInv DEF PosInv
  <1>2. CASE UNCHANGED vars BY <1>1, <1>2 DEF vars, PosInv, ViOK, SelectionsOK
  <1>3. CASE Next
    <2>1. BarOK(bar')
      <3>1. CASE Search BY <3>1, SearchOK DEF PosInv
      <3>2. CASE ~Search BY <1>3, <3>2, BarAlone DEF PosInv
      <3>. QED BY <3>1, <3>2
    <2>2. ViOK(term') /\ SelectionsOK(term')
      <3>1. CASE Search
        <4>1. term' = term BY <3>1 DEF Search
        <4>. QED BY <4>1 DEF PosInv
      <3>2. CASE Stays(term, term') BY <3>2 DEF Stays, PosInv
      <3>. QED BY <1>1, <3>1, <3>2, PositionsStay
    <2>. QED BY <1>1, <2>1, <2>2 DEF PosInv
  <1>. QED BY <1>2, <1>3

(* The selections, the vi cursor and what the search bar remembers stay in the grid and in
   the history of searches (Selection::rotate, Term::resize, start_search, update_search). *)
THEOREM PositionsInductive == Spec => []PosInv
  BY InitPositions, NextPositions, PTL DEF Spec

(* What is kept outside of the grid but indexes it, or a list, stays valid while the
   screen, the view and the search bar change under it, on a screen of any size and with a
   scrollback and a history of searches of any length (PositionsInGrid). *)
THEOREM PositionsStayInGrid == Spec => []PositionsInGrid
  <1>1. ASSUME PosInv PROVE PositionsInGrid
    <2>1. SelectionOnGrid BY <1>1 DEF PosInv, SelectionsOK, SelectionOK, PointIn, SelectionOnGrid
    <2>2. SearchCursorInGrid
      <3>1. BarPointsOK(bar) BY <1>1 DEF PosInv, BarOK
      <3>. QED BY <3>1, ViInGridIs DEF BarPointsOK, ShownOK, TermOK, SearchCursorInGrid
    <2>3. HistoryIndexValid
      <3>1. HistoryOK(bar) BY <1>1 DEF PosInv, BarOK
      <3>2. Len(bar.history) \in Nat BY <3>1 DEF HistoryOK
      <3>. QED BY <3>1, <3>2 DEF HistoryOK, HistoryIndexValid, search_active
    <2>. QED BY <2>1, <2>2, <2>3 DEF PositionsInGrid
  <1>. QED BY <1>1, PositionsInductive, PTL

(* The vi cursor at every step. *)
LEMMA StepKeepsVi ==
    ASSUME PosInv, PosInv', [Next]_vars, ViInGrid, term'.grid.offset <= term'.grid.hist
    PROVE  \/ ViInGrid'
           \/ Has(term, "ALT_SCREEN") # Has(term', "ALT_SCREEN")
           \/ term'.grid.limit < term.grid.limit
  <1>1. GeometryOK(term) /\ GeometryOK(term') /\ ViOK(term) /\ ViOK(term') /\ TermInv /\ TermInv'
    BY DEF PosInv, TermInv, TermOK
  <1>2. term.vi.line >= -term.grid.hist BY <1>1, ViInGridIs DEF ViInGrid
  <1>3. CASE Search
    <2>1. term' = term BY <1>3 DEF Search
    <2>. QED BY <2>1 DEF ViInGrid
  <1>4. CASE Stays(term, term')
    <2>1. \/ term'.vi.line >= -term'.grid.hist
          \/ Has(term, "ALT_SCREEN") # Has(term', "ALT_SCREEN")
          \/ term'.grid.limit < term.grid.limit
      BY <1>1, <1>2, <1>4 DEF Stays
    <2>2. CASE term'.vi.line >= -term'.grid.hist
      <3>1. term'.vi \in GridPoints(Dims(term')) BY <1>1, <2>2, ViInGridIs
      <3>. QED BY <3>1 DEF ViInGrid
    <2>. QED BY <2>1, <2>2
  <1>. QED BY <1>1, <1>3, <1>4, PositionsStay

(* Giving up a search. *)
LEMMA CancelReturns ==
    ASSUME BarOK(bar), search_active(bar), Vi(bar), ~bar.pending, bar' = cancel_search(bar),
           NEW distance \in bar.before
    PROVE  bar'.t.vi.line =
             MaxOf(-bar'.t.grid.offset,
                   MinOf(bar'.t.lines - 1 - bar'.t.grid.offset, bar.t.grid.cursor.line + distance))
  <1>. PICK b : b = bar OBVIOUS
  <1>. PICK c : c = cancel_search(b) /\ c = bar' OBVIOUS
  <1>1. /\ c.t.vi.line = Clamp(b.origin.line, -c.t.grid.offset, b.t.lines - 1 - c.t.grid.offset)
        /\ c.t.lines = b.t.lines /\ c.t.grid.offset \in Nat
    BY CancelOK
  <1>2. PICK offset \in Nat, lines \in Nat \ {0}, origin \in Int, cursor \in Int, d \in Int :
          /\ offset = c.t.grid.offset /\ lines = b.t.lines /\ origin = b.origin.line
          /\ cursor = b.t.grid.cursor.line /\ d = distance
    <2>1. b.t.grid.cursor.line \in Int /\ b.t.lines \in Nat \ {0}
      BY CursorRange DEF BarOK, BarPointsOK, ShownOK, TermOK
    <2>2. b.origin.line \in Int BY DEF BarOK, BarPointsOK, ColumnIn
    <2>3. distance \in Int BY DEF BarOK, OriginOK
    <2>. QED BY <1>1, <2>1, <2>2, <2>3
  <1>3. b.rows = 1 \/ origin = cursor + d BY <1>2 DEF BarOK, OriginOK
  <1>4. b.rows = 1 => lines = 1 BY <1>2 DEF BarOK, RowsOK
  <1>5. Clamp(origin, -offset, lines - 1 - offset) = MaxOf(-offset, MinOf(lines - 1 - offset, cursor + d))
    BY <1>3, <1>4 DEF Clamp, MinOf, MaxOf
  <1>. QED BY <1>1, <1>2, <1>5

(* The vi cursor stays on the text it was put on: in the grid at every step, and back
   where it was, as far as the view goes, when a search is given up (ViCursorRestored). *)
THEOREM ViCursorStays == Spec => ViCursorRestored
  <1>1. ASSUME PosInv, PosInv', [Next]_vars
        PROVE  [(ViInGrid /\ term'.grid.offset <= term'.grid.hist) =>
                  \/ ViInGrid'
                  \/ Has(term, "ALT_SCREEN") # Has(term', "ALT_SCREEN")
                  \/ term'.grid.limit < term.grid.limit]_vars
    BY <1>1, StepKeepsVi
  <1>2. ASSUME PosInv, PosInv', [Next]_vars
        PROVE  [(search_active(bar) /\ ~search_active(bar') /\ Vi(bar) /\ ~bar.pending
                   /\ bar' = cancel_search(bar)) =>
                  \A distance \in bar.before :
                     bar'.t.vi.line =
                         MaxOf(-bar'.t.grid.offset,
                               MinOf(bar'.t.lines - 1 - bar'.t.grid.offset, bar.t.grid.cursor.line + distance))]_bar
    BY <1>2, CancelReturns DEF PosInv
  <1>3. Spec => ViCursorKept BY <1>1, PositionsInductive, PTL DEF Spec, ViCursorKept
  <1>4. Spec => CancelRestores BY <1>2, PositionsInductive, PTL DEF Spec, CancelRestores
  <1>. QED BY <1>3, <1>4, PTL DEF ViCursorRestored

=============================================================================
