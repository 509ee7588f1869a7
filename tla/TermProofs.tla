----------------------------- MODULE TermProofs ------------------------------
(***************************************************************************)
(* The terminal is consistent and shows what is written, for screens of    *)
(* every size, scrollbacks of every length, any distance of tab stops and  *)
(* any depth of the stack of titles.                                       *)
(*                                                                         *)
(* An operation is a function from terminals to terminals, so the proof    *)
(* goes by operations: Keeps(t, s) is what every one of them keeps of t in *)
(* its result s, whatever its arguments are, and composes. Most operations *)
(* are of one of a few kinds, each with its law: those on the line of the  *)
(* cursor that leave a trace in the damage (Traced), those that redraw the *)
(* screen (MarkLaw), those that leave screens and damage alone (Modal,     *)
(* Aside, View). TermInv is the inductive invariant; the theorems follow   *)
(* from it.                                                                *)
(***************************************************************************)
EXTENDS MCTerm, SequenceLaws, FiniteSetTheorems

(* The parts of the records a terminal consists of. *)
TermFields ==
    {"cols", "lines", "grid", "inactive", "mode", "region", "tabs", "keyboard", "inactive_keyboard",
     "titles", "title", "vi", "sel", "style", "colors", "charset", "damage", "config",
     "display_auto", "panicked", "cell", "since"}
(* Those of a screen, its grid, *)
ScreenFields == {"hist", "limit", "offset", "auto", "cursor", "saved"}
(* and of a cursor. *)
CursorFields == {"line", "col", "wrap", "template"}

(* S contains at most one element of T. *)
AtMostOneOf(S, T) == \A a, b \in S \cap T : a = b

(* A cursor is on the screen, with at most one underline. *)
CursorOK(c, cols, lines) ==
    /\ DOMAIN c = CursorFields
    /\ c.line \in 0..(lines - 1) /\ c.col \in 0..(cols - 1)
    /\ AtMostOneOf(c.template, ALL_UNDERLINES)

(* Both cursors of a screen are on it, and its scrollback is within its limit. *)
ScreenOK(g, cols, lines) ==
    /\ DOMAIN g = ScreenFields
    /\ g.limit \in Nat /\ g.hist \in 0..g.limit /\ g.offset \in Nat
    /\ CursorOK(g.cursor, cols, lines) /\ CursorOK(g.saved, cols, lines)

(* A point is on the screen. *)
PointOK(p, cols, lines) ==
    DOMAIN p = {"line", "col"} /\ p.line \in 0..(lines - 1) /\ p.col \in 0..(cols - 1)

(* There is damage for every line of the screen, and the last cursor is on it. *)
DamageOK(d, cols, lines) ==
    /\ DOMAIN d = {"full", "lines", "last"}
    /\ PointOK(d.last, cols, lines)
    /\ DOMAIN d.lines = 0..(lines - 1)
    /\ \A l \in 0..(lines - 1) :
          /\ DOMAIN d.lines[l] = {"left", "right"}
          /\ d.lines[l].left \in Int /\ d.lines[l].right \in Int

(* The scrolling region is on the screen. *)
RegionOK(r, lines) ==
    /\ DOMAIN r = {"start", "end"} /\ r.start \in Nat /\ r.end \in Nat
    /\ r.start <= r.end /\ r.end <= lines

(* Everything the terminal indexes its screens with is on them. *)
GeometryOK(t) ==
    /\ DOMAIN t = TermFields
    /\ t.cols \in Nat \ {0} /\ t.lines \in Nat \ {0}
    /\ ScreenOK(t.grid, t.cols, t.lines) /\ ScreenOK(t.inactive, t.cols, t.lines)
    /\ DamageOK(t.damage, t.cols, t.lines)
    /\ RegionOK(t.region, t.lines)
    /\ t.tabs \subseteq 0..(t.cols - 1)
    /\ PointOK(t.cell, t.cols, t.lines)

(* At most one mouse protocol and one mouse encoding are active. *)
MouseModesOK(mode) == AtMostOneOf(mode, MOUSE_MODE) /\ AtMostOneOf(mode, {"SGR_MOUSE", "UTF8_MOUSE"})

(* The keyboard modes are modes of the kitty protocol, and there are none when it is
   disabled. *)
StacksOK(t) ==
    /\ t.keyboard \in Seq(SUBSET KITTY_KEYBOARD_PROTOCOL)
    /\ t.inactive_keyboard \in Seq(SUBSET KITTY_KEYBOARD_PROTOCOL)
    /\ DOMAIN t.config = {"kitty", "history"} /\ t.config.kitty \in BOOLEAN /\ t.config.history \in Nat
    /\ ~t.config.kitty => /\ t.mode \cap KITTY_KEYBOARD_PROTOCOL = {}
                          /\ t.keyboard = <<>> /\ t.inactive_keyboard = <<>>

(* The titles, and how many are kept. *)
TitlesOK(t) ==
    t.titles \in Seq(Titles) /\ Len(t.titles) <= TITLE_STACK_MAX_DEPTH /\ t.title \in Titles

(* The cursor style a program has set. *)
StyleOK(style) == \A s \in style : DOMAIN s = {"shape", "blinking"}

(* The modes are consistent. *)
ModesOK(t) == MouseModesOK(t.mode) /\ StacksOK(t) /\ TitlesOK(t) /\ StyleOK(t.style)

(* What holds of the terminal whatever is drawn. *)
TermOK(t) == GeometryOK(t) /\ ModesOK(t)

-----------------------------------------------------------------------------
(* What is damaged *)

(* If the watched cell is on the bottom line, that line scrolls. *)
LineScrolls(t) == t.cell.line = t.lines - 1 => t.region.end = t.lines

(* s has the size and the watched cell of t, on a line that scrolls if it did in t. *)
SameScreen(t, s) ==
    /\ s.cols = t.cols /\ s.lines = t.lines /\ s.cell = t.cell
    /\ LineScrolls(t) => LineScrolls(s)

(* The frame will be drawn whole. *)
Redrawn(t) == t.damage.full \/ "INSERT" \in t.mode

(* What is written from the cursor on will be to the right of damage on its line. *)
Anchored(t) ==
    LET c == t.grid.cursor
        d == t.damage
    IN  \/ d.lines[c.line].left <= c.col
        \/ d.last.line = c.line /\ d.last.col <= c.col

(* The watched cell is between two that are damaged or will be. *)
Enclosed(t) ==
    LET c == t.grid.cursor
        d == t.damage
        p == t.cell
    IN  /\ \/ d.lines[p.line].left <= p.col
           \/ d.last.line = p.line /\ d.last.col <= p.col
        /\ \/ p.col <= d.lines[p.line].right
           \/ d.last.line = p.line /\ p.col <= d.last.col
           \/ c.line = p.line /\ p.col <= c.col

(* The frame will show what is written: it is drawn whole, or what is written is
   between damaged cells, and what will be written on the line of the watched cell is
   to the right of one. Only on that line does it matter where the cursor is. *)
Shown(t) ==
    \/ Redrawn(t)
    \/ /\ t.grid.cursor.line = t.cell.line => Anchored(t)
       /\ t.since = "written" => Enclosed(t)

(* What every operation on the terminal keeps. *)
Keeps(t, s) ==
    /\ TermOK(s) /\ SameScreen(t, s)
    /\ t.damage.full => s.damage.full
    /\ LineScrolls(t) /\ Shown(t) => Shown(s)

(* A step that changes nothing keeps everything. *)
LEMMA KeepsSame ==
    ASSUME NEW t, TermOK(t)
    PROVE  Keeps(t, t)
  BY DEF Keeps, SameScreen

(* Two operations one after the other. *)
LEMMA KeepsTrans ==
    ASSUME NEW t, NEW s, NEW u, Keeps(t, s), Keeps(s, u)
    PROVE  Keeps(t, u)
  BY DEF Keeps, SameScreen

-----------------------------------------------------------------------------
(* The cursor *)

(* s is t, but for its cursor, its damage and what is known of the watched cell. *)
SameElsewhere(t, s) ==
    /\ DOMAIN s = TermFields
    /\ s.cols = t.cols /\ s.lines = t.lines /\ s.inactive = t.inactive /\ s.region = t.region
    /\ s.tabs = t.tabs /\ s.cell = t.cell /\ s.mode = t.mode /\ s.config = t.config
    /\ s.keyboard = t.keyboard /\ s.inactive_keyboard = t.inactive_keyboard
    /\ s.titles = t.titles /\ s.title = t.title /\ s.style = t.style
    /\ DOMAIN s.grid = ScreenFields
    /\ s.grid.hist = t.grid.hist /\ s.grid.limit = t.grid.limit /\ s.grid.offset = t.grid.offset
    /\ s.grid.auto = t.grid.auto /\ s.grid.saved = t.grid.saved

(* The damage e includes the damage d. *)
Wider(d, e, lines) ==
    /\ e.last = d.last /\ (d.full => e.full)
    /\ \A l \in 0..(lines - 1) :
          e.lines[l].left <= d.lines[l].left /\ d.lines[l].right <= e.lines[l].right

(* The damage d includes these columns of a line. *)
Includes(d, line, left, right) == d.lines[line].left <= left /\ right <= d.lines[line].right

(* The cursor moves to the right of its line, or from a damaged cell to a damaged
   one, and what is written is damaged or passed by the cursor. *)
Rightward(t, s) ==
    t.grid.cursor.line = s.grid.cursor.line /\ t.grid.cursor.col <= s.grid.cursor.col

(* It includes a cell. *)
DamagedAt(d, p) == Includes(d, p.line, p.col, p.col)

(* The cursor passes the watched cell. *)
Passed(t, s) ==
    /\ Rightward(t, s) /\ t.cell.line = t.grid.cursor.line
    /\ t.grid.cursor.col <= t.cell.col /\ t.cell.col <= s.grid.cursor.col

(* An operation on the line of the cursor that leaves a trace: what it writes is
   damaged, or passed by the cursor, or drawn with the whole frame in insert mode. *)
Traced(t, s) ==
    /\ SameElsewhere(t, s)
    /\ CursorOK(s.grid.cursor, t.cols, t.lines) /\ DamageOK(s.damage, t.cols, t.lines)
    /\ Wider(t.damage, s.damage, t.lines)
    /\ Rightward(t, s) \/ (DamagedAt(s.damage, t.grid.cursor) /\ DamagedAt(s.damage, s.grid.cursor))
    /\ (s.since = "written") =>
         t.since = "written" \/ DamagedAt(s.damage, t.cell) \/ Passed(t, s) \/ "INSERT" \in t.mode

(* Such an operation keeps what holds of the terminal, *)
LEMMA TracedOK ==
    ASSUME NEW t, TermOK(t), NEW s, Traced(t, s)
    PROVE  TermOK(s)
  <1>1. GeometryOK(s) BY DEF TermOK, GeometryOK, Traced, SameElsewhere, ScreenOK
  <1>2. ModesOK(s) BY DEF TermOK, ModesOK, Traced, SameElsewhere, StacksOK, TitlesOK
  <1>. QED BY <1>1, <1>2 DEF TermOK

(* and shows what is written. Where the cursor leaves a cell that is not damaged it
   goes right, so what was enclosed stays so. *)
LEMMA TracedKeeps ==
    ASSUME NEW t, TermOK(t), NEW s, Traced(t, s)
    PROVE  Keeps(t, s)
  <1>1. TermOK(s) BY TracedOK
  <1>2. t.damage.full => s.damage.full BY DEF Traced, Wider
  <1>3. SameScreen(t, s) BY DEF Traced, SameElsewhere, LineScrolls, SameScreen
  <1>4. ASSUME Shown(t) PROVE Shown(s)
    <2>1. CASE Redrawn(t) BY <1>2, <2>1 DEF Shown, Redrawn, Traced, SameElsewhere
    <2>2. CASE ~Redrawn(t)
      <3>1. PICK a \in Int, b \in Int, l \in 0..(t.lines - 1), m \in 0..(t.lines - 1) :
              a = t.grid.cursor.col /\ b = s.grid.cursor.col /\ l = t.grid.cursor.line /\ m = s.grid.cursor.line
        BY DEF TermOK, GeometryOK, ScreenOK, CursorOK, Traced
      <3>2. PICK k \in 0..(t.lines - 1), p \in Int, n \in 0..(t.lines - 1), q \in Int :
              /\ k = t.cell.line /\ p = t.cell.col /\ n = t.damage.last.line /\ q = t.damage.last.col
        BY DEF TermOK, GeometryOK, PointOK, DamageOK
      <3>3. /\ s.damage.last = t.damage.last /\ s.cell = t.cell
            /\ \A i \in 0..(t.lines - 1) :
                 /\ s.damage.lines[i].left \in Int /\ s.damage.lines[i].right \in Int
                 /\ t.damage.lines[i].left \in Int /\ t.damage.lines[i].right \in Int
                 /\ s.damage.lines[i].left <= t.damage.lines[i].left
                 /\ t.damage.lines[i].right <= s.damage.lines[i].right
        BY DEF TermOK, GeometryOK, Traced, Wider, DamageOK, SameElsewhere
      <3>4. (l = k => Anchored(t)) /\ (t.since = "written" => Enclosed(t)) BY <1>4, <2>2, <3>1, <3>2 DEF Shown
      <3>5. (l = m /\ a <= b) \/ (DamagedAt(s.damage, t.grid.cursor) /\ DamagedAt(s.damage, s.grid.cursor))
        BY <3>1 DEF Traced, Rightward
      <3>6. m = k => Anchored(s)
        BY <3>1, <3>2, <3>3, <3>4, <3>5, SMTT(90) DEF Anchored, DamagedAt, Includes
      <3>7. ASSUME s.since = "written" PROVE Enclosed(s)
        <4>1. t.since = "written" \/ DamagedAt(s.damage, t.cell) \/ Passed(t, s)
          BY <2>2, <3>7 DEF Traced, Redrawn
        <4>2. CASE t.since = "written"
          BY <3>1, <3>2, <3>3, <3>4, <3>5, <4>2, SMTT(90) DEF Enclosed, DamagedAt, Includes
        <4>3. CASE DamagedAt(s.damage, t.cell)
          BY <3>1, <3>2, <3>3, <4>3, SMTT(30) DEF Enclosed, DamagedAt, Includes
        <4>4. CASE Passed(t, s)
          BY <3>1, <3>2, <3>3, <3>4, <4>4, SMTT(90) DEF Anchored, Enclosed, Passed, Rightward
        <4>. QED BY <4>1, <4>2, <4>3, <4>4
      <3>. QED BY <3>1, <3>2, <3>3, <3>6, <3>7 DEF Shown
    <2>. QED BY <2>1, <2>2
  <1>. QED BY <1>1, <1>2, <1>3, <1>4 DEF Keeps
(* Leaving everything else as it is, twice. *)
LEMMA SameTrans ==
    ASSUME NEW t, NEW s, NEW u, SameElsewhere(t, s), SameElsewhere(s, u)
    PROVE  SameElsewhere(t, u)
  BY DEF SameElsewhere

(* Damage only grows. *)
LEMMA WiderTrans ==
    ASSUME NEW cols, NEW lines \in Nat, NEW d, NEW e, NEW f,
           DamageOK(d, cols, lines), DamageOK(e, cols, lines), DamageOK(f, cols, lines),
           Wider(d, e, lines), Wider(e, f, lines)
    PROVE  Wider(d, f, lines)
  BY DEF Wider, DamageOK

(* What was damaged stays damaged. *)
LEMMA IncludesWider ==
    ASSUME NEW cols, NEW lines \in Nat, NEW d, NEW e, DamageOK(d, cols, lines), DamageOK(e, cols, lines),
           Wider(d, e, lines), NEW line \in 0..(lines - 1), NEW left \in Int, NEW right \in Int,
           Includes(d, line, left, right)
    PROVE  Includes(e, line, left, right)
  BY DEF Wider, DamageOK, Includes

(* With a range of columns each part of it is damaged. *)
LEMMA IncludesPart ==
    ASSUME NEW cols, NEW lines \in Nat, NEW d, DamageOK(d, cols, lines), NEW line \in 0..(lines - 1),
           NEW left \in Int, NEW right \in Int, NEW a \in Int, NEW b \in Int, left <= a, b <= right,
           Includes(d, line, left, right)
    PROVE  Includes(d, line, a, b)
  BY DEF DamageOK, Includes

(* damage_line adds its columns to the damage and touches nothing else. *)
LEMMA DamageLineLaw ==
    ASSUME NEW t, GeometryOK(t), NEW line \in 0..(t.lines - 1), NEW left \in Int, NEW right \in Int
    PROVE  LET s == damage_line(t, line, left, right)
           IN  /\ SameElsewhere(t, s) /\ s.grid = t.grid /\ s.since = t.since
               /\ DamageOK(s.damage, t.cols, t.lines) /\ Wider(t.damage, s.damage, t.lines)
               /\ Includes(s.damage, line, left, right)
               /\ GeometryOK(s)
  <1>. PICK s : s = damage_line(t, line, left, right) OBVIOUS
  <1>1. SameElsewhere(t, s) /\ s.grid = t.grid /\ s.since = t.since
    BY DEF damage_line, SameElsewhere, GeometryOK, TermFields, ScreenOK
  <1>2. PICK old, new : /\ old = t.damage.lines[line]
                        /\ new = [left |-> MinOf(old.left, left), right |-> MaxOf(old.right, right)]
    OBVIOUS
  <1>3. s.damage = [t.damage EXCEPT !.lines[line] = new]
    BY <1>2 DEF damage_line, GeometryOK, TermFields
  <1>4. old.left \in Int /\ old.right \in Int BY <1>2 DEF GeometryOK, DamageOK
  <1>5. /\ DOMAIN new = {"left", "right"} /\ new.left \in Int /\ new.right \in Int
        /\ new.left <= old.left /\ new.left <= left /\ old.right <= new.right /\ right <= new.right
    BY <1>2, <1>4 DEF MinOf, MaxOf
  <1>6. /\ DOMAIN s.damage = DOMAIN t.damage /\ s.damage.last = t.damage.last
        /\ s.damage.full = t.damage.full
        /\ s.damage.lines = [t.damage.lines EXCEPT ![line] = new]
    BY <1>3 DEF GeometryOK, DamageOK
  <1>7. DamageOK(s.damage, t.cols, t.lines) BY <1>5, <1>6, SMTT(30) DEF GeometryOK, DamageOK
  <1>8. Wider(t.damage, s.damage, t.lines) BY <1>2, <1>5, <1>6, SMTT(90) DEF GeometryOK, DamageOK, Wider
  <1>9. Includes(s.damage, line, left, right) BY <1>5, <1>6 DEF GeometryOK, DamageOK, Includes
  <1>10. GeometryOK(s) BY <1>1, <1>7 DEF GeometryOK, SameElsewhere, ScreenOK
  <1>. QED BY <1>1, <1>7, <1>8, <1>9, <1>10

(* damage_cursor adds the cell of the cursor. *)
LEMMA DamageCursorLaw ==
    ASSUME NEW t, GeometryOK(t)
    PROVE  LET s == damage_cursor(t)
               c == t.grid.cursor
           IN  /\ SameElsewhere(t, s) /\ s.grid = t.grid /\ s.since = t.since
               /\ DamageOK(s.damage, t.cols, t.lines) /\ Wider(t.damage, s.damage, t.lines)
               /\ Includes(s.damage, c.line, c.col, c.col)
               /\ GeometryOK(s)
  <1>1. PICK line \in 0..(t.lines - 1), col \in Int : line = t.grid.cursor.line /\ col = t.grid.cursor.col
    BY DEF GeometryOK, ScreenOK, CursorOK
  <1>. QED BY <1>1, DamageLineLaw DEF damage_cursor

(* s is t with its cursor elsewhere. *)
Placed(t, s, line, col) ==
    /\ SameElsewhere(t, s) /\ s.damage = t.damage /\ s.since = t.since
    /\ DOMAIN s.grid.cursor = CursorFields
    /\ s.grid.cursor.line = line /\ s.grid.cursor.col = col
    /\ AtMostOneOf(t.grid.cursor.template, ALL_UNDERLINES) =>
         AtMostOneOf(s.grid.cursor.template, ALL_UNDERLINES)

(* Moves of the cursor change nothing but the cursor. *)
LEMMA MoveToLaw ==
    ASSUME NEW t, GeometryOK(t), NEW line, NEW col
    PROVE  /\ Placed(t, MoveTo(t, line, col), line, col)
           /\ Placed(t, MoveToCol(t, col), t.grid.cursor.line, col)
           /\ Placed(t, NoWrap(t), t.grid.cursor.line, t.grid.cursor.col)
  BY DEF GeometryOK, ScreenOK, CursorOK, Placed, SameElsewhere, MoveTo, MoveToCol, NoWrap,
         TermFields, ScreenFields, CursorFields

(* A cursor put on the screen is on it. *)
LEMMA PlacedOK ==
    ASSUME NEW t, GeometryOK(t), NEW line \in 0..(t.lines - 1), NEW col \in 0..(t.cols - 1),
           NEW s, Placed(t, s, line, col)
    PROVE  CursorOK(s.grid.cursor, t.cols, t.lines) /\ GeometryOK(s)
  <1>1. CursorOK(s.grid.cursor, t.cols, t.lines) BY DEF GeometryOK, ScreenOK, CursorOK, Placed, CursorFields
  <1>. QED BY <1>1 DEF GeometryOK, Placed, SameElsewhere, ScreenOK

(* The cursor moves, and both the cell it leaves and the one it reaches are damaged. *)
Jump(t, s) ==
    /\ SameElsewhere(t, s) /\ s.since = t.since
    /\ CursorOK(s.grid.cursor, t.cols, t.lines) /\ DamageOK(s.damage, t.cols, t.lines)
    /\ Wider(t.damage, s.damage, t.lines)
    /\ Includes(s.damage, t.grid.cursor.line, t.grid.cursor.col, t.grid.cursor.col)
    /\ Includes(s.damage, s.grid.cursor.line, s.grid.cursor.col, s.grid.cursor.col)

(* The ranges of the cursor and of the region. *)
LEMMA CursorRange ==
    ASSUME NEW t, GeometryOK(t)
    PROVE  /\ t.grid.cursor.line \in 0..(t.lines - 1) /\ t.grid.cursor.col \in 0..(t.cols - 1)
           /\ t.lines \in Nat \ {0} /\ t.cols \in Nat \ {0}
           /\ t.region.start \in Nat /\ t.region.end \in Nat /\ t.region.start <= t.region.end
           /\ t.region.end <= t.lines
           /\ CursorOK(t.grid.cursor, t.cols, t.lines) /\ DamageOK(t.damage, t.cols, t.lines)
  BY DEF GeometryOK, ScreenOK, CursorOK, RegionOK

(* The cell that is left is damaged, the cursor placed, the cell it is placed on
   damaged. *)
LEMMA JumpPlaced ==
    ASSUME NEW t, GeometryOK(t), NEW line \in 0..(t.lines - 1), NEW col \in 0..(t.cols - 1),
           NEW b, Placed(damage_cursor(t), b, line, col)
    PROVE  LET s == damage_cursor(b)
           IN  Jump(t, s) /\ GeometryOK(s) /\ s.grid.cursor.line = line /\ s.grid.cursor.col = col
  <1>. PICK a, s : a = damage_cursor(t) /\ s = damage_cursor(b)
    OBVIOUS
  <1>1. /\ SameElsewhere(t, a) /\ a.grid = t.grid /\ a.since = t.since
        /\ DamageOK(a.damage, t.cols, t.lines) /\ Wider(t.damage, a.damage, t.lines)
        /\ Includes(a.damage, t.grid.cursor.line, t.grid.cursor.col, t.grid.cursor.col)
        /\ GeometryOK(a)
    BY DamageCursorLaw
  <1>2. a.cols = t.cols /\ a.lines = t.lines BY <1>1 DEF SameElsewhere
  <1>3. Placed(a, b, line, col) OBVIOUS
  <1>4. CursorOK(b.grid.cursor, t.cols, t.lines) /\ GeometryOK(b) BY <1>1, <1>2, <1>3, PlacedOK
  <1>5. b.cols = t.cols /\ b.lines = t.lines BY <1>2, <1>3 DEF Placed, SameElsewhere
  <1>6. /\ SameElsewhere(b, s) /\ s.grid = b.grid /\ s.since = b.since
        /\ DamageOK(s.damage, t.cols, t.lines) /\ Wider(b.damage, s.damage, t.lines)
        /\ Includes(s.damage, b.grid.cursor.line, b.grid.cursor.col, b.grid.cursor.col)
        /\ GeometryOK(s)
    BY <1>4, <1>5, DamageCursorLaw
  <1>7. SameElsewhere(t, s) BY <1>1, <1>3, <1>6, SameTrans DEF Placed
  <1>8. Wider(t.damage, s.damage, t.lines)
    <2>1. b.damage = a.damage BY <1>3 DEF Placed
    <2>2. DamageOK(t.damage, t.cols, t.lines) /\ t.lines \in Nat BY CursorRange
    <2>. QED BY <1>1, <1>6, <2>1, <2>2, WiderTrans
  <1>9. Includes(s.damage, t.grid.cursor.line, t.grid.cursor.col, t.grid.cursor.col)
    <2>1. PICK l \in 0..(t.lines - 1), c \in Int : l = t.grid.cursor.line /\ c = t.grid.cursor.col
      BY CursorRange
    <2>2. b.damage = a.damage /\ t.lines \in Nat BY <1>3, CursorRange DEF Placed
    <2>. QED BY <1>1, <1>6, <2>1, <2>2, IncludesWider
  <1>10. Jump(t, s) BY <1>1, <1>3, <1>4, <1>6, <1>7, <1>8, <1>9 DEF Jump, Placed
  <1>11. s.grid.cursor.line = line /\ s.grid.cursor.col = col BY <1>3, <1>6 DEF Placed
  <1>. QED BY <1>6, <1>10, <1>11

(* The moves goto makes. *)
LEMMA JumpTo ==
    ASSUME NEW t, GeometryOK(t), NEW line \in 0..(t.lines - 1), NEW col \in 0..(t.cols - 1)
    PROVE  LET s == damage_cursor(MoveTo(damage_cursor(t), line, col))
           IN  Jump(t, s) /\ Jump(t, NoWrap(s))
  <1>. PICK a, b, s, n : /\ a = damage_cursor(t) /\ b = MoveTo(a, line, col)
                         /\ s = damage_cursor(b) /\ n = NoWrap(s)
    OBVIOUS
  <1>1. GeometryOK(a) BY DamageCursorLaw
  <1>2. Placed(a, b, line, col) BY <1>1, MoveToLaw
  <1>3. Jump(t, s) /\ GeometryOK(s) /\ s.grid.cursor.line = line /\ s.grid.cursor.col = col
    BY <1>2, JumpPlaced
  <1>4. Placed(s, n, s.grid.cursor.line, s.grid.cursor.col) BY <1>3, MoveToLaw
  <1>5. s.cols = t.cols /\ s.lines = t.lines BY <1>3 DEF Jump, SameElsewhere
  <1>6. CursorOK(n.grid.cursor, t.cols, t.lines) BY <1>3, <1>4, <1>5, PlacedOK
  <1>7. SameElsewhere(t, n) BY <1>3, <1>4, SameTrans DEF Placed, Jump
  <1>8. Jump(t, n) BY <1>3, <1>4, <1>6, <1>7 DEF Jump, Placed
  <1>. QED BY <1>3, <1>8

(* A jump writes nothing and leaves its trace, *)
LEMMA JumpTraced ==
    ASSUME NEW t, GeometryOK(t), NEW s, Jump(t, s)
    PROVE  Traced(t, s)
  BY DEF Traced, Jump, DamagedAt

(* so it keeps everything. *)
LEMMA JumpKeeps ==
    ASSUME NEW t, TermOK(t), NEW s, Jump(t, s)
    PROVE  Keeps(t, s)
  BY JumpTraced, TracedKeeps DEF TermOK

(* goto clamps to the screen, or to the region in origin mode. *)
LEMMA GotoJump ==
    ASSUME NEW t, GeometryOK(t), NEW line \in Int, NEW col \in Nat
    PROVE  Jump(t, goto(t, line, col)) /\ GeometryOK(goto(t, line, col))
  <1>. DEFINE origin == Has(t, "ORIGIN")
              top    == IF origin THEN t.region.start ELSE 0
              bottom == IF origin THEN t.region.end - 1 ELSE t.lines - 1
  <1>1. PICK l \in 0..(t.lines - 1), c \in 0..(t.cols - 1) :
          l = MaxOf(MinOf(line + top, bottom), 0) /\ c = MinOf(col, t.cols - 1)
    <2>1. top \in Int /\ bottom \in Int /\ bottom <= t.lines - 1 BY CursorRange
    <2>2. MaxOf(MinOf(line + top, bottom), 0) \in 0..(t.lines - 1)
      <3>. HIDE DEF top, bottom
      <3>. QED BY <2>1, CursorRange DEF MinOf, MaxOf
    <2>3. MinOf(col, t.cols - 1) \in 0..(t.cols - 1) BY CursorRange DEF MinOf
    <2>. HIDE DEF top, bottom
    <2>. QED BY <2>2, <2>3
  <1>2. goto(t, line, col) = NoWrap(damage_cursor(MoveTo(damage_cursor(t), l, c))) BY <1>1 DEF goto
  <1>3. Jump(t, goto(t, line, col)) BY <1>2, JumpTo
  <1>4. GeometryOK(goto(t, line, col))
    BY <1>3 DEF Jump, GeometryOK, SameElsewhere, ScreenOK
  <1>. QED BY <1>3, <1>4

(* The moves that are made with goto. *)
LEMMA GotoJumps ==
    ASSUME NEW t, GeometryOK(t), NEW n \in Nat
    PROVE  /\ Jump(t, goto_line(t, n)) /\ Jump(t, goto_col(t, n))
           /\ Jump(t, move_up(t, n)) /\ Jump(t, move_down(t, n))
           /\ Jump(t, move_up_and_cr(t, n)) /\ Jump(t, move_down_and_cr(t, n))
  <1>1. PICK l \in Nat, c \in Nat : l = t.grid.cursor.line /\ c = t.grid.cursor.col BY CursorRange
  <1>2. l - n \in Int /\ l + n \in Int /\ n \in Int OBVIOUS
  <1>. QED BY <1>1, <1>2, GotoJump
         DEF goto_line, goto_col, move_up, move_down, move_up_and_cr, move_down_and_cr

(* The cursor moves within its line, and the columns between are damaged. *)
LEMMA JumpInLine ==
    ASSUME NEW t, GeometryOK(t), NEW col \in 0..(t.cols - 1), NEW left \in Int, NEW right \in Int,
           left <= col, col <= right, left <= t.grid.cursor.col, t.grid.cursor.col <= right
    PROVE  LET d == damage_line(t, t.grid.cursor.line, left, right)
           IN  /\ Jump(t, MoveToCol(d, col)) /\ Jump(t, NoWrap(MoveToCol(d, col)))
  <1>. PICK d, m, n : /\ d = damage_line(t, t.grid.cursor.line, left, right)
                      /\ m = MoveToCol(d, col) /\ n = NoWrap(m)
    OBVIOUS
  <1>0. PICK l \in 0..(t.lines - 1), c \in 0..(t.cols - 1) : l = t.grid.cursor.line /\ c = t.grid.cursor.col
    BY CursorRange
  <1>1. /\ SameElsewhere(t, d) /\ d.grid = t.grid /\ d.since = t.since
        /\ DamageOK(d.damage, t.cols, t.lines) /\ Wider(t.damage, d.damage, t.lines)
        /\ Includes(d.damage, l, left, right) /\ GeometryOK(d)
    BY <1>0, DamageLineLaw
  <1>2. d.cols = t.cols /\ d.lines = t.lines BY <1>1 DEF SameElsewhere
  <1>3. Placed(d, m, l, col) BY <1>0, <1>1, MoveToLaw
  <1>4. CursorOK(m.grid.cursor, t.cols, t.lines) /\ GeometryOK(m) BY <1>1, <1>2, <1>3, PlacedOK
  <1>5. SameElsewhere(t, m) BY <1>1, <1>3, SameTrans DEF Placed
  <1>6. /\ Includes(d.damage, l, c, c) /\ Includes(d.damage, l, col, col)
    <2>1. c \in Int /\ col \in Int /\ left <= c /\ c <= right /\ t.lines \in Nat BY <1>0, CursorRange
    <2>. QED BY <1>1, <2>1, IncludesPart
  <1>7. Jump(t, m) BY <1>0, <1>1, <1>3, <1>4, <1>5, <1>6 DEF Jump, Placed
  <1>8. Placed(m, n, l, col) BY <1>3, <1>4, MoveToLaw DEF Placed
  <1>9. m.cols = t.cols /\ m.lines = t.lines BY <1>5 DEF SameElsewhere
  <1>10. CursorOK(n.grid.cursor, t.cols, t.lines) BY <1>4, <1>8, <1>9, PlacedOK
  <1>11. SameElsewhere(t, n) BY <1>5, <1>8, SameTrans DEF Placed
  <1>12. Jump(t, n) BY <1>3, <1>7, <1>8, <1>10, <1>11 DEF Jump, Placed
  <1>. QED BY <1>7, <1>12

(* The moves within a line. *)
LEMMA ForwardJump ==
    ASSUME NEW t, GeometryOK(t), NEW n \in Nat
    PROVE  /\ Jump(t, move_forward(t, n)) /\ Jump(t, move_backward(t, n))
           /\ Jump(t, carriage_return(t))
  <1>1. PICK c \in 0..(t.cols - 1) : c = t.grid.cursor.col /\ t.cols \in Nat \ {0} BY CursorRange
  <1>2. PICK a \in 0..(t.cols - 1) : a = MinOf(c + n, t.cols - 1) /\ c <= a /\ a \in Int
    <2>1. MinOf(c + n, t.cols - 1) \in 0..(t.cols - 1) /\ c <= MinOf(c + n, t.cols - 1)
      BY <1>1 DEF MinOf
    <2>. QED BY <2>1
  <1>3. PICK b \in 0..(t.cols - 1) : b = SaturatingSub(c, n) /\ b <= c /\ b \in Int
    <2>1. SaturatingSub(c, n) \in 0..(t.cols - 1) /\ SaturatingSub(c, n) <= c
      BY <1>1 DEF SaturatingSub
    <2>. QED BY <2>1
  <1>4. c \in Int /\ 0 <= c /\ 0 \in 0..(t.cols - 1) BY <1>1
  <1>5. Jump(t, move_forward(t, n)) BY <1>1, <1>2, <1>4, JumpInLine DEF move_forward
  <1>6. Jump(t, move_backward(t, n)) BY <1>1, <1>3, <1>4, JumpInLine DEF move_backward
  <1>7. Jump(t, carriage_return(t)) BY <1>1, <1>4, JumpInLine DEF carriage_return
  <1>. QED BY <1>5, <1>6, <1>7

(* The same, when the cursor is moved first. *)
LEMMA JumpBefore ==
    ASSUME NEW t, GeometryOK(t), NEW line, line = t.grid.cursor.line,
           NEW col \in 0..(t.cols - 1), NEW left \in Int, NEW right \in Int,
           left <= col, col <= right, left <= t.grid.cursor.col, t.grid.cursor.col <= right
    PROVE  /\ Jump(t, damage_line(MoveToCol(t, col), line, left, right))
           /\ Jump(t, damage_line(NoWrap(MoveToCol(t, col)), line, left, right))
  <1>0. PICK l \in 0..(t.lines - 1), c \in 0..(t.cols - 1) : l = t.grid.cursor.line /\ c = t.grid.cursor.col
    BY CursorRange
  <1>1. ASSUME NEW m, Placed(t, m, l, col) PROVE Jump(t, damage_line(m, l, left, right))
    <2>. PICK d : d = damage_line(m, l, left, right) OBVIOUS
    <2>1. CursorOK(m.grid.cursor, t.cols, t.lines) /\ GeometryOK(m) BY <1>1, PlacedOK
    <2>2. m.cols = t.cols /\ m.lines = t.lines BY <1>1 DEF Placed, SameElsewhere
    <2>3. /\ SameElsewhere(m, d) /\ d.grid = m.grid /\ d.since = m.since
          /\ DamageOK(d.damage, t.cols, t.lines) /\ Wider(m.damage, d.damage, t.lines)
          /\ Includes(d.damage, l, left, right)
      BY <2>1, <2>2, DamageLineLaw
    <2>4. SameElsewhere(t, d) BY <1>1, <2>3, SameTrans DEF Placed
    <2>5. Includes(d.damage, l, c, c) /\ Includes(d.damage, l, col, col)
      <3>1. c \in Int /\ col \in Int /\ left <= c /\ c <= right /\ t.lines \in Nat BY <1>0, CursorRange
      <3>. QED BY <2>3, <3>1, IncludesPart
    <2>. QED BY <1>0, <1>1, <2>1, <2>3, <2>4, <2>5 DEF Jump, Placed
  <1>2. PICK m, n : m = MoveToCol(t, col) /\ n = NoWrap(m) OBVIOUS
  <1>3. Placed(t, m, l, col) BY <1>0, <1>2, MoveToLaw
  <1>4. GeometryOK(m) BY <1>3, PlacedOK
  <1>5. Placed(t, n, l, col)
    <2>1. Placed(m, n, m.grid.cursor.line, m.grid.cursor.col) BY <1>2, <1>4, MoveToLaw
    <2>2. SameElsewhere(t, n) BY <1>3, <2>1, SameTrans DEF Placed
    <2>. QED BY <1>3, <2>1, <2>2 DEF Placed
  <1>. QED BY <1>0, <1>1, <1>2, <1>3, <1>5

(* backspace, where it moves. *)
LEMMA BackspaceJump ==
    ASSUME NEW t, GeometryOK(t)
    PROVE  Jump(t, backspace(t)) \/ backspace(t) = t
  <1>1. PICK c \in 0..(t.cols - 1) : c = t.grid.cursor.col /\ t.cols \in Nat \ {0} BY CursorRange
  <1>2. CASE c = 0 BY <1>1, <1>2 DEF backspace
  <1>3. CASE c # 0
    <2>1. PICK b \in 0..(t.cols - 1) : b = c - 1 /\ b <= c /\ b <= b /\ c <= c /\ b \in Int /\ c \in Int
      <3>1. c - 1 \in 0..(t.cols - 1) BY <1>1, <1>3
      <3>. QED BY <3>1
    <2>2. backspace(t) = damage_line(NoWrap(MoveToCol(t, b)), t.grid.cursor.line, b, c)
      BY <1>1, <1>3, <2>1 DEF backspace
    <2>. QED BY <1>1, <2>1, <2>2, JumpBefore
  <1>. QED BY <1>2, <1>3

(* A non-empty set of numbers below a bound has a greatest one. *)
LEMMA GreatestNat ==
    ASSUME NEW n \in Nat, NEW S \in SUBSET (0..n), S # {}
    PROVE  Max(S) \in S /\ \A y \in S : y <= Max(S)
  <1>. DEFINE D == {n - x : x \in S}
  <1>1. \A x \in S : n - x \in Nat OBVIOUS
  <1>2. D \in SUBSET Nat BY <1>1
  <1>3. D # {} OBVIOUS
  <1>4. Min(D) \in D /\ \A y \in D : Min(D) <= y
    <2>. HIDE DEF D
    <2>. QED BY <1>2, <1>3, LeastNat
  <1>5. PICK x \in S : Min(D) = n - x BY <1>4
  <1>6. \A y \in S : y <= x
    <2>. SUFFICES ASSUME NEW y \in S PROVE y <= x OBVIOUS
    <2>1. n - y \in D OBVIOUS
    <2>2. n - x <= n - y
      <3>. HIDE DEF D
      <3>. QED BY <1>4, <1>5, <2>1
    <2>. QED BY <2>2
  <1>7. Max(S) \in S /\ \A y \in S : Max(S) >= y
    <2>1. \E z \in S : \A y \in S : z >= y BY <1>6
    <2>. QED BY <2>1, Zenon DEF Max
  <1>. QED BY <1>7

(* The tab stops to the right and to the left of a column. *)
LEMMA NextTabRange ==
    ASSUME NEW t, GeometryOK(t), NEW c \in 0..(t.cols - 1)
    PROVE  /\ NextTab(t, c) \in 0..(t.cols - 1) /\ c <= NextTab(t, c)
           /\ PrevTab(t, c) \in 0..(t.cols - 1) /\ PrevTab(t, c) <= c
  <1>1. PICK n \in Nat \ {0} : n = t.cols BY CursorRange
  <1>2. PICK stops : stops = {i \in c + 1..n - 1 : i \in t.tabs} \cup {n - 1} OBVIOUS
  <1>3. stops \in SUBSET Nat /\ stops # {} /\ \A i \in stops : i \in 0..(n - 1) /\ c <= i BY <1>1, <1>2
  <1>4. Min(stops) \in stops BY <1>3, LeastNat
  <1>5. NextTab(t, c) = Min(stops) BY <1>1, <1>2 DEF NextTab
  <1>6. PICK prev : prev = {i \in 0..c - 1 : i \in t.tabs} OBVIOUS
  <1>7. PrevTab(t, c) = IF prev = {} THEN c ELSE Max(prev) BY <1>6 DEF PrevTab
  <1>8. prev # {} => Max(prev) \in prev
    <2>1. prev \in SUBSET (0..c) /\ c \in Nat BY <1>1, <1>6
    <2>. QED BY <2>1, GreatestNat
  <1>9. \A i \in prev : i \in 0..(n - 1) /\ i <= c BY <1>1, <1>6
  <1>10. NextTab(t, c) \in 0..(t.cols - 1) /\ c <= NextTab(t, c) BY <1>1, <1>3, <1>4, <1>5
  <1>11. PrevTab(t, c) \in 0..(t.cols - 1) /\ PrevTab(t, c) <= c
    <2>1. CASE prev = {} BY <1>1, <1>7, <2>1
    <2>2. CASE prev # {} BY <1>1, <1>7, <1>8, <1>9, <2>2
    <2>. QED BY <2>1, <2>2
  <1>. QED BY <1>10, <1>11

(* One step of move_forward_tabs, *)
TabForward(t, c, i) == NextTab(t, c)
(* and of move_backward_tabs. *)
TabBackward(t, c, i) == PrevTab(t, c)
(* The laws of folds for tabulators forward *)
N == INSTANCE FoldLaws WITH op <- TabForward
(* and backward. *)
P == INSTANCE FoldLaws WITH op <- TabBackward

(* The column after a number of tabulators forward, *)
TabsForward(t, count, col) == Repeat(count, col, LAMBDA x : NextTab(t, x))
(* and backward. *)
TabsBackward(t, count, col) == Repeat(count, col, LAMBDA x : PrevTab(t, x))

(* Tabulators forward go right and stay on the screen, those backward go left. *)
LEMMA TabsRange ==
    ASSUME NEW t, GeometryOK(t), NEW count \in Nat, NEW col \in 0..(t.cols - 1)
    PROVE  /\ TabsForward(t, count, col) \in 0..(t.cols - 1) /\ col <= TabsForward(t, count, col)
           /\ TabsBackward(t, count, col) \in 0..(t.cols - 1) /\ TabsBackward(t, count, col) <= col
  <1>. DEFINE s == [i \in 1..count |-> i]
  <1>1. TabsForward(t, count, col) = N!Fold(t, col, s)
    <2>1. TabsForward(t, count, col) = FoldLeft(LAMBDA c, i : NextTab(t, c), col, s)
      BY DEF TabsForward, Repeat
    <2>. QED BY <2>1, Zenon DEF N!Fold, TabForward, FoldLeft, MapThenFoldSet, Max, N!FoldLeft, N!MapThenFoldSet, N!Max
  <1>2. TabsBackward(t, count, col) = P!Fold(t, col, s)
    <2>1. TabsBackward(t, count, col) = FoldLeft(LAMBDA c, i : PrevTab(t, c), col, s)
      BY DEF TabsBackward, Repeat
    <2>. QED BY <2>1, Zenon DEF P!Fold, TabBackward, FoldLeft, MapThenFoldSet, Max, P!FoldLeft, P!MapThenFoldSet, P!Max
  <1>3. DOMAIN s = 1..count OBVIOUS
  <1>. HIDE DEF s
  <1>4. N!Fold(t, col, s) \in 0..(t.cols - 1) /\ col <= N!Fold(t, col, s)
    <2>1. PICK r : N!Steps(t, col, s, count, r, N!Fold(t, col, s)) BY <1>3, N!FoldTrace, Zenon
    <2>2. /\ r[0] = col /\ r[count] = N!Fold(t, col, s)
          /\ \A k \in 0..(count - 1) : r[k + 1] = NextTab(t, r[k])
      BY <2>1 DEF N!Steps, TabForward
    <2>. DEFINE G == {k \in Nat : k <= count => r[k] \in 0..(t.cols - 1) /\ col <= r[k]}
    <2>3. 0 \in G BY <2>2
    <2>4. ASSUME NEW k \in Nat, k \in G PROVE k + 1 \in G
      <3>. SUFFICES ASSUME k + 1 <= count PROVE r[k + 1] \in 0..(t.cols - 1) /\ col <= r[k + 1]
        OBVIOUS
      <3>1. k \in 0..(count - 1) /\ r[k] \in 0..(t.cols - 1) /\ col <= r[k] BY <2>4
      <3>2. r[k + 1] = NextTab(t, r[k]) BY <2>2, <3>1
      <3>3. NextTab(t, r[k]) \in 0..(t.cols - 1) /\ r[k] <= NextTab(t, r[k]) BY <3>1, NextTabRange
      <3>. QED BY <3>1, <3>2, <3>3, CursorRange
    <2>5. count \in G
      <3>. HIDE DEF G
      <3>. QED BY <2>3, <2>4, NatSetInduction
    <2>. QED BY <2>2, <2>5
  <1>5. P!Fold(t, col, s) \in 0..(t.cols - 1) /\ P!Fold(t, col, s) <= col
    <2>1. PICK r : P!Steps(t, col, s, count, r, P!Fold(t, col, s)) BY <1>3, P!FoldTrace, Zenon
    <2>2. /\ r[0] = col /\ r[count] = P!Fold(t, col, s)
          /\ \A k \in 0..(count - 1) : r[k + 1] = PrevTab(t, r[k])
      BY <2>1 DEF P!Steps, TabBackward
    <2>. DEFINE G == {k \in Nat : k <= count => r[k] \in 0..(t.cols - 1) /\ r[k] <= col}
    <2>3. 0 \in G BY <2>2
    <2>4. ASSUME NEW k \in Nat, k \in G PROVE k + 1 \in G
      <3>. SUFFICES ASSUME k + 1 <= count PROVE r[k + 1] \in 0..(t.cols - 1) /\ r[k + 1] <= col
        OBVIOUS
      <3>1. k \in 0..(count - 1) /\ r[k] \in 0..(t.cols - 1) /\ r[k] <= col BY <2>4
      <3>2. r[k + 1] = PrevTab(t, r[k]) BY <2>2, <3>1
      <3>3. PrevTab(t, r[k]) \in 0..(t.cols - 1) /\ PrevTab(t, r[k]) <= r[k] BY <3>1, NextTabRange
      <3>. QED BY <3>1, <3>2, <3>3, CursorRange
    <2>5. count \in G
      <3>. HIDE DEF G
      <3>. QED BY <2>3, <2>4, NatSetInduction
    <2>. QED BY <2>2, <2>5
  <1>. QED BY <1>1, <1>2, <1>4, <1>5

(* move_forward_tabs and move_backward_tabs damage the columns they pass. *)
LEMMA TabJump ==
    ASSUME NEW t, GeometryOK(t), NEW n \in Nat
    PROVE  Jump(t, move_forward_tabs(t, n)) /\ Jump(t, move_backward_tabs(t, n))
  <1>1. PICK c \in 0..(t.cols - 1) : c = t.grid.cursor.col /\ t.cols \in Nat \ {0} BY CursorRange
  <1>2. PICK a, b : /\ a = TabsForward(t, n, c) /\ b = TabsBackward(t, n, c)
    OBVIOUS
  <1>3. a \in 0..(t.cols - 1) /\ c <= a /\ b \in 0..(t.cols - 1) /\ b <= c BY <1>1, <1>2, TabsRange
  <1>4. a \in Int /\ b \in Int /\ c \in Int /\ a <= a /\ b <= b /\ c <= c BY <1>1, <1>3
  <1>5. move_forward_tabs(t, n) = damage_line(MoveToCol(t, a), t.grid.cursor.line, c, a)
    BY <1>1, <1>2 DEF move_forward_tabs, TabsForward
  <1>6. move_backward_tabs(t, n) = damage_line(MoveToCol(t, b), t.grid.cursor.line, b, c)
    BY <1>1, <1>2 DEF move_backward_tabs, TabsBackward
  <1>7. Jump(t, move_forward_tabs(t, n)) BY <1>1, <1>3, <1>4, <1>5, JumpBefore
  <1>8. Jump(t, move_backward_tabs(t, n)) BY <1>1, <1>3, <1>4, <1>6, JumpBefore
  <1>. QED BY <1>7, <1>8

-----------------------------------------------------------------------------
(* Steps that redraw the screen, and steps that touch nothing that is drawn *)

(* A frame that is drawn whole shows everything. *)
LEMMA MarkLaw ==
    ASSUME NEW t, NEW s, TermOK(s), SameScreen(t, s), NEW top, NEW bottom
    PROVE  /\ Keeps(t, mark_fully_damaged(s)) /\ mark_fully_damaged(s).damage.full
           /\ Keeps(t, mark_fully_damaged(WriteLines(s, top, bottom)))
           /\ mark_fully_damaged(WriteLines(s, top, bottom)).damage.full
  <1>1. ASSUME NEW u, TermOK(u), SameScreen(t, u)
        PROVE  Keeps(t, mark_fully_damaged(u)) /\ mark_fully_damaged(u).damage.full
    <2>. PICK m : m = mark_fully_damaged(u) OBVIOUS
    <2>1. /\ DOMAIN m = TermFields /\ m.damage = [u.damage EXCEPT !.full = TRUE]
          /\ m.cols = u.cols /\ m.lines = u.lines /\ m.grid = u.grid /\ m.inactive = u.inactive
          /\ m.region = u.region /\ m.tabs = u.tabs /\ m.cell = u.cell /\ m.mode = u.mode
          /\ m.keyboard = u.keyboard /\ m.inactive_keyboard = u.inactive_keyboard
          /\ m.config = u.config /\ m.titles = u.titles /\ m.title = u.title /\ m.style = u.style
      BY <1>1 DEF mark_fully_damaged, TermOK, GeometryOK, TermFields
    <2>2. DamageOK(m.damage, m.cols, m.lines) /\ m.damage.full
      BY <1>1, <2>1 DEF TermOK, GeometryOK, DamageOK
    <2>3. GeometryOK(m) BY <1>1, <2>1, <2>2 DEF TermOK, GeometryOK
    <2>4. ModesOK(m) BY <1>1, <2>1 DEF TermOK, ModesOK, StacksOK, TitlesOK
    <2>5. SameScreen(t, m) BY <1>1, <2>1 DEF LineScrolls, SameScreen
    <2>. QED BY <1>1, <2>1, <2>2, <2>3, <2>4, <2>5 DEF Keeps, TermOK, Shown, Redrawn
  <1>2. PICK w : w = WriteLines(s, top, bottom) OBVIOUS
  <1>3. TermOK(w) /\ SameScreen(t, w)
    <2>1. /\ DOMAIN w = TermFields /\ w.damage = s.damage
          /\ w.cols = s.cols /\ w.lines = s.lines /\ w.grid = s.grid /\ w.inactive = s.inactive
          /\ w.region = s.region /\ w.tabs = s.tabs /\ w.cell = s.cell /\ w.mode = s.mode
          /\ w.keyboard = s.keyboard /\ w.inactive_keyboard = s.inactive_keyboard
          /\ w.config = s.config /\ w.titles = s.titles /\ w.title = s.title /\ w.style = s.style
      BY <1>2 DEF WriteLines, TermOK, GeometryOK, TermFields
    <2>2. GeometryOK(w) BY <2>1 DEF TermOK, GeometryOK
    <2>3. ModesOK(w) BY <2>1 DEF TermOK, ModesOK, StacksOK, TitlesOK
    <2>. QED BY <2>1, <2>2, <2>3 DEF TermOK, LineScrolls, SameScreen
  <1>. QED BY <1>1, <1>2, <1>3

(* The screen, its damage and the cursor's place stay as they are. *)
Aside(t, s) ==
    /\ DOMAIN s = TermFields
    /\ s.cols = t.cols /\ s.lines = t.lines /\ s.region = t.region /\ s.damage = t.damage
    /\ s.cell = t.cell /\ s.since = t.since
    /\ s.grid.cursor.line = t.grid.cursor.line /\ s.grid.cursor.col = t.grid.cursor.col
    /\ "INSERT" \in t.mode => "INSERT" \in s.mode

(* Such operations keep what is shown. *)
LEMMA AsideKeeps ==
    ASSUME NEW t, TermOK(t), NEW s, Aside(t, s), ModesOK(s),
           ScreenOK(s.grid, t.cols, t.lines), ScreenOK(s.inactive, t.cols, t.lines),
           s.tabs \subseteq 0..(t.cols - 1)
    PROVE  Keeps(t, s)
  <1>1. GeometryOK(s) BY DEF TermOK, GeometryOK, Aside
  <1>2. Shown(t) => Shown(s) BY DEF Aside, Shown, Redrawn, Anchored, Enclosed
  <1>. QED BY <1>1, <1>2 DEF TermOK, Keeps, Aside, LineScrolls, SameScreen

(* Scrolling a grid keeps its cursors and the limit of its scrollback. *)
LEMMA ScrollUpGrid ==
    ASSUME NEW cols \in Nat, NEW lines \in Nat, NEW g, ScreenOK(g, cols, lines), NEW start \in Int, NEW end \in Int, NEW n \in Nat
    PROVE  /\ ScreenOK(scroll_up_grid(g, start, end, n), cols, lines)
           /\ scroll_up_grid(g, start, end, n).cursor = g.cursor
           /\ scroll_up_grid(g, start, end, n).saved = g.saved
  <1>1. scrolled_offset(g, n) \in Nat /\ MinOf(g.hist + n, g.limit) \in 0..g.limit
    BY DEF ScreenOK, scrolled_offset, MinOf
  <1>. QED BY <1>1 DEF ScreenOK, scroll_up_grid, ScreenFields

(* s is t, but for the grid that is shown, the selection, the vi cursor and what is
   known of the watched cell. *)
Body(t, s) ==
    /\ DOMAIN s = TermFields /\ s.damage = t.damage
    /\ s.cols = t.cols /\ s.lines = t.lines /\ s.inactive = t.inactive
    /\ s.region = t.region /\ s.tabs = t.tabs /\ s.cell = t.cell /\ s.mode = t.mode
    /\ s.keyboard = t.keyboard /\ s.inactive_keyboard = t.inactive_keyboard
    /\ s.config = t.config /\ s.titles = t.titles /\ s.title = t.title /\ s.style = t.style

(* Such operations keep what holds of the terminal. *)
LEMMA BodyOK ==
    ASSUME NEW t, TermOK(t), NEW s, Body(t, s), ScreenOK(s.grid, t.cols, t.lines)
    PROVE  TermOK(s) /\ SameScreen(t, s)
  <1>1. GeometryOK(s) BY DEF TermOK, GeometryOK, Body
  <1>2. ModesOK(s) BY DEF TermOK, ModesOK, StacksOK, TitlesOK, Body
  <1>. QED BY <1>1, <1>2 DEF TermOK, LineScrolls, SameScreen, Body

(* Scrolling a region redraws the screen. *)
LEMMA ScrollKeeps ==
    ASSUME NEW t, TermOK(t), NEW origin \in Nat, NEW count \in Nat
    PROVE  /\ Keeps(t, scroll_up_relative(t, origin, count))
           /\ Keeps(t, scroll_down_relative(t, origin, count))
           /\ scroll_up_relative(t, origin, count).damage.full
  <1>1. Keeps(t, scroll_up_relative(t, origin, count)) /\ scroll_up_relative(t, origin, count).damage.full
    <2>1. PICK lines : lines = MinOf(count, t.region.end - t.region.start) OBVIOUS
    <2>2. lines \in Nat /\ t.region.end \in Nat /\ t.cols \in Nat /\ t.lines \in Nat
      BY <2>1 DEF MinOf, TermOK, GeometryOK, RegionOK
    <2>3. PICK g : g = scroll_up_grid(t.grid, origin, t.region.end, lines) OBVIOUS
    <2>4. ScreenOK(g, t.cols, t.lines)
      BY <2>2, <2>3, ScrollUpGrid DEF TermOK, GeometryOK
    <2>5. PICK s, sel, line : /\ s = [t EXCEPT !.sel = sel, !.grid = g, !.vi.line = line]
                              /\ scroll_up_relative(t, origin, count) =
                                   mark_fully_damaged(WriteLines(s, 0, t.lines - 1))
      BY <2>1, <2>3 DEF scroll_up_relative
    <2>6. Body(t, s) /\ s.grid = g BY <2>5 DEF Body, TermOK, GeometryOK, TermFields
    <2>7. TermOK(s) /\ SameScreen(t, s) BY <2>4, <2>6, BodyOK
    <2>. QED BY <2>5, <2>7, MarkLaw
  <1>2. Keeps(t, scroll_down_relative(t, origin, count))
    <2>1. PICK s, sel, line : /\ s = [t EXCEPT !.sel = sel, !.vi.line = line]
                              /\ scroll_down_relative(t, origin, count) =
                                   mark_fully_damaged(WriteLines(s, origin, t.region.end - 1))
      BY DEF scroll_down_relative
    <2>2. Body(t, s) /\ s.grid = t.grid BY <2>1 DEF Body, TermOK, GeometryOK, TermFields
    <2>3. TermOK(s) /\ SameScreen(t, s) BY <2>2, BodyOK DEF TermOK, GeometryOK
    <2>. QED BY <2>1, <2>3, MarkLaw
  <1>. QED BY <1>1, <1>2

(* The operations that scroll. *)
LEMMA ScrollsKeep ==
    ASSUME NEW t, TermOK(t), NEW n \in Nat
    PROVE  /\ Keeps(t, scroll_up(t, n)) /\ Keeps(t, scroll_down(t, n)) /\ scroll_up(t, n).damage.full
           /\ Keeps(t, insert_blank_lines(t, n)) /\ Keeps(t, delete_lines(t, n))
  <1>1. PICK start \in Nat, l \in Nat, h \in Nat : start = t.region.start /\ l = t.grid.cursor.line /\ h = t.lines /\ l < h
    BY DEF TermOK, GeometryOK, RegionOK, ScreenOK, CursorOK
  <1>2. Keeps(t, scroll_up(t, n)) /\ Keeps(t, scroll_down(t, n)) /\ scroll_up(t, n).damage.full
    BY <1>1, ScrollKeeps DEF scroll_up, scroll_down
  <1>3. Keeps(t, insert_blank_lines(t, n)) BY <1>1, ScrollKeeps, KeepsSame DEF insert_blank_lines
  <1>4. MinOf(h - l, n) \in Nat BY <1>1 DEF MinOf
  <1>5. Keeps(t, delete_lines(t, n)) BY <1>1, <1>4, ScrollKeeps, KeepsSame DEF delete_lines
  <1>. QED BY <1>2, <1>3, <1>5

(* A line feed at the bottom of the region scrolls it, elsewhere it moves the cursor. *)
LEMMA LinefeedKeeps ==
    ASSUME NEW t, TermOK(t)
    PROVE  Keeps(t, linefeed(t)) /\ Keeps(t, newline(t)) /\ Keeps(t, reverse_index(t))
  <1>0. GeometryOK(t) BY DEF TermOK
  <1>1. PICK l \in 0..(t.lines - 1), c \in 0..(t.cols - 1) : l = t.grid.cursor.line /\ c = t.grid.cursor.col
    BY <1>0, CursorRange
  <1>2. t.lines \in Nat BY <1>0, CursorRange
  <1>3. Keeps(t, linefeed(t))
    <2>1. CASE l + 1 = t.region.end BY <1>1, <2>1, ScrollsKeep DEF linefeed
    <2>2. CASE l + 1 # t.region.end /\ l + 1 < t.lines
      <3>1. PICK n \in 0..(t.lines - 1) : n = l + 1 BY <1>1, <1>2, <2>2
      <3>2. linefeed(t) = damage_cursor(MoveTo(damage_cursor(t), n, c)) BY <1>1, <2>2, <3>1 DEF linefeed
      <3>3. Jump(t, linefeed(t)) BY <1>0, <3>2, JumpTo
      <3>. QED BY <3>3, JumpKeeps
    <2>3. CASE l + 1 # t.region.end /\ ~(l + 1 < t.lines) BY <1>1, <2>3, KeepsSame DEF linefeed
    <2>. QED BY <2>1, <2>2, <2>3
  <1>4. Keeps(t, newline(t))
    <2>1. PICK s : s = linefeed(t) OBVIOUS
    <2>2. TermOK(s) BY <1>3, <2>1 DEF Keeps
    <2>3. Keeps(s, carriage_return(s)) BY <2>2, ForwardJump, JumpKeeps DEF TermOK
    <2>4. newline(t) = s \/ newline(t) = carriage_return(s) BY <2>1 DEF newline
    <2>. QED BY <1>3, <2>1, <2>3, <2>4, KeepsTrans
  <1>5. Keeps(t, reverse_index(t))
    <2>1. CASE l = t.region.start BY <1>1, <2>1, ScrollsKeep DEF reverse_index
    <2>2. CASE l # t.region.start
      <3>1. PICK n \in 0..(t.lines - 1) : n = MaxOf(l - 1, 0)
        <4>1. MaxOf(l - 1, 0) \in 0..(t.lines - 1) BY <1>1, <1>2 DEF MaxOf
        <4>. QED BY <4>1
      <3>2. reverse_index(t) = damage_cursor(MoveTo(damage_cursor(t), n, c))
        BY <1>1, <2>2, <3>1 DEF reverse_index
      <3>3. Jump(t, reverse_index(t)) BY <1>0, <3>2, JumpTo
      <3>. QED BY <3>3, JumpKeeps
    <2>. QED BY <2>1, <2>2
  <1>. QED BY <1>3, <1>4, <1>5

-----------------------------------------------------------------------------
(* Writing *)

(* s is t with these columns of the line of the cursor written or smudged. *)
Written(t, s, line, left, right) ==
    /\ SameElsewhere(t, s) /\ s.grid = t.grid /\ s.damage = t.damage
    /\ s.since = "written" =>
         \/ t.since = "written"
         \/ t.cell.line = line /\ left <= t.cell.col /\ t.cell.col <= right

(* Writing changes what is known of the watched cell, and nothing else. *)
LEMMA WriteLaw ==
    ASSUME NEW t, GeometryOK(t), NEW line, NEW left \in Int, NEW right \in Int
    PROVE  Written(t, Write(t, line, left, right), line, left, right)
  <1>1. PICK p \in Int : p = t.cell.col BY DEF GeometryOK, PointOK
  <1>2. t.cell.col \in left..right => left <= t.cell.col /\ t.cell.col <= right BY <1>1
  <1>. QED BY <1>2 DEF Written, Write, SameElsewhere, GeometryOK, ScreenOK, TermFields

(* So does smudging it, which is no writing. *)
LEMMA SmudgeLaw ==
    ASSUME NEW t, GeometryOK(t), NEW line, NEW col
    PROVE  LET s == Smudge(t, line, col)
           IN  /\ SameElsewhere(t, s) /\ s.grid = t.grid /\ s.damage = t.damage
               /\ s.since = "written" => t.since = "written"
  BY DEF Smudge, SameElsewhere, GeometryOK, ScreenOK, TermFields

(* write_at_cursor writes to the cell of the cursor, and to those around it where a
   wide character is overwritten. *)
LEMMA WriteAtCursorLaw ==
    ASSUME NEW t, GeometryOK(t), NEW under
    PROVE  Written(t, write_at_cursor(t, under), t.grid.cursor.line, t.grid.cursor.col, t.grid.cursor.col)
  <1>1. PICK l, c \in Int : l = t.grid.cursor.line /\ c = t.grid.cursor.col BY CursorRange
  <1>2. PICK s : s = Write(t, l, c, c) OBVIOUS
  <1>3. Written(t, s, l, c, c) BY <1>1, <1>2, WriteLaw
  <1>4. GeometryOK(s) BY <1>3 DEF Written, SameElsewhere, GeometryOK
  <1>5. write_at_cursor(t, under) = s \/ \E line, col : write_at_cursor(t, under) = Smudge(s, line, col)
    BY <1>1, <1>2 DEF write_at_cursor
  <1>6. ASSUME NEW line, NEW col PROVE Written(t, Smudge(s, line, col), l, c, c)
    <2>1. PICK u : u = Smudge(s, line, col) OBVIOUS
    <2>2. /\ SameElsewhere(s, u) /\ u.grid = s.grid /\ u.damage = s.damage
          /\ u.since = "written" => s.since = "written"
      BY <1>4, <2>1, SmudgeLaw
    <2>3. SameElsewhere(t, u) BY <1>3, <2>2, SameTrans DEF Written
    <2>. QED BY <1>3, <2>1, <2>2, <2>3 DEF Written
  <1>. QED BY <1>1, <1>3, <1>5, <1>6

(* Damage includes itself. *)
LEMMA SameWider ==
    ASSUME NEW cols, NEW lines \in Nat, NEW d, DamageOK(d, cols, lines)
    PROVE  Wider(d, d, lines)
  BY DEF Wider, DamageOK

(* What is written to the cell of the cursor, and in insert mode what is written anywhere. *)
LEMMA WrittenKeeps ==
    ASSUME NEW t, TermOK(t), NEW s, NEW line, NEW left \in Int, NEW right \in Int,
           Written(t, s, line, left, right),
           \/ "INSERT" \in t.mode
           \/ line = t.grid.cursor.line /\ left = t.grid.cursor.col /\ right = t.grid.cursor.col
    PROVE  Keeps(t, s)
  <1>1. GeometryOK(t) BY DEF TermOK
  <1>2. PICK c \in Int : c = t.grid.cursor.col /\ CursorOK(t.grid.cursor, t.cols, t.lines)
                         /\ DamageOK(t.damage, t.cols, t.lines) /\ t.lines \in Nat
    BY <1>1, CursorRange
  <1>3. Rightward(t, s) BY <1>2 DEF Written, Rightward
  <1>4. Wider(t.damage, s.damage, t.lines) BY <1>2, SameWider DEF Written
  <1>5. s.since = "written" => t.since = "written" \/ Passed(t, s) \/ "INSERT" \in t.mode
    BY <1>2, <1>3 DEF Written, Passed
  <1>6. Traced(t, s) BY <1>2, <1>3, <1>4, <1>5 DEF Traced, Written
  <1>. QED BY <1>6, TracedKeeps

(* The cursor goes right. *)
LEMMA RightKeeps ==
    ASSUME NEW t, TermOK(t), NEW s, NEW line, NEW col \in 0..(t.cols - 1),
           Placed(t, s, line, col), line = t.grid.cursor.line, t.grid.cursor.col <= col
    PROVE  Keeps(t, s)
  <1>1. GeometryOK(t) BY DEF TermOK
  <1>2. line \in 0..(t.lines - 1) /\ DamageOK(t.damage, t.cols, t.lines) /\ t.lines \in Nat
    BY <1>1, CursorRange
  <1>3. CursorOK(s.grid.cursor, t.cols, t.lines) BY <1>1, <1>2, PlacedOK
  <1>4. Wider(t.damage, s.damage, t.lines) BY <1>2, SameWider DEF Placed
  <1>5. Traced(t, s) BY <1>2, <1>3, <1>4 DEF Traced, Placed, Rightward
  <1>. QED BY <1>5, TracedKeeps

(* The flag for the pending wrap. *)
LEMMA WrapLaw ==
    ASSUME NEW t, GeometryOK(t)
    PROVE  Placed(t, [t EXCEPT !.grid.cursor.wrap = TRUE], t.grid.cursor.line, t.grid.cursor.col)
  BY DEF GeometryOK, ScreenOK, CursorOK, Placed, SameElsewhere, TermFields, ScreenFields, CursorFields

(* After a character the cursor goes right, or stays at the end with a wrap pending. *)
LEMMA AdvanceKeeps ==
    ASSUME NEW t, TermOK(t)
    PROVE  /\ Keeps(t, Advance(t)) /\ Keeps(t, [t EXCEPT !.grid.cursor.wrap = TRUE])
           /\ t.grid.cursor.col + 1 < t.cols => Keeps(t, MoveToCol(t, t.grid.cursor.col + 1))
  <1>1. GeometryOK(t) BY DEF TermOK
  <1>2. PICK l \in 0..(t.lines - 1), c \in 0..(t.cols - 1) :
          l = t.grid.cursor.line /\ c = t.grid.cursor.col /\ t.cols \in Nat
    BY <1>1, CursorRange
  <1>3. Keeps(t, [t EXCEPT !.grid.cursor.wrap = TRUE])
    <2>1. c <= c BY <1>2
    <2>. QED BY <1>1, <1>2, <2>1, WrapLaw, RightKeeps
  <1>4. ASSUME c + 1 < t.cols PROVE Keeps(t, MoveToCol(t, c + 1))
    <2>1. PICK n \in 0..(t.cols - 1) : n = c + 1 /\ c <= n
      <3>1. c + 1 \in 0..(t.cols - 1) /\ c <= c + 1 BY <1>2, <1>4
      <3>. QED BY <3>1
    <2>2. Placed(t, MoveToCol(t, n), t.grid.cursor.line, n) BY <1>1, MoveToLaw
    <2>. QED BY <1>2, <2>1, <2>2, RightKeeps
  <1>5. Keeps(t, Advance(t)) BY <1>2, <1>3, <1>4 DEF Advance
  <1>. QED BY <1>2, <1>3, <1>4, <1>5

(* The wrap damages the cell it leaves, or has linefeed do so or redraw the screen. On
   a bottom line that does not scroll linefeed does nothing: the watched cell must not
   be on that line. *)
LEMMA WraplineKeeps ==
    ASSUME NEW t, TermOK(t)
    PROVE  /\ Keeps(t, wrapline(t))
           /\ Has(t, "LINE_WRAP") => wrapline(t).grid.cursor.col = 0
  <1>0. GeometryOK(t) BY DEF TermOK
  <1>1. PICK l \in 0..(t.lines - 1), c \in 0..(t.cols - 1) : l = t.grid.cursor.line /\ c = t.grid.cursor.col
    BY <1>0, CursorRange
  <1>2. t.lines \in Nat \ {0} /\ t.cols \in Nat \ {0} /\ t.region.end \in Nat /\ t.region.end <= t.lines
    BY <1>0, CursorRange
  <1>3. CASE ~Has(t, "LINE_WRAP") BY <1>3, KeepsSame DEF wrapline
  <1>4. CASE Has(t, "LINE_WRAP")
    <2>1. CASE l + 1 >= t.region.end
      <3>1. PICK s : s = linefeed(t) OBVIOUS
      <3>2. Keeps(t, s) BY <3>1, LinefeedKeeps
      <3>3. TermOK(s) /\ GeometryOK(s) BY <3>2 DEF Keeps, TermOK
      <3>. PICK m, n, d : m = MoveToCol(s, 0) /\ n = NoWrap(m) /\ d = damage_cursor(n) OBVIOUS
      <3>4. wrapline(t) = d BY <1>1, <1>4, <2>1, <3>1 DEF wrapline
      <3>. PICK k : k = s.grid.cursor.line OBVIOUS
      <3>5. k \in 0..(s.lines - 1) /\ 0 \in 0..(s.cols - 1) BY <3>3, CursorRange
      <3>6. Placed(s, m, k, 0) /\ GeometryOK(m) BY <3>3, <3>5, MoveToLaw, PlacedOK
      <3>7. Placed(m, n, k, 0) BY <3>6, MoveToLaw DEF Placed
      <3>8. SameElsewhere(s, n) BY <3>6, <3>7, SameTrans DEF Placed
      <3>9. Placed(s, n, k, 0) BY <3>6, <3>7, <3>8 DEF Placed
      <3>10. GeometryOK(n) /\ CursorOK(n.grid.cursor, s.cols, s.lines) BY <3>3, <3>5, <3>9, PlacedOK
      <3>11. /\ SameElsewhere(n, d) /\ d.grid = n.grid /\ d.since = n.since
             /\ DamageOK(d.damage, n.cols, n.lines) /\ GeometryOK(d)
             /\ Wider(n.damage, d.damage, n.lines)
             /\ Includes(d.damage, k, 0, 0)
        BY <3>9, <3>10, DamageCursorLaw DEF Placed
      <3>12. SameElsewhere(s, d) BY <3>8, <3>11, SameTrans
      <3>13. /\ TermOK(d) /\ d.grid.cursor.col = 0 /\ d.grid.cursor.line = k /\ d.since = s.since
             /\ Wider(s.damage, d.damage, s.lines)
        BY <3>3, <3>9, <3>11, <3>12 DEF TermOK, ModesOK, StacksOK, TitlesOK, SameElsewhere, Placed
      <3>14. SameScreen(s, d) /\ (s.damage.full => d.damage.full)
        BY <3>12, <3>13 DEF LineScrolls, SameScreen, SameElsewhere, Wider
      <3>15. CASE l + 1 = t.region.end
        <4>1. s = scroll_up(t, 1) BY <1>1, <3>1, <3>15 DEF linefeed
        <4>2. s.damage.full BY <4>1, ScrollsKeep
        <4>3. Keeps(s, d) BY <3>13, <3>14, <4>2 DEF Keeps, Shown, Redrawn
        <4>. QED BY <3>2, <3>4, <3>13, <4>3, KeepsTrans
      <3>16. CASE l + 1 # t.region.end /\ l + 1 < t.lines
        <4>1. PICK next \in 0..(t.lines - 1) : next = l + 1 BY <1>1, <1>2, <3>16
        <4>2. s = damage_cursor(MoveTo(damage_cursor(t), next, c)) BY <1>1, <3>1, <3>16, <4>1 DEF linefeed
        <4>3. Jump(t, s) BY <1>0, <4>2, JumpTo
        <4>4. PICK j \in Int : j = s.grid.cursor.col BY <3>3, CursorRange
        <4>5. Includes(s.damage, k, j, j) /\ s.lines \in Nat
          BY <3>3, <4>3, <4>4, CursorRange DEF Jump
        <4>6. DamageOK(s.damage, s.cols, s.lines) /\ DamageOK(d.damage, s.cols, s.lines)
          BY <3>3, <3>11, <3>12, CursorRange DEF SameElsewhere, GeometryOK
        <4>7. Includes(d.damage, k, j, j) BY <3>5, <3>13, <4>5, <4>6, IncludesWider
        <4>8. CursorOK(d.grid.cursor, s.cols, s.lines) BY <3>10, <3>11
        <4>9. Traced(s, d) BY <3>11, <3>12, <3>13, <4>4, <4>6, <4>7, <4>8 DEF Traced, DamagedAt
        <4>10. Keeps(s, d) BY <3>3, <4>9, TracedKeeps
        <4>. QED BY <3>2, <3>4, <3>13, <4>10, KeepsTrans
      <3>17. CASE l + 1 # t.region.end /\ ~(l + 1 < t.lines)
        <4>1. s = t BY <1>1, <3>1, <3>17 DEF linefeed
        <4>2. LineScrolls(t) => t.cell.line # l BY <1>1, <1>2, <2>1, <3>17 DEF LineScrolls
        <4>3. t.cell.line \in 0..(t.lines - 1) /\ d.cell = t.cell /\ d.mode = t.mode
              /\ d.damage.last = t.damage.last /\ k = l
          BY <1>0, <1>1, <3>12, <3>13, <4>1 DEF GeometryOK, PointOK, SameElsewhere, Wider
        <4>4. PICK i \in 0..(t.lines - 1) : i = t.cell.line BY <4>3
        <4>5. /\ d.damage.lines[i].left \in Int /\ d.damage.lines[i].right \in Int
              /\ t.damage.lines[i].left \in Int /\ t.damage.lines[i].right \in Int
              /\ d.damage.lines[i].left <= t.damage.lines[i].left
              /\ t.damage.lines[i].right <= d.damage.lines[i].right
          <5>1. DamageOK(t.damage, t.cols, t.lines) BY <1>0 DEF GeometryOK
          <5>2. DamageOK(d.damage, t.cols, t.lines) BY <3>8, <3>11, <4>1 DEF SameElsewhere
          <5>3. Wider(t.damage, d.damage, t.lines) BY <3>13, <4>1
          <5>. QED BY <5>1, <5>2, <5>3 DEF DamageOK, Wider
        <4>6. t.cell.col \in Int BY <1>0 DEF GeometryOK, PointOK
        <4>7. i # l /\ Enclosed(t) => Enclosed(d)
          BY <1>1, <3>13, <4>3, <4>4, <4>5, <4>6, SMTT(30) DEF Enclosed
        <4>8. LineScrolls(t) /\ Shown(t) => Shown(d)
          <5>1. CASE Redrawn(t) BY <3>14, <4>1, <4>3, <5>1 DEF Shown, Redrawn
          <5>2. CASE ~Redrawn(t)
            BY <1>1, <3>13, <4>1, <4>2, <4>3, <4>4, <4>7, <5>2 DEF Shown
          <5>. QED BY <5>1, <5>2
        <4>9. Keeps(t, d) BY <3>13, <3>14, <4>1, <4>8 DEF Keeps
        <4>. QED BY <3>4, <3>13, <4>9
      <3>. QED BY <3>15, <3>16, <3>17
    <2>2. CASE ~(l + 1 >= t.region.end)
      <3>1. PICK n \in 0..(t.lines - 1) : n = l + 1 BY <1>1, <1>2, <2>2
      <3>2. wrapline(t) = damage_cursor(NoWrap(MoveToCol(MoveTo(damage_cursor(t), n, c), 0)))
        BY <1>1, <1>4, <2>2, <3>1 DEF wrapline
      <3>. PICK a, b, m, k, d : /\ a = damage_cursor(t) /\ b = MoveTo(a, n, c) /\ m = MoveToCol(b, 0)
                                /\ k = NoWrap(m) /\ d = damage_cursor(k)
        OBVIOUS
      <3>3. GeometryOK(a) /\ a.cols = t.cols /\ a.lines = t.lines
        BY <1>0, DamageCursorLaw DEF SameElsewhere
      <3>4. Placed(a, b, n, c) /\ GeometryOK(b) BY <3>3, MoveToLaw, PlacedOK
      <3>5. Placed(b, m, n, 0) BY <3>4, MoveToLaw DEF Placed
      <3>6. SameElsewhere(a, m) BY <3>4, <3>5, SameTrans DEF Placed
      <3>7. Placed(a, m, n, 0) BY <3>4, <3>5, <3>6 DEF Placed
      <3>8. 0 \in 0..(t.cols - 1) BY <1>2
      <3>9. GeometryOK(m) BY <3>3, <3>7, <3>8, PlacedOK
      <3>10. Placed(m, k, n, 0) BY <3>7, <3>9, MoveToLaw DEF Placed
      <3>11. SameElsewhere(a, k) BY <3>6, <3>10, SameTrans DEF Placed
      <3>12. Placed(a, k, n, 0) BY <3>7, <3>10, <3>11 DEF Placed
      <3>13. Jump(t, d) /\ d.grid.cursor.col = 0 BY <1>0, <3>8, <3>12, JumpPlaced
      <3>. QED BY <3>2, <3>13, JumpKeeps
    <2>. QED BY <2>1, <2>2
  <1>. QED BY <1>3, <1>4

(* A combining character is written to a cell the cursor was on. *)
LEMMA InputZerowidthKeeps ==
    ASSUME NEW t, TermOK(t), NEW under
    PROVE  Keeps(t, input_zerowidth(t, under))
  <1>1. PICK line, col : input_zerowidth(t, under) = Smudge(t, line, col) BY DEF input_zerowidth
  <1>2. PICK s : s = Smudge(t, line, col) OBVIOUS
  <1>3. PICK l, c \in Int : l = t.grid.cursor.line /\ c = t.grid.cursor.col BY CursorRange DEF TermOK
  <1>4. Written(t, s, l, c, c) BY <1>2, SmudgeLaw DEF TermOK, Written
  <1>. QED BY <1>1, <1>2, <1>3, <1>4, WrittenKeeps

(* What input does before it writes: the pending wrap, and in insert mode moving the
   cells. *)
LEMMA InputReadyKeeps ==
    ASSUME NEW t, TermOK(t), NEW width \in Nat
    PROVE  Keeps(t, InputReady(t, width))
  <1>1. PICK s : s = IF t.grid.cursor.wrap THEN wrapline(t) ELSE t OBVIOUS
  <1>2. Keeps(t, s) BY <1>1, WraplineKeeps, KeepsSame
  <1>3. TermOK(s) BY <1>2 DEF Keeps
  <1>4. PICK l, c \in Int, n \in Int : l = s.grid.cursor.line /\ c = s.grid.cursor.col /\ n = s.cols - 1
    BY <1>3, CursorRange DEF TermOK
  <1>5. CASE "INSERT" \in s.mode
    <2>1. PICK w : w = Write(s, l, c, n) OBVIOUS
    <2>2. Written(s, w, l, c, n) BY <1>3, <1>4, <2>1, WriteLaw DEF TermOK
    <2>3. Keeps(s, w) BY <1>3, <1>4, <1>5, <2>2, WrittenKeeps
    <2>4. InputReady(t, width) = w \/ InputReady(t, width) = s
      BY <1>1, <1>4, <2>1 DEF InputReady
    <2>. QED BY <1>2, <2>3, <2>4, KeepsTrans
  <1>6. CASE "INSERT" \notin s.mode
    <2>1. InputReady(t, width) = s BY <1>1, <1>6 DEF InputReady, Has
    <2>. QED BY <1>2, <2>1
  <1>. QED BY <1>5, <1>6

(* Writing at the cursor keeps what is shown. *)
LEMMA WriteAtCursorKeeps ==
    ASSUME NEW t, TermOK(t), NEW under
    PROVE  Keeps(t, write_at_cursor(t, under)) /\ write_at_cursor(t, under).grid = t.grid
  <1>1. PICK l, c \in Int : l = t.grid.cursor.line /\ c = t.grid.cursor.col BY CursorRange DEF TermOK
  <1>2. Written(t, write_at_cursor(t, under), l, c, c) BY <1>1, WriteAtCursorLaw DEF TermOK
  <1>. QED BY <1>1, <1>2, WrittenKeeps DEF Written

(* A character of one column. *)
LEMMA InputNarrowKeeps ==
    ASSUME NEW t, TermOK(t), NEW under
    PROVE  Keeps(t, input_narrow(t, under))
  <1>. PICK a, b : a = InputReady(t, 1) /\ b = write_at_cursor(a, under) OBVIOUS
  <1>1. Keeps(t, a) BY InputReadyKeeps
  <1>2. Keeps(a, b) BY <1>1, WriteAtCursorKeeps DEF Keeps
  <1>3. Keeps(b, Advance(b)) BY <1>2, AdvanceKeeps DEF Keeps
  <1>4. Keeps(t, Advance(b)) BY <1>1, <1>2, <1>3, KeepsTrans
  <1>. QED BY <1>4 DEF input_narrow

(* A wide character needs two columns. *)
LEMMA InputWideKeeps ==
    ASSUME NEW t, TermOK(t), t.cols >= 2, NEW under
    PROVE  Keeps(t, input_wide(t, under))
  <1>. DEFINE Fits(s) == s.grid.cursor.col + 1 < s.cols
              Spacer(s) == write_at_cursor(MoveToCol(s, s.grid.cursor.col + 1), under)
              Both(s) == Advance(Spacer(write_at_cursor(s, under)))
  <1>1. PICK a : a = InputReady(t, 2) OBVIOUS
  <1>2. Keeps(t, a) /\ TermOK(a) /\ a.cols = t.cols BY <1>1, InputReadyKeeps DEF Keeps, SameScreen
  <1>3. ASSUME NEW s, TermOK(s), Fits(s) PROVE Keeps(s, Both(s))
    <2>. PICK p, q, r : /\ p = write_at_cursor(s, under) /\ q = MoveToCol(p, p.grid.cursor.col + 1)
                        /\ r = write_at_cursor(q, under)
      OBVIOUS
    <2>1. Keeps(s, p) /\ TermOK(p) /\ p.cols = s.cols /\ p.grid = s.grid
      BY <1>3, WriteAtCursorKeeps DEF Keeps, SameScreen
    <2>2. p.grid.cursor.col + 1 < p.cols BY <1>3, <2>1
    <2>3. Keeps(p, q) /\ TermOK(q) BY <2>1, <2>2, AdvanceKeeps DEF Keeps
    <2>4. Keeps(q, r) /\ TermOK(r) BY <2>3, WriteAtCursorKeeps DEF Keeps
    <2>5. Keeps(r, Advance(r)) BY <2>4, AdvanceKeeps
    <2>6. Keeps(s, Advance(r)) BY <2>1, <2>3, <2>4, <2>5, KeepsTrans
    <2>. QED BY <2>6
  <1>. HIDE DEF Both
  <1>4. CASE Fits(a)
    <2>1. Keeps(a, Both(a)) BY <1>2, <1>3, <1>4
    <2>2. input_wide(t, under) = Both(a) BY <1>1, <1>4 DEF input_wide, Both
    <2>. QED BY <1>2, <2>1, <2>2, KeepsTrans
  <1>5. CASE ~Fits(a) /\ Has(a, "LINE_WRAP")
    <2>. PICK p, w : p = write_at_cursor(a, under) /\ w = wrapline(p) OBVIOUS
    <2>1. Keeps(a, p) /\ TermOK(p) /\ p.cols = a.cols BY <1>2, WriteAtCursorKeeps DEF Keeps, SameScreen
    <2>2. p.mode = a.mode
      <3>1. Written(a, p, a.grid.cursor.line, a.grid.cursor.col, a.grid.cursor.col)
        BY <1>2, WriteAtCursorLaw DEF TermOK
      <3>. QED BY <3>1 DEF Written, SameElsewhere
    <2>3. Keeps(p, w) /\ w.grid.cursor.col = 0 BY <1>5, <2>1, <2>2, WraplineKeeps DEF Has
    <2>4. TermOK(w) /\ w.cols = t.cols BY <1>2, <2>1, <2>3 DEF Keeps, SameScreen
    <2>5. t.cols \in Nat BY DEF TermOK, GeometryOK
    <2>6. Fits(w) BY <2>3, <2>4, <2>5
    <2>7. Keeps(w, Both(w)) BY <1>3, <2>4, <2>6
    <2>8. input_wide(t, under) = Both(w) BY <1>1, <1>5 DEF input_wide, Both
    <2>. QED BY <1>2, <2>1, <2>3, <2>7, <2>8, KeepsTrans
  <1>6. CASE ~Fits(a) /\ ~Has(a, "LINE_WRAP")
    <2>1. input_wide(t, under) = [a EXCEPT !.grid.cursor.wrap = TRUE] BY <1>1, <1>6 DEF input_wide
    <2>2. Keeps(a, [a EXCEPT !.grid.cursor.wrap = TRUE]) BY <1>2, AdvanceKeeps
    <2>. QED BY <1>2, <2>1, <2>2, KeepsTrans
  <1>. QED BY <1>4, <1>5, <1>6

(* A tabulator, which writes to the cell it leaves if that is blank. *)
LEMMA PutTabKeeps ==
    ASSUME NEW t, TermOK(t), NEW n \in Nat
    PROVE  Keeps(t, put_tab(t, n))
  <1>0. GeometryOK(t) BY DEF TermOK
  <1>1. PICK l \in 0..(t.lines - 1), c \in 0..(t.cols - 1) :
          l = t.grid.cursor.line /\ c = t.grid.cursor.col /\ c \in Int
    BY <1>0, CursorRange
  <1>2. PICK a : a = TabsForward(t, n, c) OBVIOUS
  <1>3. a \in 0..(t.cols - 1) /\ a \in Int /\ c <= a BY <1>0, <1>1, <1>2, TabsRange
  <1>4. CASE t.grid.cursor.wrap BY <1>4, WraplineKeeps DEF put_tab
  <1>5. CASE ~t.grid.cursor.wrap
    <2>. PICK w, s : w = Write(t, l, c, a) /\ s = MoveToCol(w, a) OBVIOUS
    <2>1. put_tab(t, n) = s BY <1>1, <1>2, <1>5 DEF put_tab, TabsForward
    <2>2. Written(t, w, l, c, a) BY <1>0, <1>1, <1>3, WriteLaw
    <2>3. GeometryOK(w) BY <1>0, <2>2 DEF Written, SameElsewhere, GeometryOK
    <2>4. Placed(w, s, l, a) BY <1>1, <2>2, <2>3, MoveToLaw DEF Written
    <2>5. SameElsewhere(t, s) BY <2>2, <2>4, SameTrans DEF Written, Placed
    <2>6. w.cols = t.cols /\ w.lines = t.lines BY <2>2 DEF Written, SameElsewhere
    <2>7. CursorOK(s.grid.cursor, t.cols, t.lines) BY <1>3, <2>3, <2>4, <2>6, PlacedOK
    <2>8. s.damage = t.damage /\ DamageOK(t.damage, t.cols, t.lines) /\ t.lines \in Nat
      BY <1>0, <2>2, <2>4, CursorRange DEF Written, Placed
    <2>9. Wider(t.damage, s.damage, t.lines) BY <2>8, SameWider
    <2>10. Rightward(t, s) BY <1>1, <1>3, <2>4 DEF Rightward, Placed
    <2>11. s.since = "written" => t.since = "written" \/ Passed(t, s)
      BY <1>1, <2>2, <2>4, <2>10 DEF Written, Placed, Passed
    <2>12. Traced(t, s) BY <2>5, <2>7, <2>8, <2>9, <2>10, <2>11 DEF Traced
    <2>. QED BY <2>1, <2>12, TracedKeeps
  <1>. QED BY <1>4, <1>5

-----------------------------------------------------------------------------
(* Erasing *)

(* Columns of the cursor's line are changed, and at least these are damaged. *)
LEMMA EraseTraced ==
    ASSUME NEW t, TermOK(t), NEW line, line = t.grid.cursor.line,
           NEW left \in Int, NEW right \in Int, NEW a \in Int, NEW b \in Int, left <= a, b <= right
    PROVE  Traced(t, Write(damage_line(t, line, left, right), line, a, b))
  <1>. PICK d, s : d = damage_line(t, line, left, right) /\ s = Write(d, line, a, b) OBVIOUS
  <1>0. GeometryOK(t) BY DEF TermOK
  <1>1. line \in 0..(t.lines - 1) /\ t.lines \in Nat BY <1>0, CursorRange
  <1>2. /\ SameElsewhere(t, d) /\ d.grid = t.grid /\ d.since = t.since
        /\ DamageOK(d.damage, t.cols, t.lines) /\ Wider(t.damage, d.damage, t.lines)
        /\ Includes(d.damage, line, left, right) /\ GeometryOK(d)
    BY <1>0, <1>1, DamageLineLaw
  <1>3. Written(d, s, line, a, b) BY <1>2, WriteLaw
  <1>4. SameElsewhere(t, s) BY <1>2, <1>3, SameTrans DEF Written
  <1>5. s.grid = t.grid /\ s.damage = d.damage /\ d.cell = t.cell BY <1>2, <1>3 DEF Written, SameElsewhere
  <1>6. PICK c \in Int : c = t.grid.cursor.col /\ CursorOK(t.grid.cursor, t.cols, t.lines) BY <1>0, CursorRange
  <1>7. Rightward(t, s) BY <1>5, <1>6 DEF Rightward
  <1>8. s.since = "written" => t.since = "written" \/ DamagedAt(s.damage, t.cell)
    <2>1. PICK p \in Int : p = t.cell.col BY <1>0 DEF GeometryOK, PointOK
    <2>2. ASSUME t.cell.line = line, a <= p, p <= b PROVE Includes(d.damage, line, p, p)
      <3>1. left <= p /\ p <= right BY <2>1, <2>2
      <3>. QED BY <1>1, <1>2, <2>1, <3>1, IncludesPart
    <2>. QED BY <1>2, <1>3, <1>5, <2>1, <2>2 DEF Written, DamagedAt
  <1>. QED BY <1>2, <1>4, <1>5, <1>6, <1>7, <1>8 DEF Traced

(* Dropping the selection changes nothing here. *)
LEMMA SelectionTraced ==
    ASSUME NEW t, NEW s, Traced(t, s), NEW sel
    PROVE  Traced(t, [s EXCEPT !.sel = sel])
  BY DEF Traced, SameElsewhere, TermFields, Rightward, Passed

(* insert_blank, delete_chars, erase_chars and clear_line. *)
LEMMA EraseKeeps ==
    ASSUME NEW t, TermOK(t), NEW n \in Nat, NEW mode
    PROVE  /\ Keeps(t, insert_blank(t, n)) /\ Keeps(t, delete_chars(t, n)) /\ Keeps(t, erase_chars(t, n))
           /\ Keeps(t, clear_line(t, mode))
  <1>0. GeometryOK(t) BY DEF TermOK
  <1>1. PICK l, c \in Int, k \in Nat : l = t.grid.cursor.line /\ c = t.grid.cursor.col /\ k = t.cols /\ 0 <= c /\ c < k
    BY <1>0, CursorRange
  <1>2. Keeps(t, insert_blank(t, n))
    <2>1. PICK z \in Int, m \in Int : z = 0 /\ m = k - 1 /\ z <= c /\ m <= m BY <1>1
    <2>2. insert_blank(t, n) = Write(damage_line(t, l, z, m), l, c, m) BY <1>1, <2>1 DEF insert_blank
    <2>. QED BY <1>1, <2>1, <2>2, EraseTraced, TracedKeeps
  <1>3. Keeps(t, delete_chars(t, n))
    <2>1. MinOf(c, SaturatingSub(k, n)) \in Int /\ 0 <= MinOf(c, SaturatingSub(k, n))
      BY <1>1 DEF MinOf, SaturatingSub
    <2>2. PICK z \in Int, m \in Int, a \in Int :
            z = 0 /\ m = k - 1 /\ a = MinOf(c, SaturatingSub(k, n)) /\ z <= a /\ m <= m
      BY <1>1, <2>1
    <2>3. delete_chars(t, n) = Write(damage_line(t, l, z, m), l, a, m) BY <1>1, <2>2 DEF delete_chars
    <2>. QED BY <1>1, <2>2, <2>3, EraseTraced, TracedKeeps
  <1>4. Keeps(t, erase_chars(t, n))
    <2>1. MinOf(c + n, k) \in Int BY <1>1 DEF MinOf
    <2>2. PICK e \in Int, m \in Int : e = MinOf(c + n, k) /\ m = e - 1 /\ m <= e /\ c <= c
      BY <1>1, <2>1
    <2>3. erase_chars(t, n) = Write(damage_line(t, l, c, e), l, c, m) BY <1>1, <2>2 DEF erase_chars
    <2>. QED BY <1>1, <2>2, <2>3, EraseTraced, TracedKeeps
  <1>5. Keeps(t, clear_line(t, mode))
    <2>1. PICK left, right : /\ left = (IF mode = "Right" THEN c ELSE 0)
                             /\ right = (IF mode = "Left" THEN c ELSE k - 1)
      OBVIOUS
    <2>2. left \in Int /\ right \in Int /\ left <= left /\ right <= right BY <1>1, <2>1
    <2>3. PICK s : s = Write(damage_line(t, l, left, right), l, left, right) OBVIOUS
    <2>4. Traced(t, s) BY <1>1, <2>2, <2>3, EraseTraced
    <2>5. clear_line(t, mode) = t \/ \E sel : clear_line(t, mode) = [s EXCEPT !.sel = sel]
      BY <1>1, <2>1, <2>3 DEF clear_line
    <2>6. ASSUME NEW sel PROVE Keeps(t, [s EXCEPT !.sel = sel])
      BY <2>4, SelectionTraced, TracedKeeps
    <2>. QED BY <2>5, <2>6, KeepsSame
  <1>. QED BY <1>2, <1>3, <1>4, <1>5

(* clear_screen in each of its modes. *)
LEMMA ClearScreenKeeps ==
    ASSUME NEW t, TermOK(t), NEW mode \in {"Above", "Below", "All", "Saved"}, NEW used \in Nat
    PROVE  Keeps(t, clear_screen(t, mode, used))
  <1>0. GeometryOK(t) /\ ScreenOK(t.grid, t.cols, t.lines) /\ t.cols \in Nat /\ t.lines \in Nat
    BY DEF TermOK, GeometryOK
  <1>1. ASSUME NEW s, Body(t, s), ScreenOK(s.grid, t.cols, t.lines) PROVE Keeps(t, mark_fully_damaged(s))
    BY <1>1, BodyOK, MarkLaw
  <1>2. CASE mode = "Above"
    <2>1. PICK s, w, sel : /\ w = Write(IF t.grid.cursor.line > 1 THEN WriteLines(t, 0, t.grid.cursor.line - 1) ELSE t,
                                   t.grid.cursor.line, 0, t.grid.cursor.col)
                           /\ s = [w EXCEPT !.sel = sel]
                           /\ clear_screen(t, mode, used) = mark_fully_damaged(s)
      BY <1>2 DEF clear_screen
    <2>2. Body(t, w) /\ w.grid = t.grid
      BY <1>0, <2>1 DEF Body, Write, WriteLines, GeometryOK, TermFields
    <2>3. Body(t, s) /\ s.grid = t.grid BY <2>1, <2>2 DEF Body, TermFields
    <2>. QED BY <1>0, <1>1, <2>1, <2>3
  <1>3. CASE mode = "Below"
    <2>1. PICK s, w, sel : /\ w = WriteLines(Write(t, t.grid.cursor.line, t.grid.cursor.col, t.cols - 1),
                                             t.grid.cursor.line + 1, t.lines - 1)
                           /\ s = [w EXCEPT !.sel = sel]
                           /\ clear_screen(t, mode, used) = mark_fully_damaged(s)
      BY <1>3 DEF clear_screen
    <2>2. Body(t, w) /\ w.grid = t.grid
      BY <1>0, <2>1 DEF Body, Write, WriteLines, GeometryOK, TermFields
    <2>3. Body(t, s) /\ s.grid = t.grid BY <2>1, <2>2 DEF Body, TermFields
    <2>. QED BY <1>0, <1>1, <2>1, <2>3
  <1>4. CASE mode = "All"
    <2>. PICK all, g, s : /\ all = WriteLines(t, 0, t.lines - 1)
                          /\ g = scroll_up_grid(t.grid, 0, t.lines, used) /\ s = [all EXCEPT !.grid = g]
      OBVIOUS
    <2>1. Body(t, all) /\ all.grid = t.grid BY <1>0 DEF Body, WriteLines, GeometryOK, TermFields
    <2>2. ScreenOK(g, t.cols, t.lines)
      <3>1. PICK z \in Int, h \in Int : z = 0 /\ h = t.lines BY <1>0
      <3>2. g = scroll_up_grid(t.grid, z, h, used) BY <3>1
      <3>. QED BY <1>0, <3>2, ScrollUpGrid
    <2>3. CASE Has(t, "ALT_SCREEN")
      <3>0. clear_screen(t, mode, used) = mark_fully_damaged([WriteLines(t, 0, t.lines - 1) EXCEPT !.sel = NoSelection])
        BY <1>4, <2>3 DEF clear_screen
      <3>1. PICK u : u = [all EXCEPT !.sel = NoSelection] /\ clear_screen(t, mode, used) = mark_fully_damaged(u)
        BY <3>0
      <3>2. Body(t, u) /\ u.grid = t.grid BY <2>1, <3>1 DEF Body, TermFields
      <3>. QED BY <1>0, <1>1, <3>1, <3>2
    <2>4. CASE ~Has(t, "ALT_SCREEN")
      <3>1. PICK line, sel, u : /\ u = [s EXCEPT !.vi.line = line, !.sel = sel]
                                /\ clear_screen(t, mode, used) = mark_fully_damaged(u)
        BY <1>4, <2>4 DEF clear_screen
      <3>2. Body(t, u) /\ u.grid = g BY <2>1, <3>1 DEF Body, TermFields
      <3>. QED BY <1>1, <2>2, <3>1, <3>2
    <2>. QED BY <2>3, <2>4
  <1>5. CASE mode = "Saved"
    <2>1. PICK s : s = ClearSaved(t) OBVIOUS
    <2>2. clear_screen(t, mode, used) = mark_fully_damaged(s) BY <1>5, <2>1 DEF clear_screen
    <2>3. Body(t, s) /\ (s.grid = t.grid \/ s.grid = [t.grid EXCEPT !.hist = 0, !.offset = 0])
      <3>1. CASE t.grid.hist = 0 BY <1>0, <2>1, <3>1 DEF ClearSaved, Body, GeometryOK
      <3>2. CASE t.grid.hist # 0
        <4>1. PICK line, sel : s = [t EXCEPT !.grid.hist = 0, !.grid.offset = 0, !.vi.line = line, !.sel = sel]
          BY <2>1, <3>2 DEF ClearSaved
        <4>. QED BY <1>0, <4>1 DEF Body, GeometryOK, TermFields
      <3>. QED BY <3>1, <3>2
    <2>4. ScreenOK(s.grid, t.cols, t.lines)
      <3>1. CASE s.grid = t.grid BY <1>0, <3>1
      <3>2. CASE s.grid = [t.grid EXCEPT !.hist = 0, !.offset = 0]
        <4>. PICK g : g = s.grid OBVIOUS
        <4>1. /\ DOMAIN g = ScreenFields /\ g.hist = 0 /\ g.offset = 0 /\ g.limit = t.grid.limit
              /\ g.cursor = t.grid.cursor /\ g.saved = t.grid.saved
          BY <1>0, <3>2 DEF ScreenOK, ScreenFields
        <4>. QED BY <1>0, <4>1 DEF ScreenOK
      <3>. QED BY <2>3, <3>1, <3>2
    <2>. QED BY <1>1, <2>2, <2>3, <2>4
  <1>. QED BY <1>2, <1>3, <1>4, <1>5

(* decaln writes all lines and redraws the screen. *)
LEMMA DecalnKeeps ==
    ASSUME NEW t, TermOK(t)
    PROVE  Keeps(t, decaln(t))
  <1>1. SameScreen(t, t) BY DEF SameScreen
  <1>. QED BY <1>1, MarkLaw DEF decaln

(* Another region keeps what holds of the terminal. *)
LEMMA RegionKept ==
    ASSUME NEW t, TermOK(t), NEW s, s = [t EXCEPT !.region = s.region], RegionOK(s.region, t.lines)
    PROVE  /\ TermOK(s) /\ s.cols = t.cols /\ s.lines = t.lines /\ s.damage = t.damage
           /\ s.cell = t.cell /\ s.grid = t.grid /\ s.mode = t.mode /\ s.since = t.since
  <1>1. /\ DOMAIN s = TermFields /\ s.damage = t.damage
        /\ s.cols = t.cols /\ s.lines = t.lines /\ s.inactive = t.inactive /\ s.grid = t.grid
        /\ s.tabs = t.tabs /\ s.cell = t.cell /\ s.mode = t.mode
        /\ s.keyboard = t.keyboard /\ s.inactive_keyboard = t.inactive_keyboard
        /\ s.config = t.config /\ s.titles = t.titles /\ s.title = t.title /\ s.style = t.style
        /\ s.since = t.since
    BY DEF TermOK, GeometryOK, TermFields
  <1>2. GeometryOK(s) BY <1>1 DEF TermOK, GeometryOK
  <1>3. ModesOK(s) BY <1>1 DEF TermOK, ModesOK, StacksOK, TitlesOK
  <1>. QED BY <1>1, <1>2, <1>3 DEF TermOK

(* A new region leaves what is damaged or will be as it is, except where it ends above
   the watched cell on the bottom line, and it is the whole screen if it is asked to be. *)
LEMMA RegionLaw ==
    ASSUME NEW t, TermOK(t), NEW top \in Nat \ {0}, NEW bottom \in Nat
    PROVE  LET s == set_scrolling_region(t, top, bottom)
           IN  /\ TermOK(s) /\ (t.damage.full => s.damage.full)
               /\ s.cols = t.cols /\ s.lines = t.lines /\ s.cell = t.cell
               /\ top = 1 /\ bottom = t.lines => SameScreen(t, s)
               /\ t.cell.line # t.lines - 1 /\ Shown(t) => LineScrolls(s) /\ Shown(s)
  <1>. PICK lines \in Nat : lines = t.lines BY DEF TermOK, GeometryOK
  <1>1. CASE top >= bottom BY <1>1 DEF set_scrolling_region, SameScreen, LineScrolls
  <1>2. CASE ~(top >= bottom)
    <2>. PICK r : r = [start |-> MinOf(top - 1, lines), end |-> MinOf(bottom, lines)] OBVIOUS
    <2>1. RegionOK(r, lines) BY <1>2 DEF RegionOK, MinOf
    <2>2. PICK s : s = [t EXCEPT !.region = r] OBVIOUS
    <2>3. s.region = r BY <2>2 DEF TermOK, GeometryOK, TermFields
    <2>4. s = [t EXCEPT !.region = s.region] BY <2>2, <2>3, Zenon
    <2>5. /\ TermOK(s) /\ s.cols = t.cols /\ s.lines = t.lines /\ s.damage = t.damage
          /\ s.cell = t.cell /\ s.grid = t.grid /\ s.mode = t.mode /\ s.since = t.since
      BY <2>1, <2>3, <2>4, RegionKept
    <2>6. PICK u : u = goto(s, 0, 0) OBVIOUS
    <2>7. Jump(s, u) BY <2>5, <2>6, GotoJump DEF TermOK
    <2>8. Keeps(s, u) BY <2>5, <2>7, JumpKeeps
    <2>9. set_scrolling_region(t, top, bottom) = u BY <1>2, <2>2, <2>6 DEF set_scrolling_region
    <2>10. u.region = r /\ u.lines = t.lines /\ u.cols = t.cols /\ u.cell = t.cell
      BY <2>3, <2>5, <2>7 DEF Jump, SameElsewhere
    <2>11. top = 1 /\ bottom = t.lines => r.end = t.lines BY DEF MinOf
    <2>12. Shown(t) => Shown(s) BY <2>5 DEF Shown, Redrawn, Anchored, Enclosed
    <2>13. t.cell.line # t.lines - 1 => LineScrolls(s) /\ LineScrolls(u) BY <2>5, <2>10 DEF LineScrolls
    <2>14. top = 1 /\ bottom = t.lines => SameScreen(t, u) BY <2>10, <2>11 DEF LineScrolls, SameScreen
    <2>. QED BY <2>5, <2>8, <2>9, <2>10, <2>12, <2>13, <2>14 DEF Keeps
  <1>. QED BY <1>1, <1>2

(* deccolm restores the region and redraws the screen. *)
LEMMA DeccolmKeeps ==
    ASSUME NEW t, TermOK(t)
    PROVE  Keeps(t, deccolm(t))
  <1>. PICK one \in Nat \ {0}, lines \in Nat : one = 1 /\ lines = t.lines BY DEF TermOK, GeometryOK
  <1>. PICK s : s = set_scrolling_region(t, one, lines) OBVIOUS
  <1>1. TermOK(s) /\ SameScreen(t, s) BY RegionLaw
  <1>2. deccolm(t) = mark_fully_damaged(WriteLines(s, 0, t.lines - 1)) BY DEF deccolm
  <1>. QED BY <1>1, <1>2, MarkLaw

-----------------------------------------------------------------------------
(* Cursor state that is kept aside, modes *)

(* s has the screens and the damage of t. *)
Modal(t, s) ==
    /\ DOMAIN s = TermFields
    /\ s.cols = t.cols /\ s.lines = t.lines /\ s.region = t.region /\ s.damage = t.damage
    /\ s.cell = t.cell /\ s.since = t.since /\ s.grid = t.grid /\ s.inactive = t.inactive
    /\ s.tabs = t.tabs

(* Such operations keep what is shown, unless they leave insert mode. *)
LEMMA ModalKeeps ==
    ASSUME NEW t, TermOK(t), NEW s, Modal(t, s), ModesOK(s)
    PROVE  /\ TermOK(s) /\ SameScreen(t, s)
           /\ ("INSERT" \in t.mode => "INSERT" \in s.mode) => Keeps(t, s)
  <1>1. GeometryOK(s) BY DEF TermOK, GeometryOK, Modal
  <1>2. ("INSERT" \in t.mode => "INSERT" \in s.mode) => Aside(t, s) BY DEF Modal, Aside
  <1>. QED BY <1>1, <1>2, AsideKeeps DEF Modal, LineScrolls, SameScreen, TermOK, GeometryOK

(* restore_cursor_position *)
LEMMA RestoreKeeps ==
    ASSUME NEW t, TermOK(t)
    PROVE  Keeps(t, restore_cursor_position(t))
  <1>. PICK a, b : a = damage_cursor(t) /\ b = [a EXCEPT !.grid.cursor = t.grid.saved] OBVIOUS
  <1>0. GeometryOK(t) BY DEF TermOK
  <1>1. PICK l \in 0..(t.lines - 1), c \in 0..(t.cols - 1) : l = t.grid.saved.line /\ c = t.grid.saved.col
    BY <1>0 DEF GeometryOK, ScreenOK, CursorOK
  <1>2. GeometryOK(a) /\ a.grid = t.grid BY <1>0, DamageCursorLaw
  <1>3. b.grid.cursor = t.grid.saved BY <1>2 DEF GeometryOK, ScreenOK, TermFields, ScreenFields
  <1>4. SameElsewhere(a, b) /\ b.damage = a.damage /\ b.since = a.since
    BY <1>2 DEF GeometryOK, ScreenOK, TermFields, ScreenFields, SameElsewhere
  <1>5. Placed(a, b, l, c)
    BY <1>0, <1>1, <1>3, <1>4 DEF Placed, GeometryOK, ScreenOK, CursorOK
  <1>6. Jump(t, damage_cursor(b)) BY <1>0, <1>5, JumpPlaced
  <1>. QED BY <1>6, JumpKeeps DEF restore_cursor_position

(* and save_cursor_position. *)
LEMMA SaveKeeps ==
    ASSUME NEW t, TermOK(t)
    PROVE  Keeps(t, save_cursor_position(t))
  <1>. PICK s : s = save_cursor_position(t) OBVIOUS
  <1>1. /\ Aside(t, s) /\ s.mode = t.mode /\ s.tabs = t.tabs /\ s.inactive = t.inactive
        /\ s.keyboard = t.keyboard /\ s.inactive_keyboard = t.inactive_keyboard
        /\ s.config = t.config /\ s.titles = t.titles /\ s.title = t.title /\ s.style = t.style
        /\ s.grid = [t.grid EXCEPT !.saved = t.grid.cursor]
    BY DEF save_cursor_position, Aside, TermOK, GeometryOK, TermFields, ScreenOK, ScreenFields
  <1>2. ScreenOK(s.grid, t.cols, t.lines) BY <1>1 DEF TermOK, GeometryOK, ScreenOK, ScreenFields
  <1>3. ModesOK(s) BY <1>1 DEF TermOK, ModesOK, StacksOK, TitlesOK
  <1>4. ScreenOK(s.inactive, t.cols, t.lines) /\ s.tabs \subseteq 0..(t.cols - 1)
    BY <1>1 DEF TermOK, GeometryOK
  <1>. QED BY <1>1, <1>2, <1>3, <1>4, AsideKeeps

(* Tab stops are set at the cursor and cleared. *)
LEMMA TabstopsKeep ==
    ASSUME NEW t, TermOK(t), NEW mode
    PROVE  Keeps(t, set_horizontal_tabstop(t)) /\ Keeps(t, clear_tabs(t, mode))
  <1>1. ASSUME NEW tabs, tabs \subseteq 0..(t.cols - 1) PROVE Keeps(t, [t EXCEPT !.tabs = tabs])
    <2>. PICK s : s = [t EXCEPT !.tabs = tabs] OBVIOUS
    <2>1. /\ Aside(t, s) /\ s.mode = t.mode /\ s.tabs = tabs /\ s.inactive = t.inactive /\ s.grid = t.grid
          /\ s.keyboard = t.keyboard /\ s.inactive_keyboard = t.inactive_keyboard
          /\ s.config = t.config /\ s.titles = t.titles /\ s.title = t.title /\ s.style = t.style
      BY DEF Aside, TermOK, GeometryOK, TermFields
    <2>2. ModesOK(s) BY <2>1 DEF TermOK, ModesOK, StacksOK, TitlesOK
    <2>. QED BY <1>1, <2>1, <2>2, AsideKeeps DEF TermOK, GeometryOK
  <1>2. t.tabs \subseteq 0..(t.cols - 1) /\ t.grid.cursor.col \in 0..(t.cols - 1)
    BY DEF TermOK, GeometryOK, ScreenOK, CursorOK
  <1>3. PICK a : a = t.tabs \cup {t.grid.cursor.col} OBVIOUS
  <1>4. PICK b : b = IF mode = "Current" THEN t.tabs \ {t.grid.cursor.col} ELSE {} OBVIOUS
  <1>5. a \subseteq 0..(t.cols - 1) BY <1>2, <1>3
  <1>6. b \subseteq 0..(t.cols - 1) BY <1>2, <1>4
  <1>. QED BY <1>1, <1>3, <1>4, <1>5, <1>6 DEF set_horizontal_tabstop, clear_tabs

(* The set of modes is replaced by another consistent one. *)
LEMMA ModeLaw ==
    ASSUME NEW t, TermOK(t), NEW n, MouseModesOK(n), n \cap KITTY_KEYBOARD_PROTOCOL \subseteq t.mode,
           NEW s, s = [t EXCEPT !.mode = n]
    PROVE  /\ TermOK(s) /\ SameScreen(t, s) /\ s.mode = n
           /\ ("INSERT" \in t.mode => "INSERT" \in n) => Keeps(t, s)
  <1>1. /\ Modal(t, s) /\ s.mode = n
        /\ s.keyboard = t.keyboard /\ s.inactive_keyboard = t.inactive_keyboard
        /\ s.config = t.config /\ s.titles = t.titles /\ s.title = t.title /\ s.style = t.style
    BY DEF Modal, TermOK, GeometryOK, TermFields
  <1>2. StacksOK(s) BY <1>1 DEF TermOK, ModesOK, StacksOK
  <1>3. ModesOK(s) BY <1>1, <1>2 DEF TermOK, ModesOK, TitlesOK
  <1>. QED BY <1>1, <1>3, ModalKeeps

(* The modes of which some exclude each other. *)
MouseModes == MOUSE_MODE \cup {"SGR_MOUSE", "UTF8_MOUSE"}

(* A flag that is no mouse mode is set, or any flag is taken back. *)
LEMMA FlagLaw ==
    ASSUME NEW t, TermOK(t), NEW flag
    PROVE  /\ flag \notin MouseModes \cup KITTY_KEYBOARD_PROTOCOL =>
                Keeps(t, With(t, flag)) /\ With(t, flag).mode = t.mode \cup {flag}
           /\ TermOK(Without(t, flag)) /\ SameScreen(t, Without(t, flag))
           /\ Without(t, flag).mode = t.mode \ {flag}
           /\ flag # "INSERT" => Keeps(t, Without(t, flag))
  <1>0. MouseModesOK(t.mode) BY DEF TermOK, ModesOK
  <1>1. ASSUME flag \notin MouseModes \cup KITTY_KEYBOARD_PROTOCOL
        PROVE  Keeps(t, With(t, flag)) /\ With(t, flag).mode = t.mode \cup {flag}
    <2>1. PICK n : n = t.mode \cup {flag} OBVIOUS
    <2>2. MouseModesOK(n) BY <1>0, <1>1, <2>1 DEF MouseModesOK, AtMostOneOf, MouseModes
    <2>3. n \cap KITTY_KEYBOARD_PROTOCOL \subseteq t.mode BY <1>1, <2>1
    <2>. QED BY <2>1, <2>2, <2>3, ModeLaw DEF With
  <1>2. PICK n : n = t.mode \ {flag} OBVIOUS
  <1>3. MouseModesOK(n) BY <1>0, <1>2 DEF MouseModesOK, AtMostOneOf
  <1>4. n \cap KITTY_KEYBOARD_PROTOCOL \subseteq t.mode BY <1>2
  <1>. QED BY <1>1, <1>2, <1>3, <1>4, ModeLaw DEF Without

(* The private modes that set a flag and do nothing else, *)
PlainModes ==
    {"UrgencyHints", "ShowCursor", "CursorKeys", "ReportFocusInOut", "BracketedPaste",
     "AlternateScroll", "LineWrap"}
(* and those that choose a mouse protocol. *)
MouseReports == {"ReportMouseClicks", "ReportCellMouseMotion", "ReportAllMouseMotion"}

(* The flags of the private modes. *)
LEMMA ModeOfLaw ==
    /\ \A mode \in PlainModes : ModeOf[mode] \notin MouseModes \cup KITTY_KEYBOARD_PROTOCOL
    /\ \A mode \in MouseReports : ModeOf[mode] \in MOUSE_MODE
    /\ \A mode \in DOMAIN ModeOf : ModeOf[mode] # "INSERT"
    /\ ModeOf["Origin"] = "ORIGIN" /\ ModeOf["SgrMouse"] = "SGR_MOUSE" /\ ModeOf["Utf8Mouse"] = "UTF8_MOUSE"
    /\ ModeOf["SwapScreenAndSetRestoreCursor"] = "ALT_SCREEN"
    /\ DOMAIN ModeOf = PlainModes \cup MouseReports \cup
                       {"SgrMouse", "Utf8Mouse", "Origin", "SwapScreenAndSetRestoreCursor"}
  BY DEF ModeOf, PlainModes, MouseReports, MouseModes, MOUSE_MODE, KITTY_KEYBOARD_PROTOCOL

(* A mouse protocol takes the place of any other. *)
LEMMA MouseReportKeeps ==
    ASSUME NEW t, TermOK(t), NEW flag \in MOUSE_MODE
    PROVE  /\ Keeps(t, With([t EXCEPT !.mode = t.mode \ MOUSE_MODE], flag))
           /\ flag \in With([t EXCEPT !.mode = t.mode \ MOUSE_MODE], flag).mode
  <1>. PICK n, s, u : /\ n = t.mode \ MOUSE_MODE /\ s = [t EXCEPT !.mode = n] /\ u = With(s, flag) OBVIOUS
  <1>0. MouseModesOK(t.mode) BY DEF TermOK, ModesOK
  <1>1. MouseModesOK(n) BY <1>0 DEF MouseModesOK, AtMostOneOf, MOUSE_MODE
  <1>2. Keeps(t, s) /\ s.mode = n
    <2>1. n \cap KITTY_KEYBOARD_PROTOCOL \subseteq t.mode OBVIOUS
    <2>2. "INSERT" \in t.mode => "INSERT" \in n BY DEF MOUSE_MODE
    <2>. QED BY <1>1, <2>1, <2>2, ModeLaw
  <1>3. PICK m : m = n \cup {flag} OBVIOUS
  <1>4. MouseModesOK(m) BY <1>1, <1>3 DEF MouseModesOK, AtMostOneOf, MOUSE_MODE
  <1>5. Keeps(s, u) /\ u.mode = m
    <2>1. m \cap KITTY_KEYBOARD_PROTOCOL \subseteq s.mode
      BY <1>2, <1>3 DEF MOUSE_MODE, KITTY_KEYBOARD_PROTOCOL
    <2>2. u = [s EXCEPT !.mode = m] BY <1>2, <1>3 DEF With
    <2>3. TermOK(s) /\ ("INSERT" \in s.mode => "INSERT" \in m) BY <1>2, <1>3 DEF Keeps
    <2>4. Keeps(s, u) BY <1>4, <2>1, <2>2, <2>3, ModeLaw
    <2>5. u.mode = m BY <2>2, <2>3 DEF TermOK, GeometryOK, TermFields
    <2>. QED BY <2>4, <2>5
  <1>. QED BY <1>2, <1>3, <1>5, KeepsTrans

(* Of the two mouse encodings, one takes the place of the other. *)
LEMMA EncodingKeeps ==
    ASSUME NEW t, TermOK(t), NEW flag, NEW other, {flag, other} = {"SGR_MOUSE", "UTF8_MOUSE"}
    PROVE  /\ Keeps(t, With(Without(t, other), flag))
           /\ flag \in With(Without(t, other), flag).mode
  <1>. PICK s, u : s = Without(t, other) /\ u = With(s, flag) OBVIOUS
  <1>1. Keeps(t, s) /\ s.mode = t.mode \ {other} BY FlagLaw
  <1>2. MouseModesOK(s.mode) BY <1>1 DEF Keeps, TermOK, ModesOK
  <1>3. PICK m : m = s.mode \cup {flag} OBVIOUS
  <1>4. MouseModesOK(m) BY <1>1, <1>2, <1>3 DEF MouseModesOK, AtMostOneOf, MOUSE_MODE
  <1>5. m \cap KITTY_KEYBOARD_PROTOCOL \subseteq s.mode BY <1>3 DEF KITTY_KEYBOARD_PROTOCOL
  <1>6. Keeps(s, u) /\ u.mode = m BY <1>1, <1>3, <1>4, <1>5, ModeLaw DEF Keeps, With
  <1>. QED BY <1>1, <1>3, <1>6, KeepsTrans

(* Another cursor style. *)
LEMMA StyleKeeps ==
    ASSUME NEW t, TermOK(t), NEW style, StyleOK(style), NEW s, s = [t EXCEPT !.style = style]
    PROVE  Keeps(t, s) /\ s.mode = t.mode
  <1>1. /\ Modal(t, s) /\ s.mode = t.mode /\ s.style = style
        /\ s.keyboard = t.keyboard /\ s.inactive_keyboard = t.inactive_keyboard
        /\ s.config = t.config /\ s.titles = t.titles /\ s.title = t.title
    BY DEF Modal, TermOK, GeometryOK, TermFields
  <1>2. ModesOK(s) BY <1>1 DEF TermOK, ModesOK, StacksOK, TitlesOK
  <1>. QED BY <1>1, <1>2, ModalKeeps

(* The style is a style, the default one included. *)
LEMMA StyleOfLaw ==
    ASSUME NEW t, TermOK(t)
    PROVE  DOMAIN StyleOf(t) = {"shape", "blinking"}
  <1>1. CASE t.style = {} BY <1>1 DEF StyleOf, DEFAULT_STYLE
  <1>2. CASE t.style # {}
    <2>1. StyleOf(t) = CHOOSE s \in t.style : TRUE BY <1>2 DEF StyleOf
    <2>2. StyleOf(t) \in t.style BY <1>2, <2>1
    <2>. QED BY <2>2 DEF TermOK, ModesOK, StyleOK
  <1>. QED BY <1>1, <1>2

(* The operations that set the cursor style. *)
LEMMA StylesKeep ==
    ASSUME NEW t, TermOK(t), NEW on, NEW shape
    PROVE  /\ Keeps(t, SetBlinking(t, on)) /\ SetBlinking(t, on).style = {[StyleOf(t) EXCEPT !.blinking = on]}
           /\ SetBlinking(t, on).mode = t.mode
           /\ Keeps(t, ReportBlinking(t)) /\ Keeps(t, set_cursor_style(t, {}))
           /\ Keeps(t, set_cursor_shape(t, shape))
  <1>1. DOMAIN t = TermFields BY DEF TermOK, GeometryOK
  <1>2. PICK a, b, c : /\ a = {[StyleOf(t) EXCEPT !.blinking = on]} /\ b = {[StyleOf(t) EXCEPT !.shape = shape]}
                       /\ c = {StyleOf(t)}
    OBVIOUS
  <1>3. StyleOK(a) /\ StyleOK(b) /\ StyleOK(c) /\ StyleOK({}) BY <1>2, StyleOfLaw DEF StyleOK
  <1>4. Keeps(t, SetBlinking(t, on)) /\ SetBlinking(t, on).mode = t.mode
    BY <1>2, <1>3, StyleKeeps DEF SetBlinking
  <1>5. SetBlinking(t, on).style = a BY <1>1, <1>2 DEF SetBlinking, TermFields
  <1>6. Keeps(t, ReportBlinking(t)) /\ Keeps(t, set_cursor_style(t, {})) /\ Keeps(t, set_cursor_shape(t, shape))
    BY <1>2, <1>3, StyleKeeps DEF ReportBlinking, set_cursor_style, set_cursor_shape
  <1>. QED BY <1>2, <1>4, <1>5, <1>6

(* The private modes that do not swap the screens. *)
LEMMA PrivateModesKeep ==
    ASSUME NEW t, TermOK(t), NEW mode \in PrivateModes \ {"SwapScreenAndSetRestoreCursor"}
    PROVE  Keeps(t, set_private_mode(t, mode)) /\ Keeps(t, unset_private_mode(t, mode))
  <1>0. mode \in PlainModes \cup MouseReports \cup {"SgrMouse", "Utf8Mouse", "Origin"}
                 \cup {"ColumnMode", "BlinkingCursor", "SyncUpdate", "Unknown"}
    BY ModeOfLaw DEF PrivateModes
  <1>1. Keeps(t, set_private_mode(t, mode))
    <2>1. CASE mode \in PlainModes
      <3>1. set_private_mode(t, mode) = With(t, ModeOf[mode]) BY <2>1 DEF set_private_mode, PlainModes
      <3>. QED BY <2>1, <3>1, ModeOfLaw, FlagLaw
    <2>2. CASE mode \in MouseReports
      <3>1. set_private_mode(t, mode) = With([t EXCEPT !.mode = t.mode \ MOUSE_MODE], ModeOf[mode])
        BY <2>2 DEF set_private_mode, MouseReports
      <3>. QED BY <2>2, <3>1, ModeOfLaw, MouseReportKeeps
    <2>3. CASE mode = "SgrMouse" BY <2>3, EncodingKeeps DEF set_private_mode
    <2>4. CASE mode = "Utf8Mouse" BY <2>4, EncodingKeeps DEF set_private_mode
    <2>5. CASE mode = "Origin"
      <3>. PICK s : s = With(t, "ORIGIN") OBVIOUS
      <3>. PICK z \in Nat : z = 0 OBVIOUS
      <3>1. set_private_mode(t, mode) = goto(s, z, z) BY <2>5 DEF set_private_mode
      <3>2. Keeps(t, s)
        <4>1. "ORIGIN" \notin MouseModes \cup KITTY_KEYBOARD_PROTOCOL
          BY DEF MouseModes, MOUSE_MODE, KITTY_KEYBOARD_PROTOCOL
        <4>. QED BY <4>1, FlagLaw
      <3>3. TermOK(s) /\ GeometryOK(s) BY <3>2 DEF Keeps, TermOK
      <3>4. Jump(s, goto(s, z, z)) BY <3>3, GotoJump
      <3>. QED BY <3>1, <3>2, <3>3, <3>4, JumpKeeps, KeepsTrans
    <2>6. CASE mode = "ColumnMode" BY <2>6, DeccolmKeeps DEF set_private_mode
    <2>7. CASE mode = "BlinkingCursor" BY <2>7, StylesKeep DEF set_private_mode
    <2>8. CASE mode \in {"SyncUpdate", "Unknown"} BY <2>8, KeepsSame DEF set_private_mode
    <2>. QED BY <1>0, <2>1, <2>2, <2>3, <2>4, <2>5, <2>6, <2>7, <2>8
  <1>2. Keeps(t, unset_private_mode(t, mode))
    <2>1. CASE mode \in PlainModes \cup MouseReports \cup {"SgrMouse", "Utf8Mouse", "Origin"}
      <3>1. unset_private_mode(t, mode) = Without(t, ModeOf[mode])
        BY <2>1 DEF unset_private_mode, PlainModes, MouseReports
      <3>2. ModeOf[mode] # "INSERT" BY <2>1, ModeOfLaw
      <3>. QED BY <3>1, <3>2, FlagLaw
    <2>2. CASE mode = "ColumnMode" BY <2>2, DeccolmKeeps DEF unset_private_mode
    <2>3. CASE mode = "BlinkingCursor" BY <2>3, StylesKeep DEF unset_private_mode
    <2>4. CASE mode \in {"SyncUpdate", "Unknown"} BY <2>4, KeepsSame DEF unset_private_mode
    <2>. QED BY <1>0, <2>1, <2>2, <2>3, <2>4
  <1>. QED BY <1>1, <1>2

(* The public modes; leaving insert mode redraws the screen. *)
LEMMA PublicModesKeep ==
    ASSUME NEW t, TermOK(t), NEW mode \in DOMAIN PublicMode
    PROVE  Keeps(t, set_mode(t, mode)) /\ Keeps(t, unset_mode(t, mode))
  <1>1. /\ PublicMode[mode] \notin MouseModes \cup KITTY_KEYBOARD_PROTOCOL
        /\ mode # "Insert" => PublicMode[mode] # "INSERT"
    BY DEF PublicMode, MouseModes, MOUSE_MODE, KITTY_KEYBOARD_PROTOCOL
  <1>2. Keeps(t, set_mode(t, mode)) BY <1>1, FlagLaw DEF set_mode
  <1>3. PICK s, flag : s = Without(t, flag) /\ flag = PublicMode[mode] OBVIOUS
  <1>4. TermOK(s) /\ SameScreen(t, s) /\ (flag # "INSERT" => Keeps(t, s))
    BY <1>3, FlagLaw
  <1>5. CASE mode = "Insert"
    <2>1. unset_mode(t, mode) = mark_fully_damaged(s) BY <1>3, <1>5 DEF unset_mode, PublicMode
    <2>2. Keeps(t, mark_fully_damaged(s)) BY <1>4, MarkLaw
    <2>. QED BY <1>2, <2>1, <2>2
  <1>6. CASE mode # "Insert"
    <2>1. unset_mode(t, mode) = s BY <1>3, <1>6 DEF unset_mode
    <2>. QED BY <1>1, <1>2, <1>3, <1>4, <1>6, <2>1
  <1>. QED BY <1>5, <1>6

(* The keypad, the character set, the colors and vi mode. *)
LEMMA SmallModesKeep ==
    ASSUME NEW t, TermOK(t), NEW index, NEW rgb
    PROVE  /\ Keeps(t, set_keypad_application_mode(t)) /\ Keeps(t, unset_keypad_application_mode(t))
           /\ Keeps(t, set_active_charset(t, index)) /\ Keeps(t, set_color(t, index, rgb))
           /\ Keeps(t, reset_color(t, index)) /\ Keeps(t, toggle_vi_mode(t))
  <1>1. Keeps(t, set_keypad_application_mode(t)) /\ Keeps(t, unset_keypad_application_mode(t))
    <2>1. "APP_KEYPAD" \notin MouseModes \cup KITTY_KEYBOARD_PROTOCOL /\ "APP_KEYPAD" # "INSERT"
      BY DEF MouseModes, MOUSE_MODE, KITTY_KEYBOARD_PROTOCOL
    <2>. QED BY <2>1, FlagLaw DEF set_keypad_application_mode, unset_keypad_application_mode
  <1>2. ASSUME NEW s, Modal(t, s), s.mode = t.mode, s.keyboard = t.keyboard,
               s.inactive_keyboard = t.inactive_keyboard, s.config = t.config, s.titles = t.titles,
               s.title = t.title, s.style = t.style
        PROVE  Keeps(t, s) /\ Keeps(t, mark_fully_damaged(s))
    <2>1. ModesOK(s) BY <1>2 DEF TermOK, ModesOK, StacksOK, TitlesOK
    <2>2. Keeps(t, s) /\ TermOK(s) /\ SameScreen(t, s) BY <1>2, <2>1, ModalKeeps
    <2>. QED BY <2>2, MarkLaw
  <1>3. Keeps(t, set_active_charset(t, index))
    <2>. PICK s : s = set_active_charset(t, index) OBVIOUS
    <2>. QED BY <1>2 DEF set_active_charset, Modal, TermOK, GeometryOK, TermFields
  <1>4. ASSUME NEW value
        PROVE  Keeps(t, [t EXCEPT !.colors[index] = value])
               /\ Keeps(t, mark_fully_damaged([t EXCEPT !.colors[index] = value]))
    <2>. PICK s : s = [t EXCEPT !.colors[index] = value] OBVIOUS
    <2>. QED BY <1>2 DEF Modal, TermOK, GeometryOK, TermFields
  <1>5. Keeps(t, set_color(t, index, rgb)) BY <1>4 DEF set_color
  <1>6. Keeps(t, reset_color(t, index)) BY <1>4 DEF reset_color
  <1>7. Keeps(t, toggle_vi_mode(t))
    <2>1. "VI" \notin MouseModes \cup KITTY_KEYBOARD_PROTOCOL /\ "VI" # "INSERT"
      BY DEF MouseModes, MOUSE_MODE, KITTY_KEYBOARD_PROTOCOL
    <2>2. CASE Has(t, "VI") BY <2>1, <2>2, FlagLaw DEF toggle_vi_mode
    <2>3. CASE ~Has(t, "VI")
      <3>1. PICK u, p, s : u = With(t, "VI") /\ s = [u EXCEPT !.vi = p] /\ s = toggle_vi_mode(t)
        BY <2>3 DEF toggle_vi_mode
      <3>2. Keeps(t, u) /\ TermOK(u) BY <2>1, <3>1, FlagLaw DEF Keeps
      <3>3. /\ Modal(u, s) /\ s.mode = u.mode /\ s.keyboard = u.keyboard
            /\ s.inactive_keyboard = u.inactive_keyboard /\ s.config = u.config /\ s.titles = u.titles
            /\ s.title = u.title /\ s.style = u.style
        BY <3>1, <3>2 DEF Modal, TermOK, GeometryOK, TermFields
      <3>4. ModesOK(s) BY <3>2, <3>3 DEF TermOK, ModesOK, StacksOK, TitlesOK
      <3>5. Keeps(u, s) BY <3>2, <3>3, <3>4, ModalKeeps
      <3>. QED BY <3>1, <3>2, <3>5, KeepsTrans
    <2>. QED BY <2>2, <2>3
  <1>. QED BY <1>1, <1>3, <1>5, <1>6, <1>7

-----------------------------------------------------------------------------
(* Attributes, keyboard modes and titles *)

(* An underline replaces any other. *)
LEMMA AttributeKeeps ==
    ASSUME NEW t, TermOK(t), NEW attr
    PROVE  Keeps(t, terminal_attribute(t, attr))
  <1>. PICK old : old = t.grid.cursor.template OBVIOUS
  <1>. PICK flags : flags = CASE attr = "Reset" -> {}
             [] attr \in ALL_UNDERLINES -> (old \ ALL_UNDERLINES) \cup {attr}
             [] attr = "CancelUnderline" -> old \ ALL_UNDERLINES
             [] attr = "CancelBoldDim" -> old \ {"BOLD", "DIM"}
             [] attr = "CancelBold" -> old \ {"BOLD"}
             [] OTHER -> old \cup {attr}
    OBVIOUS
  <1>1. AtMostOneOf(flags, ALL_UNDERLINES)
    <2>1. AtMostOneOf(old, ALL_UNDERLINES) BY DEF TermOK, GeometryOK, ScreenOK, CursorOK
    <2>2. CASE attr \in ALL_UNDERLINES
      <3>1. flags = (old \ ALL_UNDERLINES) \cup {attr} BY <2>2 DEF ALL_UNDERLINES
      <3>. QED BY <3>1 DEF AtMostOneOf
    <2>3. CASE attr \notin ALL_UNDERLINES
      <3>1. flags \cap ALL_UNDERLINES \subseteq old BY <2>3
      <3>. QED BY <2>1, <3>1 DEF AtMostOneOf
    <2>. QED BY <2>2, <2>3
  <1>2. PICK s : s = [t EXCEPT !.grid.cursor.template = flags] OBVIOUS
  <1>3. terminal_attribute(t, attr) = s BY <1>2 DEF terminal_attribute
  <1>4. /\ Aside(t, s) /\ s.mode = t.mode /\ s.tabs = t.tabs /\ s.inactive = t.inactive
        /\ s.keyboard = t.keyboard /\ s.inactive_keyboard = t.inactive_keyboard
        /\ s.config = t.config /\ s.titles = t.titles /\ s.title = t.title /\ s.style = t.style
        /\ s.grid = [t.grid EXCEPT !.cursor.template = flags]
    BY <1>2 DEF Aside, TermOK, GeometryOK, TermFields, ScreenOK, ScreenFields, CursorOK, CursorFields
  <1>5. s.grid.cursor = [t.grid.cursor EXCEPT !.template = flags] /\ DOMAIN s.grid = ScreenFields
        /\ s.grid.saved = t.grid.saved /\ s.grid.limit = t.grid.limit /\ s.grid.hist = t.grid.hist
        /\ s.grid.offset = t.grid.offset
    BY <1>4 DEF TermOK, GeometryOK, ScreenOK, ScreenFields
  <1>6. CursorOK(s.grid.cursor, t.cols, t.lines)
    BY <1>1, <1>5 DEF TermOK, GeometryOK, ScreenOK, CursorOK, CursorFields
  <1>7. ScreenOK(s.grid, t.cols, t.lines) BY <1>5, <1>6 DEF TermOK, GeometryOK, ScreenOK
  <1>8. ModesOK(s) BY <1>4 DEF TermOK, ModesOK, StacksOK, TitlesOK
  <1>9. ScreenOK(s.inactive, t.cols, t.lines) /\ s.tabs \subseteq 0..(t.cols - 1)
    BY <1>4 DEF TermOK, GeometryOK
  <1>. QED BY <1>3, <1>4, <1>7, <1>8, <1>9, AsideKeeps

(* What is on top of a stack of keyboard modes is a keyboard mode. *)
LEMMA TopModeLaw ==
    ASSUME NEW stack \in Seq(SUBSET KITTY_KEYBOARD_PROTOCOL)
    PROVE  TopMode(stack) \subseteq KITTY_KEYBOARD_PROTOCOL
  <1>1. CASE stack = <<>> BY <1>1 DEF TopMode
  <1>2. CASE stack # <<>>
    <2>1. TopMode(stack) = stack[Len(stack)] BY <1>2 DEF TopMode, Last
    <2>2. Len(stack) \in 1..Len(stack) BY <1>2
    <2>. QED BY <2>1, <2>2
  <1>. QED BY <1>1, <1>2

(* The keyboard modes that are active are others, and nothing else is. *)
LEMMA KeyboardLaw ==
    ASSUME NEW mode, MouseModesOK(mode), NEW new, new \subseteq KITTY_KEYBOARD_PROTOCOL,
           NEW n, n = (mode \ KITTY_KEYBOARD_PROTOCOL) \cup new
    PROVE  MouseModesOK(n) /\ ("INSERT" \in mode => "INSERT" \in n)
  BY DEF MouseModesOK, AtMostOneOf, MOUSE_MODE, KITTY_KEYBOARD_PROTOCOL

(* With the kitty protocol enabled the keyboard modes and their stack may be any. *)
LEMMA SetKeyboardLaw ==
    ASSUME NEW t, TermOK(t), t.config.kitty, NEW keyboard \in Seq(SUBSET KITTY_KEYBOARD_PROTOCOL),
           NEW titles \in Seq(Titles), Len(titles) <= TITLE_STACK_MAX_DEPTH,
           NEW new, new \subseteq KITTY_KEYBOARD_PROTOCOL,
           NEW s, DOMAIN s = TermFields, Modal(t, s), s.keyboard = keyboard, s.titles = titles,
           s.mode = (t.mode \ KITTY_KEYBOARD_PROTOCOL) \cup new,
           s.inactive_keyboard = t.inactive_keyboard, s.config = t.config,
           s.title = t.title, s.style = t.style
    PROVE  Keeps(t, s)
  <1>1. MouseModesOK(s.mode) /\ ("INSERT" \in t.mode => "INSERT" \in s.mode)
    BY KeyboardLaw DEF TermOK, ModesOK
  <1>2. StacksOK(s) BY DEF TermOK, ModesOK, StacksOK
  <1>3. ModesOK(s) BY <1>1, <1>2 DEF TermOK, ModesOK, TitlesOK
  <1>. QED BY <1>1, <1>3, ModalKeeps

(* The stacks and the titles of a terminal. *)
LEMMA StacksTyped ==
    ASSUME NEW t, TermOK(t)
    PROVE  /\ t.keyboard \in Seq(SUBSET KITTY_KEYBOARD_PROTOCOL)
           /\ t.inactive_keyboard \in Seq(SUBSET KITTY_KEYBOARD_PROTOCOL)
           /\ t.titles \in Seq(Titles) /\ Len(t.titles) <= TITLE_STACK_MAX_DEPTH
           /\ t.title \in Titles /\ DOMAIN t = TermFields
  BY DEF TermOK, GeometryOK, ModesOK, StacksOK, TitlesOK

(* push_keyboard_mode, which does nothing with the protocol disabled, *)
LEMMA PushKeyboardKeeps ==
    ASSUME NEW t, TermOK(t), NEW mode \in SUBSET KITTY_KEYBOARD_PROTOCOL
    PROVE  Keeps(t, push_keyboard_mode(t, mode))
  <1>0. TITLE_STACK_MAX_DEPTH \in Nat BY TermAssumption
  <1>1. CASE ~t.config.kitty BY <1>1, KeepsSame DEF push_keyboard_mode
  <1>2. CASE t.config.kitty
    <2>. DEFINE full == Len(t.keyboard) >= KEYBOARD_MODE_STACK_MAX_DEPTH
    <2>1. CASE full /\ t.titles = <<>>
      <3>. PICK s : s = [t EXCEPT !.panicked = TRUE] OBVIOUS
      <3>1. push_keyboard_mode(t, mode) = s BY <1>2, <2>1 DEF push_keyboard_mode
      <3>2. /\ Modal(t, s) /\ s.mode = t.mode /\ s.keyboard = t.keyboard
            /\ s.inactive_keyboard = t.inactive_keyboard /\ s.config = t.config /\ s.titles = t.titles
            /\ s.title = t.title /\ s.style = t.style
        BY StacksTyped DEF Modal, TermFields
      <3>3. ModesOK(s) BY <3>2 DEF TermOK, ModesOK, StacksOK, TitlesOK
      <3>. QED BY <3>1, <3>2, <3>3, ModalKeeps
    <2>2. CASE ~(full /\ t.titles = <<>>)
      <3>1. PICK titles : titles = IF full /\ t.titles # <<>> THEN Tail(t.titles) ELSE t.titles OBVIOUS
      <3>2. PICK keyboard : keyboard = Append(t.keyboard, mode) OBVIOUS
      <3>3. titles \in Seq(Titles) /\ Len(titles) <= TITLE_STACK_MAX_DEPTH
        <4>1. CASE full /\ t.titles # <<>>
          <5>1. Len(Tail(t.titles)) = Len(t.titles) - 1 /\ Tail(t.titles) \in Seq(Titles)
            BY <4>1, StacksTyped
          <5>. QED BY <1>0, <3>1, <4>1, <5>1, StacksTyped
        <4>2. CASE ~(full /\ t.titles # <<>>) BY <3>1, <4>2, StacksTyped
        <4>. QED BY <4>1, <4>2
      <3>4. keyboard \in Seq(SUBSET KITTY_KEYBOARD_PROTOCOL) BY <3>2, StacksTyped
      <3>5. PICK p : p = IF full /\ t.titles # <<>> THEN [t EXCEPT !.titles = titles] ELSE t OBVIOUS
      <3>6. PICK q : q = [p EXCEPT !.keyboard = keyboard] OBVIOUS
      <3>7. PICK s : s = [q EXCEPT !.mode = (q.mode \ KITTY_KEYBOARD_PROTOCOL) \cup mode] OBVIOUS
      <3>8. push_keyboard_mode(t, mode) = s
        <4>1. CASE full /\ t.titles # <<>>
          <5>1. p.keyboard = t.keyboard BY <3>5, <4>1, StacksTyped DEF TermFields
          <5>2. p = [t EXCEPT !.titles = Tail(t.titles)] BY <3>1, <3>5, <4>1
          <5>3. push_keyboard_mode(t, mode) = set_keyboard_mode([p EXCEPT !.keyboard = Append(p.keyboard, mode)], mode, "Replace")
            BY <1>2, <4>1, <5>2 DEF push_keyboard_mode
          <5>. QED BY <3>2, <3>6, <3>7, <5>1, <5>3 DEF set_keyboard_mode
        <4>2. CASE ~full
          <5>1. p = t BY <3>5, <4>2
          <5>2. push_keyboard_mode(t, mode) = set_keyboard_mode([t EXCEPT !.keyboard = Append(t.keyboard, mode)], mode, "Replace")
            BY <1>2, <4>2 DEF push_keyboard_mode
          <5>. QED BY <3>2, <3>6, <3>7, <5>1, <5>2 DEF set_keyboard_mode
        <4>. QED BY <2>2, <4>1, <4>2
      <3>9. /\ Modal(t, s) /\ s.keyboard = keyboard /\ s.titles = titles
            /\ s.mode = (t.mode \ KITTY_KEYBOARD_PROTOCOL) \cup mode
            /\ s.inactive_keyboard = t.inactive_keyboard /\ s.config = t.config
            /\ s.title = t.title /\ s.style = t.style
        <4>1. /\ Modal(t, p) /\ p.keyboard = t.keyboard /\ p.titles = titles /\ p.mode = t.mode
              /\ p.inactive_keyboard = t.inactive_keyboard /\ p.config = t.config
              /\ p.title = t.title /\ p.style = t.style
          <5>1. CASE full /\ t.titles # <<>> BY <3>5, <5>1, StacksTyped DEF Modal, TermFields
          <5>2. CASE ~(full /\ t.titles # <<>>)
            <6>1. p = t /\ titles = t.titles BY <3>1, <3>5, <5>2
            <6>. QED BY <6>1, StacksTyped DEF Modal, TermFields
          <5>. QED BY <5>1, <5>2
        <4>. QED BY <3>6, <3>7, <4>1 DEF Modal, TermFields
      <3>. QED BY <1>2, <3>3, <3>4, <3>8, <3>9, SetKeyboardLaw DEF Modal
    <2>. QED BY <2>1, <2>2
  <1>. QED BY <1>1, <1>2 DEF TermOK, ModesOK, StacksOK

(* pop_keyboard_modes and set_keyboard_mode. *)
LEMMA PopKeyboardKeeps ==
    ASSUME NEW t, TermOK(t), NEW count \in Nat, NEW mode \in SUBSET KITTY_KEYBOARD_PROTOCOL,
           NEW apply \in {"Replace", "Union", "Difference"}
    PROVE  Keeps(t, pop_keyboard_modes(t, count)) /\ Keeps(t, apply_keyboard_mode(t, mode, apply))
  <1>1. CASE ~t.config.kitty BY <1>1, KeepsSame DEF pop_keyboard_modes, apply_keyboard_mode
  <1>2. CASE t.config.kitty
    <2>1. Keeps(t, pop_keyboard_modes(t, count))
      <3>1. PICK n \in 0..Len(t.keyboard) : n = SaturatingSub(Len(t.keyboard), count)
        <4>1. Len(t.keyboard) \in Nat BY StacksTyped
        <4>2. SaturatingSub(Len(t.keyboard), count) \in 0..Len(t.keyboard) BY <4>1 DEF SaturatingSub
        <4>. QED BY <4>2
      <3>2. PICK stack : stack = SubSeq(t.keyboard, 1, n) OBVIOUS
      <3>3. stack \in Seq(SUBSET KITTY_KEYBOARD_PROTOCOL) BY <3>1, <3>2, StacksTyped
      <3>4. PICK top : top = TopMode(stack) /\ top \subseteq KITTY_KEYBOARD_PROTOCOL BY <3>3, TopModeLaw
      <3>5. PICK q : q = [t EXCEPT !.keyboard = stack] OBVIOUS
      <3>6. PICK s : s = [q EXCEPT !.mode = (q.mode \ KITTY_KEYBOARD_PROTOCOL) \cup top] OBVIOUS
      <3>7. pop_keyboard_modes(t, count) = s
        BY <1>2, <3>1, <3>2, <3>4, <3>5, <3>6 DEF pop_keyboard_modes, set_keyboard_mode
      <3>8. /\ Modal(t, s) /\ s.keyboard = stack /\ s.titles = t.titles
            /\ s.mode = (t.mode \ KITTY_KEYBOARD_PROTOCOL) \cup top
            /\ s.inactive_keyboard = t.inactive_keyboard /\ s.config = t.config
            /\ s.title = t.title /\ s.style = t.style
        BY <3>5, <3>6, StacksTyped DEF Modal, TermFields
      <3>. QED BY <1>2, <3>3, <3>4, <3>7, <3>8, StacksTyped, SetKeyboardLaw, ZenonT(30) DEF Modal
    <2>2. Keeps(t, apply_keyboard_mode(t, mode, apply))
      <3>1. PICK new : new = CASE apply = "Replace" -> mode
                    [] apply = "Union" -> (t.mode \cap KITTY_KEYBOARD_PROTOCOL) \cup mode
                    [] apply = "Difference" -> (t.mode \cap KITTY_KEYBOARD_PROTOCOL) \ mode
        OBVIOUS
      <3>2. new \subseteq KITTY_KEYBOARD_PROTOCOL BY <3>1
      <3>3. PICK s : s = [t EXCEPT !.mode = (t.mode \ KITTY_KEYBOARD_PROTOCOL) \cup new] OBVIOUS
      <3>4. apply_keyboard_mode(t, mode, apply) = s
        BY <1>2, <3>1, <3>3 DEF apply_keyboard_mode, set_keyboard_mode
      <3>5. /\ Modal(t, s) /\ s.keyboard = t.keyboard /\ s.titles = t.titles
            /\ s.mode = (t.mode \ KITTY_KEYBOARD_PROTOCOL) \cup new
            /\ s.inactive_keyboard = t.inactive_keyboard /\ s.config = t.config
            /\ s.title = t.title /\ s.style = t.style
        BY <3>3, StacksTyped DEF Modal, TermFields
      <3>6. PICK keyboard, titles : keyboard = t.keyboard /\ titles = t.titles OBVIOUS
      <3>7. /\ keyboard \in Seq(SUBSET KITTY_KEYBOARD_PROTOCOL) /\ titles \in Seq(Titles)
            /\ Len(titles) <= TITLE_STACK_MAX_DEPTH /\ DOMAIN s = TermFields
        BY <3>5, <3>6, StacksTyped DEF Modal
      <3>. QED BY <1>2, <3>2, <3>4, <3>5, <3>6, <3>7, SetKeyboardLaw
    <2>. QED BY <2>1, <2>2
  <1>. QED BY <1>1, <1>2 DEF TermOK, ModesOK, StacksOK

(* The title and the stack of titles. *)
LEMMA TitlesKeep ==
    ASSUME NEW t, TermOK(t), NEW title \in Titles
    PROVE  Keeps(t, set_title(t, title)) /\ Keeps(t, push_title(t)) /\ Keeps(t, pop_title(t))
  <1>0. TITLE_STACK_MAX_DEPTH \in Nat \ {0} BY TermAssumption
  <1>1. ASSUME NEW s, Modal(t, s), s.mode = t.mode, s.keyboard = t.keyboard,
               s.inactive_keyboard = t.inactive_keyboard, s.config = t.config, s.style = t.style,
               s.titles \in Seq(Titles), Len(s.titles) <= TITLE_STACK_MAX_DEPTH, s.title \in Titles
        PROVE  Keeps(t, s)
    <2>1. ModesOK(s) BY <1>1 DEF TermOK, ModesOK, StacksOK, TitlesOK
    <2>. QED BY <1>1, <2>1, ModalKeeps
  <1>2. ASSUME NEW u, TermOK(u), NEW s, s = [u EXCEPT !.title = s.title]
        PROVE  Modal(u, s) /\ s.mode = u.mode /\ s.keyboard = u.keyboard /\ s.style = u.style
               /\ s.inactive_keyboard = u.inactive_keyboard /\ s.config = u.config /\ s.titles = u.titles
    BY <1>2, StacksTyped DEF Modal, TermFields
  <1>3. Keeps(t, set_title(t, title))
    <2>. PICK s : s = set_title(t, title) OBVIOUS
    <2>1. s.title = title /\ s = [t EXCEPT !.title = s.title] BY StacksTyped DEF set_title, TermFields
    <2>. QED BY <1>1, <1>2, <2>1, StacksTyped
  <1>4. Keeps(t, push_title(t))
    <2>1. PICK kept : kept = IF Len(t.titles) >= TITLE_STACK_MAX_DEPTH THEN Tail(t.titles) ELSE t.titles
      OBVIOUS
    <2>2. kept \in Seq(Titles) /\ Len(kept) + 1 <= TITLE_STACK_MAX_DEPTH
      <3>1. CASE Len(t.titles) >= TITLE_STACK_MAX_DEPTH
        <4>1. t.titles # <<>> BY <1>0, <3>1, StacksTyped
        <4>2. Len(Tail(t.titles)) = Len(t.titles) - 1 /\ Tail(t.titles) \in Seq(Titles)
          BY <4>1, StacksTyped
        <4>. QED BY <1>0, <2>1, <3>1, <4>2, StacksTyped
      <3>2. CASE ~(Len(t.titles) >= TITLE_STACK_MAX_DEPTH) BY <1>0, <2>1, <3>2, StacksTyped
      <3>. QED BY <3>1, <3>2
    <2>3. PICK titles : titles = Append(kept, t.title) OBVIOUS
    <2>4. titles \in Seq(Titles) /\ Len(titles) <= TITLE_STACK_MAX_DEPTH BY <2>2, <2>3, StacksTyped
    <2>5. PICK s : s = [t EXCEPT !.titles = titles] OBVIOUS
    <2>6. push_title(t) = s BY <2>1, <2>3, <2>5 DEF push_title
    <2>7. Modal(t, s) /\ s.mode = t.mode /\ s.keyboard = t.keyboard /\ s.style = t.style /\ s.title = t.title
          /\ s.inactive_keyboard = t.inactive_keyboard /\ s.config = t.config /\ s.titles = titles
      BY <2>5, StacksTyped DEF Modal, TermFields
    <2>. QED BY <1>1, <2>4, <2>6, <2>7, StacksTyped
  <1>5. Keeps(t, pop_title(t))
    <2>1. CASE t.titles = <<>> BY <2>1, KeepsSame DEF pop_title
    <2>2. CASE t.titles # <<>>
      <3>1. PICK front, last : front = Front(t.titles) /\ last = Last(t.titles) OBVIOUS
      <3>2. front \in Seq(Titles) /\ Len(front) <= TITLE_STACK_MAX_DEPTH /\ last \in Titles
        <4>1. Len(t.titles) \in Nat \ {0} /\ last = t.titles[Len(t.titles)]
          BY <2>2, <3>1, StacksTyped DEF Last
        <4>2. front = SubSeq(t.titles, 1, Len(t.titles) - 1) BY <3>1 DEF Front
        <4>. QED BY <1>0, <4>1, <4>2, StacksTyped
      <3>3. PICK s : s = [[t EXCEPT !.titles = front] EXCEPT !.title = last] OBVIOUS
      <3>4. pop_title(t) = s BY <2>2, <3>1, <3>3 DEF pop_title, set_title
      <3>5. Modal(t, s) /\ s.mode = t.mode /\ s.keyboard = t.keyboard /\ s.style = t.style /\ s.title = last
            /\ s.inactive_keyboard = t.inactive_keyboard /\ s.config = t.config /\ s.titles = front
        BY <3>3, StacksTyped DEF Modal, TermFields
      <3>. QED BY <1>1, <3>2, <3>4, <3>5
    <2>. QED BY <2>1, <2>2
  <1>. QED BY <1>3, <1>4, <1>5

-----------------------------------------------------------------------------
(* The two screens *)

(* A configuration. *)
ConfigOK(config) ==
    DOMAIN config = {"kitty", "history"} /\ config.kitty \in BOOLEAN /\ config.history \in Nat

(* Another length of the scrollback. *)
LEMMA UpdateHistoryOK ==
    ASSUME NEW g, NEW cols, NEW lines, ScreenOK(g, cols, lines), NEW size \in Nat
    PROVE  ScreenOK(update_history(g, size), cols, lines)
  <1>1. MinOf(g.hist, size) \in 0..size /\ MinOf(g.offset, size) \in Nat BY DEF ScreenOK, MinOf
  <1>. QED BY <1>1 DEF ScreenOK, update_history, ScreenFields

(* A new configuration: the keyboard modes and both stacks are forgotten when the
   protocol is disabled. *)
LEMMA OptionsKeep ==
    ASSUME NEW t, TermOK(t), NEW config, ConfigOK(config)
    PROVE  Keeps(t, set_options(t, config))
  <1>. PICK a, u : /\ a = [t EXCEPT !.config = config]
                   /\ u = IF Has(t, "ALT_SCREEN")
                          THEN [a EXCEPT !.inactive = update_history(t.inactive, config.history)]
                          ELSE [a EXCEPT !.grid = update_history(t.grid, config.history)]
    OBVIOUS
  <1>. PICK v : v = IF config.kitty = t.config.kitty THEN u
                    ELSE [u EXCEPT !.keyboard = <<>>, !.inactive_keyboard = <<>>,
                                   !.mode = u.mode \ KITTY_KEYBOARD_PROTOCOL]
    OBVIOUS
  <1>1. set_options(t, config) = mark_fully_damaged(v) BY DEF set_options
  <1>2. ConfigOK(config) /\ config.history \in Nat BY DEF ConfigOK
  <1>3. ScreenOK(update_history(t.inactive, config.history), t.cols, t.lines)
        /\ ScreenOK(update_history(t.grid, config.history), t.cols, t.lines)
    BY <1>2, UpdateHistoryOK DEF TermOK, GeometryOK
  <1>4. /\ DOMAIN u = TermFields /\ u.config = config /\ u.cols = t.cols /\ u.lines = t.lines
        /\ u.region = t.region /\ u.damage = t.damage /\ u.cell = t.cell /\ u.tabs = t.tabs
        /\ u.mode = t.mode /\ u.keyboard = t.keyboard /\ u.inactive_keyboard = t.inactive_keyboard
        /\ u.titles = t.titles /\ u.title = t.title /\ u.style = t.style
        /\ ScreenOK(u.grid, t.cols, t.lines) /\ ScreenOK(u.inactive, t.cols, t.lines)
    <2>1. CASE Has(t, "ALT_SCREEN") BY <1>3, <2>1 DEF TermOK, GeometryOK, TermFields
    <2>2. CASE ~Has(t, "ALT_SCREEN") BY <1>3, <2>2 DEF TermOK, GeometryOK, TermFields
    <2>. QED BY <2>1, <2>2
  <1>5. /\ DOMAIN v = TermFields /\ v.config = config /\ v.cols = t.cols /\ v.lines = t.lines
        /\ v.region = t.region /\ v.damage = t.damage /\ v.cell = t.cell /\ v.tabs = t.tabs
        /\ v.titles = t.titles /\ v.title = t.title /\ v.style = t.style
        /\ ScreenOK(v.grid, t.cols, t.lines) /\ ScreenOK(v.inactive, t.cols, t.lines)
    <2>1. CASE config.kitty = t.config.kitty BY <1>4, <2>1
    <2>2. CASE config.kitty # t.config.kitty BY <1>4, <2>2 DEF TermFields
    <2>. QED BY <2>1, <2>2
  <1>6. StacksOK(v) /\ MouseModesOK(v.mode)
    <2>1. CASE config.kitty = t.config.kitty
      BY <1>2, <1>4, <2>1 DEF TermOK, ModesOK, StacksOK, ConfigOK
    <2>2. CASE config.kitty # t.config.kitty
      <3>1. /\ v.keyboard = <<>> /\ v.inactive_keyboard = <<>>
            /\ v.mode = t.mode \ KITTY_KEYBOARD_PROTOCOL
        BY <1>4, <2>2 DEF TermFields
      <3>2. <<>> \in Seq(SUBSET KITTY_KEYBOARD_PROTOCOL) OBVIOUS
      <3>3. StacksOK(v) BY <1>2, <1>5, <3>1, <3>2 DEF StacksOK, ConfigOK
      <3>4. MouseModesOK(v.mode) BY <3>1 DEF TermOK, ModesOK, MouseModesOK, AtMostOneOf
      <3>. QED BY <3>3, <3>4
    <2>. QED BY <2>1, <2>2
  <1>7. ModesOK(v) BY <1>5, <1>6 DEF TermOK, ModesOK, TitlesOK
  <1>8. GeometryOK(v) BY <1>5 DEF TermOK, GeometryOK
  <1>9. TermOK(v) /\ SameScreen(t, v) BY <1>5, <1>7, <1>8 DEF TermOK, LineScrolls, SameScreen
  <1>. QED BY <1>1, <1>9, MarkLaw

(* What becomes of every part of the terminal when the screens are swapped. *)
Swapped(t, s) ==
    LET alt == Has(t, "ALT_SCREEN")
        mode == (t.mode \ KITTY_KEYBOARD_PROTOCOL) \cup TopMode(t.inactive_keyboard)
    IN  /\ DOMAIN s = TermFields
        /\ s.cols = t.cols /\ s.lines = t.lines /\ s.region = t.region /\ s.damage = t.damage
        /\ s.cell = t.cell /\ s.tabs = t.tabs /\ s.config = t.config
        /\ s.titles = t.titles /\ s.title = t.title /\ s.style = t.style
        /\ s.grid = IF alt THEN t.inactive ELSE [t.inactive EXCEPT !.cursor = t.grid.cursor]
        /\ s.inactive = IF alt THEN t.grid ELSE [t.grid EXCEPT !.saved = t.grid.cursor]
        /\ s.keyboard = t.inactive_keyboard /\ s.inactive_keyboard = t.keyboard
        /\ s.mode = IF alt THEN mode \ {"ALT_SCREEN"} ELSE mode \cup {"ALT_SCREEN"}

(* swap_alt swaps, and redraws the screen. *)
LEMMA SwapLaw ==
    ASSUME NEW t, TermOK(t)
    PROVE  \E s : /\ Swapped(t, s)
                  /\ swap_alt(t) = mark_fully_damaged(WriteLines(s, 0, t.lines - 1))
  <1>. DEFINE p == IF Has(t, "ALT_SCREEN") THEN t
                   ELSE [t EXCEPT !.inactive.cursor = t.grid.cursor, !.grid.saved = t.grid.cursor]
              u == set_keyboard_mode([p EXCEPT !.keyboard = p.inactive_keyboard,
                                               !.inactive_keyboard = p.keyboard],
                                     TopMode(p.inactive_keyboard), "Replace")
              v == IF Has(t, "ALT_SCREEN") THEN Without(u, "ALT_SCREEN") ELSE With(u, "ALT_SCREEN")
              s == [v EXCEPT !.grid = v.inactive, !.inactive = v.grid, !.sel = NoSelection]
  <1>1. swap_alt(t) = mark_fully_damaged(WriteLines(s, 0, t.lines - 1))
    BY Zenon DEF swap_alt
  <1>2. /\ DOMAIN p = TermFields
        /\ p.cols = t.cols /\ p.lines = t.lines /\ p.region = t.region /\ p.damage = t.damage
        /\ p.cell = t.cell /\ p.tabs = t.tabs /\ p.config = t.config /\ p.mode = t.mode
        /\ p.titles = t.titles /\ p.title = t.title /\ p.style = t.style
        /\ p.keyboard = t.keyboard /\ p.inactive_keyboard = t.inactive_keyboard
        /\ p.grid = IF Has(t, "ALT_SCREEN") THEN t.grid ELSE [t.grid EXCEPT !.saved = t.grid.cursor]
        /\ p.inactive = IF Has(t, "ALT_SCREEN") THEN t.inactive
                        ELSE [t.inactive EXCEPT !.cursor = t.grid.cursor]
    BY DEF TermOK, GeometryOK, TermFields
  <1>. HIDE DEF p
  <1>3. /\ DOMAIN u = TermFields
        /\ u.cols = p.cols /\ u.lines = p.lines /\ u.region = p.region /\ u.damage = p.damage
        /\ u.cell = p.cell /\ u.tabs = p.tabs /\ u.config = p.config
        /\ u.mode = (p.mode \ KITTY_KEYBOARD_PROTOCOL) \cup TopMode(p.inactive_keyboard)
        /\ u.titles = p.titles /\ u.title = p.title /\ u.style = p.style
        /\ u.keyboard = p.inactive_keyboard /\ u.inactive_keyboard = p.keyboard
        /\ u.grid = p.grid /\ u.inactive = p.inactive
    BY <1>2 DEF TermFields, set_keyboard_mode
  <1>. HIDE DEF u
  <1>4. /\ DOMAIN v = TermFields
        /\ v.cols = u.cols /\ v.lines = u.lines /\ v.region = u.region /\ v.damage = u.damage
        /\ v.cell = u.cell /\ v.tabs = u.tabs /\ v.config = u.config
        /\ v.mode = IF Has(t, "ALT_SCREEN") THEN u.mode \ {"ALT_SCREEN"} ELSE u.mode \cup {"ALT_SCREEN"}
        /\ v.titles = u.titles /\ v.title = u.title /\ v.style = u.style
        /\ v.keyboard = u.keyboard /\ v.inactive_keyboard = u.inactive_keyboard
        /\ v.grid = u.grid /\ v.inactive = u.inactive
    BY <1>3 DEF TermFields, With, Without
  <1>. HIDE DEF v
  <1>5. /\ DOMAIN s = TermFields
        /\ s.cols = v.cols /\ s.lines = v.lines /\ s.region = v.region /\ s.damage = v.damage
        /\ s.cell = v.cell /\ s.tabs = v.tabs /\ s.config = v.config /\ s.mode = v.mode
        /\ s.titles = v.titles /\ s.title = v.title /\ s.style = v.style
        /\ s.keyboard = v.keyboard /\ s.inactive_keyboard = v.inactive_keyboard
        /\ s.grid = v.inactive /\ s.inactive = v.grid
    BY <1>4 DEF TermFields
  <1>. HIDE DEF s
  <1>6. Swapped(t, s) BY <1>2, <1>3, <1>4, <1>5 DEF Swapped
  <1>. QED BY <1>1, <1>6

(* What comes back from the other screen is consistent. *)
LEMMA SwappedOK ==
    ASSUME NEW t, TermOK(t), NEW s, Swapped(t, s)
    PROVE  TermOK(s) /\ SameScreen(t, s)
  <1>1. ScreenOK(s.grid, t.cols, t.lines) /\ ScreenOK(s.inactive, t.cols, t.lines)
    <2>1. CASE Has(t, "ALT_SCREEN") BY <2>1 DEF Swapped, TermOK, GeometryOK
    <2>2. CASE ~Has(t, "ALT_SCREEN")
      <3>1. s.grid = [t.inactive EXCEPT !.cursor = t.grid.cursor]
            /\ s.inactive = [t.grid EXCEPT !.saved = t.grid.cursor]
        BY <2>2 DEF Swapped
      <3>. QED BY <3>1 DEF TermOK, GeometryOK, ScreenOK, ScreenFields
    <2>. QED BY <2>1, <2>2
  <1>2. GeometryOK(s) BY <1>1 DEF Swapped, TermOK, GeometryOK
  <1>3. PICK top : top = TopMode(t.inactive_keyboard) /\ top \subseteq KITTY_KEYBOARD_PROTOCOL
    BY StacksTyped, TopModeLaw
  <1>4. PICK n : n = (t.mode \ KITTY_KEYBOARD_PROTOCOL) \cup top OBVIOUS
  <1>5. MouseModesOK(n) BY <1>3, <1>4, KeyboardLaw DEF TermOK, ModesOK
  <1>6. s.mode = n \ {"ALT_SCREEN"} \/ s.mode = n \cup {"ALT_SCREEN"} BY <1>3, <1>4 DEF Swapped
  <1>7. MouseModesOK(s.mode) BY <1>5, <1>6 DEF MouseModesOK, AtMostOneOf, MOUSE_MODE
  <1>8. /\ s.keyboard = t.inactive_keyboard /\ s.inactive_keyboard = t.keyboard /\ s.config = t.config
        /\ s.titles = t.titles /\ s.title = t.title /\ s.style = t.style
    BY DEF Swapped
  <1>9. ASSUME ~t.config.kitty PROVE s.mode \cap KITTY_KEYBOARD_PROTOCOL = {}
    <2>1. top = {} BY <1>3, <1>9 DEF TermOK, ModesOK, StacksOK, TopMode
    <2>2. n \cap KITTY_KEYBOARD_PROTOCOL = {} BY <1>4, <2>1
    <2>. QED BY <1>6, <2>2 DEF KITTY_KEYBOARD_PROTOCOL
  <1>10. StacksOK(s) BY <1>8, <1>9 DEF TermOK, ModesOK, StacksOK
  <1>11. ModesOK(s) BY <1>7, <1>8, <1>10 DEF TermOK, ModesOK, TitlesOK
  <1>. QED BY <1>2, <1>11 DEF TermOK, LineScrolls, SameScreen, Swapped

(* Swapping the screens, directly or through the private mode. *)
LEMMA SwapKeeps ==
    ASSUME NEW t, TermOK(t)
    PROVE  /\ Keeps(t, swap_alt(t))
           /\ Keeps(t, set_private_mode(t, "SwapScreenAndSetRestoreCursor"))
           /\ Keeps(t, unset_private_mode(t, "SwapScreenAndSetRestoreCursor"))
  <1>1. PICK s : Swapped(t, s) /\ swap_alt(t) = mark_fully_damaged(WriteLines(s, 0, t.lines - 1))
    BY SwapLaw
  <1>2. TermOK(s) /\ SameScreen(t, s) BY <1>1, SwappedOK
  <1>3. Keeps(t, swap_alt(t)) BY <1>1, <1>2, MarkLaw
  <1>. QED BY <1>3, KeepsSame DEF set_private_mode, unset_private_mode

(* reset_state leaves the terminal consistent and redraws it. *)
LEMMA ResetKeeps ==
    ASSUME NEW t, TermOK(t)
    PROVE  Keeps(t, reset_state(t))
  <1>a. PICK a : a = IF Has(t, "ALT_SCREEN") THEN [t EXCEPT !.grid = t.inactive, !.inactive = t.grid] ELSE t
    OBVIOUS
  <1>s. PICK s : s = [a EXCEPT !.grid = reset_grid(a.grid), !.inactive = reset_grid(a.inactive),
                    !.region = [start |-> 0, end |-> t.lines], !.tabs = TabStops(t.cols),
                    !.titles = <<>>, !.title = {}, !.sel = NoSelection, !.vi = Point(0, 0),
                    !.keyboard = <<>>, !.inactive_keyboard = <<>>, !.style = {}, !.charset = 0,
                    !.mode = (t.mode \cap {"VI"}) \cup DefaultMode]
    OBVIOUS
  <1>1. reset_state(t) = mark_fully_damaged(WriteLines(s, 0, t.lines - 1))
    BY <1>a, <1>s DEF reset_state
  <1>2. /\ DOMAIN a = TermFields /\ a.cols = t.cols /\ a.lines = t.lines /\ a.damage = t.damage
        /\ a.cell = t.cell /\ a.config = t.config
        /\ ScreenOK(a.grid, t.cols, t.lines) /\ ScreenOK(a.inactive, t.cols, t.lines)
    BY <1>a DEF TermOK, GeometryOK, TermFields
  <1>3. /\ DOMAIN s = TermFields /\ s.cols = t.cols /\ s.lines = t.lines /\ s.damage = t.damage
        /\ s.cell = t.cell /\ s.config = t.config
        /\ s.grid = reset_grid(a.grid) /\ s.inactive = reset_grid(a.inactive)
        /\ s.region = [start |-> 0, end |-> t.lines] /\ s.tabs = TabStops(t.cols)
        /\ s.titles = <<>> /\ s.title = {} /\ s.keyboard = <<>> /\ s.inactive_keyboard = <<>>
        /\ s.style = {} /\ s.mode = (t.mode \cap {"VI"}) \cup DefaultMode
    BY <1>s, <1>2 DEF TermFields
  <1>4. ASSUME NEW g, ScreenOK(g, t.cols, t.lines) PROVE ScreenOK(reset_grid(g), t.cols, t.lines)
    <2>1. PICK c : c = Cursor(0, 0) OBVIOUS
    <2>2. CursorOK(c, t.cols, t.lines)
      BY <2>1 DEF Cursor, CursorOK, CursorFields, AtMostOneOf, TermOK, GeometryOK
    <2>. QED BY <1>4, <2>1, <2>2 DEF ScreenOK, reset_grid, ScreenFields
  <1>5. ScreenOK(s.grid, t.cols, t.lines) /\ ScreenOK(s.inactive, t.cols, t.lines) BY <1>2, <1>3, <1>4
  <1>6. s.tabs \subseteq 0..(t.cols - 1) BY <1>3 DEF TabStops
  <1>7. RegionOK(s.region, t.lines) BY <1>3 DEF RegionOK, TermOK, GeometryOK
  <1>8. GeometryOK(s) BY <1>3, <1>5, <1>6, <1>7 DEF TermOK, GeometryOK
  <1>9. MouseModesOK(s.mode) BY <1>3 DEF MouseModesOK, AtMostOneOf, MOUSE_MODE, DefaultMode
  <1>10. s.mode \cap KITTY_KEYBOARD_PROTOCOL = {} BY <1>3 DEF DefaultMode, KITTY_KEYBOARD_PROTOCOL
  <1>11. StacksOK(s) BY <1>3, <1>10 DEF TermOK, ModesOK, StacksOK
  <1>12. TitlesOK(s)
    <2>1. TITLE_STACK_MAX_DEPTH \in Nat BY TermAssumption
    <2>2. <<>> \in Seq(Titles) /\ Len(<<>>) = 0 /\ {} \in Titles BY DEF Titles
    <2>. QED BY <1>3, <2>1, <2>2 DEF TitlesOK
  <1>13. ModesOK(s) BY <1>3, <1>9, <1>11, <1>12 DEF ModesOK, StyleOK
  <1>14. TermOK(s) /\ SameScreen(t, s) BY <1>3, <1>8, <1>13 DEF TermOK, LineScrolls, SameScreen
  <1>. QED BY <1>1, <1>14, MarkLaw

-----------------------------------------------------------------------------
(* The view *)

(* s shows t elsewhere, or with another selection or vi cursor. *)
View(t, s) ==
    /\ Body(t, s) /\ s.since = t.since
    /\ ScreenOK(s.grid, t.cols, t.lines) /\ s.grid.cursor = t.grid.cursor

(* Such operations keep what is shown, redrawn or not. *)
LEMMA ViewKeeps ==
    ASSUME NEW t, TermOK(t), NEW s, View(t, s)
    PROVE  Keeps(t, s) /\ Keeps(t, mark_fully_damaged(s)) /\ TermOK(s)
  <1>1. TermOK(s) /\ SameScreen(t, s) BY BodyOK DEF View
  <1>2. Aside(t, s) BY DEF View, Body, Aside
  <1>3. ScreenOK(s.grid, t.cols, t.lines) /\ ScreenOK(s.inactive, t.cols, t.lines)
        /\ s.tabs \subseteq 0..(t.cols - 1)
    BY DEF View, Body, TermOK, GeometryOK
  <1>. QED BY <1>1, <1>2, <1>3, AsideKeeps, MarkLaw DEF TermOK

(* The selection and the vi cursor are put elsewhere. *)
LEMMA SelectView ==
    ASSUME NEW t, TermOK(t), NEW sel, NEW p, NEW line
    PROVE  /\ View(t, [t EXCEPT !.sel = sel]) /\ View(t, [t EXCEPT !.vi = p])
           /\ View(t, [t EXCEPT !.vi.line = line])
  BY DEF View, Body, TermOK, GeometryOK, TermFields

(* Two such operations. *)
LEMMA ViewTrans ==
    ASSUME NEW t, NEW s, NEW u, View(t, s), View(s, u)
    PROVE  View(t, u)
  BY DEF View, Body

(* The selection follows the vi cursor, and the vi cursor the view. *)
LEMMA RecomputeView ==
    ASSUME NEW t, TermOK(t)
    PROVE  View(t, vi_mode_recompute_selection(t)) /\ View(t, ViInView(t))
  <1>1. View(t, t) BY DEF View, Body, TermOK, GeometryOK
  <1>2. vi_mode_recompute_selection(t) = t \/ \E sel : vi_mode_recompute_selection(t) = [t EXCEPT !.sel = sel]
    BY DEF vi_mode_recompute_selection
  <1>3. View(t, vi_mode_recompute_selection(t))
    <2>1. CASE vi_mode_recompute_selection(t) = t BY <1>1, <2>1
    <2>2. ASSUME NEW sel, vi_mode_recompute_selection(t) = [t EXCEPT !.sel = sel]
          PROVE  View(t, vi_mode_recompute_selection(t))
      <3>1. View(t, [t EXCEPT !.sel = sel]) BY SelectView
      <3>. QED BY <2>2, <3>1
    <2>. QED BY <1>2, <2>1, <2>2
  <1>4. PICK line : ViInView(t) = [t EXCEPT !.vi.line = line] BY DEF ViInView
  <1>5. View(t, [t EXCEPT !.vi.line = line]) BY SelectView
  <1>. QED BY <1>3, <1>4, <1>5

(* Scrolling the view. *)
LEMMA ScrollDisplayGrid ==
    ASSUME NEW cols, NEW lines \in Nat, NEW g, ScreenOK(g, cols, lines), NEW scroll,
           scroll.to \in {"PageUp", "PageDown", "Top", "Bottom", "Delta"}, scroll.by \in Int
    PROVE  LET h == scroll_display_grid(g, lines, scroll)
           IN  ScreenOK(h, cols, lines) /\ h.cursor = g.cursor
  <1>. DEFINE offset == CASE scroll.to = "PageUp" -> MinOf(g.offset + lines, g.hist)
          [] scroll.to = "PageDown" -> SaturatingSub(g.offset, lines)
          [] scroll.to = "Top" -> g.hist
          [] scroll.to = "Bottom" -> 0
          [] scroll.to = "Delta" -> Clamp(g.offset + scroll.by, 0, g.hist)
  <1>1. offset \in Nat
    <2>1. g.offset \in Nat /\ g.hist \in Nat BY DEF ScreenOK
    <2>. QED BY <2>1 DEF MinOf, MaxOf, SaturatingSub, Clamp
  <1>2. scroll_display_grid(g, lines, scroll) = [g EXCEPT !.offset = offset]
    BY DEF scroll_display_grid
  <1>. HIDE DEF offset
  <1>. QED BY <1>1, <1>2 DEF ScreenOK, ScreenFields

(* A view that is scrolled is redrawn. *)
LEMMA ScrollDisplayKeeps ==
    ASSUME NEW t, TermOK(t), NEW scroll,
           scroll.to \in {"PageUp", "PageDown", "Top", "Bottom", "Delta"}, scroll.by \in Int
    PROVE  Keeps(t, scroll_display(t, scroll))
  <1>. DEFINE g == scroll_display_grid(t.grid, t.lines, scroll)
              s == [t EXCEPT !.grid = g]
              v == ViInView(s)
              u == vi_mode_recompute_selection(v)
  <1>1. scroll_display(t, scroll) = u \/ scroll_display(t, scroll) = mark_fully_damaged(u)
    BY DEF scroll_display
  <1>2. ScreenOK(g, t.cols, t.lines) /\ g.cursor = t.grid.cursor
    <2>1. t.lines \in Nat /\ ScreenOK(t.grid, t.cols, t.lines) BY DEF TermOK, GeometryOK
    <2>. QED BY <2>1, ScrollDisplayGrid
  <1>. HIDE DEF g
  <1>3. View(t, s) BY <1>2 DEF View, Body, TermOK, GeometryOK, TermFields
  <1>. HIDE DEF s
  <1>4. TermOK(s) BY <1>3, ViewKeeps
  <1>5. View(s, v) BY <1>4, RecomputeView
  <1>. HIDE DEF v
  <1>6. TermOK(v) BY <1>4, <1>5, ViewKeeps
  <1>7. View(v, u) BY <1>6, RecomputeView
  <1>. HIDE DEF u
  <1>8. View(t, u) BY <1>3, <1>5, <1>7, ViewTrans
  <1>. QED BY <1>1, <1>8, ViewKeeps

(* A vi motion scrolls to where it leads. *)
LEMMA ViMotionKeeps ==
    ASSUME NEW t, TermOK(t), NEW p, p.line \in Int
    PROVE  Keeps(t, vi_motion(t, p))
  <1>1. t.grid.offset \in Int /\ t.lines \in Int BY DEF TermOK, GeometryOK, ScreenOK
  <1>2. ASSUME NEW n \in Int PROVE Keeps(t, scroll_display(t, Delta(n)))
    <2>1. Delta(n).to = "Delta" /\ Delta(n).by = n BY DEF Delta
    <2>. QED BY <2>1, ScrollDisplayKeeps
  <1>3. PICK s : s = scroll_to_point(t, p) OBVIOUS
  <1>4. Keeps(t, s)
    <2>1. PICK a \in Int, b \in Int : a = -t.grid.offset - p.line /\ b = -t.grid.offset + t.lines - 1 - p.line
      BY <1>1
    <2>2. s = scroll_display(t, Delta(a)) \/ s = scroll_display(t, Delta(b)) \/ s = t
      BY <1>3, <2>1 DEF scroll_to_point
    <2>. QED BY <1>2, <2>2, KeepsSame
  <1>5. PICK u : u = [s EXCEPT !.vi = p] OBVIOUS
  <1>6. View(s, u) /\ TermOK(s) BY <1>4, <1>5, SelectView DEF Keeps
  <1>7. PICK v : v = vi_mode_recompute_selection(u) OBVIOUS
  <1>8. View(s, v) BY <1>6, <1>7, ViewKeeps, RecomputeView, ViewTrans
  <1>9. Keeps(t, v) BY <1>4, <1>6, <1>8, ViewKeeps, KeepsTrans
  <1>. QED BY <1>3, <1>5, <1>7, <1>9, KeepsSame DEF vi_motion, vi_goto_point

(* The flag for following the output. *)
LEMMA ToggleAutoScrollKeeps ==
    ASSUME NEW t, TermOK(t)
    PROVE  Keeps(t, ToggleAutoScroll(t))
  <1>. PICK s : s = ToggleAutoScroll(t) OBVIOUS
  <1>1. Body(t, s) /\ s.since = t.since /\ s.grid = [t.grid EXCEPT !.auto = ~t.display_auto]
    BY DEF ToggleAutoScroll, Body, TermOK, GeometryOK, TermFields
  <1>2. ScreenOK(s.grid, t.cols, t.lines) /\ s.grid.cursor = t.grid.cursor
    BY <1>1 DEF TermOK, GeometryOK, ScreenOK, ScreenFields
  <1>. QED BY <1>1, <1>2, ViewKeeps DEF View

-----------------------------------------------------------------------------
(* Frames *)

(* What is reported of a frame: the lines that are damaged, with the cells the
   cursor left and is on. *)
LEMMA DamageLaw ==
    ASSUME NEW t, GeometryOK(t)
    PROVE  LET r == damage(t)
           IN  /\ SameElsewhere(t, r) /\ r.grid = t.grid /\ r.since = t.since
               /\ DamageOK(r.damage, t.cols, t.lines) /\ r.damage.last = CursorPoint(t)
               /\ Redrawn(t) => r.damage.full
               /\ ~Redrawn(t) =>
                    /\ Includes(r.damage, t.damage.last.line, t.damage.last.col, t.damage.last.col)
                    /\ Includes(r.damage, t.grid.cursor.line, t.grid.cursor.col, t.grid.cursor.col)
                    /\ \A l \in 0..(t.lines - 1) :
                         Includes(r.damage, l, t.damage.lines[l].left, t.damage.lines[l].right)
  <1>1. PICK s : s = IF Has(t, "INSERT") THEN mark_fully_damaged(t) ELSE t OBVIOUS
  <1>2. PICK cp : cp = CursorPoint(s) OBVIOUS
  <1>3. PICK u : u = [s EXCEPT !.damage.last = cp] OBVIOUS
  <1>4. PICK line \in 0..(t.lines - 1), col \in Int : line = t.damage.last.line /\ col = t.damage.last.col
    BY DEF GeometryOK, DamageOK, PointOK
  <1>5. PICK x : x = IF t.damage.last # cp THEN damage_line(u, line, col, col) ELSE u OBVIOUS
  <1>6. /\ SameElsewhere(t, s) /\ s.grid = t.grid /\ s.since = t.since
        /\ DOMAIN s.damage = {"full", "lines", "last"}
        /\ s.damage.last = t.damage.last /\ s.damage.lines = t.damage.lines
        /\ Redrawn(t) => s.damage.full
        /\ s.damage.full => Redrawn(t)
    <2>1. CASE Has(t, "INSERT")
      <3>1. s = [t EXCEPT !.damage.full = TRUE] BY <1>1, <2>1 DEF mark_fully_damaged
      <3>2. Redrawn(t) BY <2>1 DEF Redrawn, Has
      <3>. QED BY <3>1, <3>2 DEF SameElsewhere, GeometryOK, DamageOK, ScreenOK, TermFields
    <2>2. CASE ~Has(t, "INSERT")
      <3>1. s = t BY <1>1, <2>2
      <3>. QED BY <2>2, <3>1 DEF SameElsewhere, GeometryOK, DamageOK, ScreenOK, Redrawn, Has
    <2>. QED BY <2>1, <2>2
  <1>7. cp = CursorPoint(t) /\ PointOK(cp, t.cols, t.lines) /\ cp.line = t.grid.cursor.line /\ cp.col = t.grid.cursor.col
    BY <1>2, <1>6 DEF CursorPoint, Point, PointOK, GeometryOK, ScreenOK, CursorOK
  <1>8. /\ SameElsewhere(t, u) /\ u.grid = t.grid /\ u.since = t.since
        /\ u.damage = [s.damage EXCEPT !.last = cp]
    BY <1>3, <1>6 DEF SameElsewhere, ScreenOK, TermFields
  <1>9. /\ DOMAIN u.damage = {"full", "lines", "last"} /\ u.damage.last = cp
        /\ u.damage.lines = t.damage.lines
        /\ Redrawn(t) => u.damage.full
        /\ u.damage.full => Redrawn(t)
    BY <1>6, <1>8
  <1>10. DamageOK(u.damage, t.cols, t.lines) BY <1>7, <1>9 DEF GeometryOK, DamageOK
  <1>11. GeometryOK(u) BY <1>8, <1>10 DEF SameElsewhere, GeometryOK
  <1>12. damage(t) = IF s.damage.full THEN u ELSE damage_cursor(x)
    BY <1>1, <1>2, <1>3, <1>4, <1>5, <1>6 DEF damage
  <1>13. CASE Redrawn(t)
    <2>1. damage(t) = u BY <1>6, <1>12, <1>13
    <2>. QED BY <1>7, <1>8, <1>9, <1>10, <1>13, <2>1
  <1>14. CASE ~Redrawn(t)
    <2>1. damage(t) = damage_cursor(x) BY <1>6, <1>12, <1>14
    <2>2. u.lines = t.lines /\ u.cols = t.cols BY <1>8 DEF SameElsewhere
    <2>3. /\ SameElsewhere(u, x) /\ x.grid = u.grid /\ x.since = u.since
          /\ DamageOK(x.damage, t.cols, t.lines) /\ Wider(u.damage, x.damage, t.lines)
          /\ GeometryOK(x)
          /\ t.damage.last # cp => Includes(x.damage, line, col, col)
      <3>1. CASE t.damage.last # cp
        <4>1. x = damage_line(u, line, col, col) BY <1>5, <3>1
        <4>. QED BY <1>4, <1>11, <2>2, <4>1, DamageLineLaw
      <3>2. CASE t.damage.last = cp
        <4>1. x = u BY <1>5, <3>2
        <4>2. Wider(u.damage, u.damage, t.lines) BY <1>10, SameWider DEF GeometryOK
        <4>3. SameElsewhere(u, u) BY <1>8 DEF SameElsewhere
        <4>. QED BY <1>10, <1>11, <3>2, <4>1, <4>2, <4>3
      <3>. QED BY <3>1, <3>2
    <2>4. x.lines = t.lines /\ x.cols = t.cols BY <2>2, <2>3 DEF SameElsewhere
    <2>5. PICK r : r = damage_cursor(x) OBVIOUS
    <2>6. PICK l \in 0..(t.lines - 1), c \in Int : l = t.grid.cursor.line /\ c = t.grid.cursor.col
      BY CursorRange
    <2>7. /\ SameElsewhere(x, r) /\ r.grid = x.grid /\ r.since = x.since
          /\ DamageOK(r.damage, t.cols, t.lines) /\ Wider(x.damage, r.damage, t.lines)
          /\ Includes(r.damage, l, c, c)
      BY <1>8, <2>3, <2>4, <2>5, <2>6, DamageCursorLaw
    <2>8. SameElsewhere(t, r) /\ r.grid = t.grid /\ r.since = t.since
      BY <1>8, <2>3, <2>7, SameTrans
    <2>9. r.damage.last = cp BY <1>9, <2>3, <2>7 DEF Wider
    <2>10. Includes(r.damage, line, col, col)
      <3>1. CASE t.damage.last # cp
        <4>. QED BY <1>4, <2>3, <2>7, <3>1, IncludesWider DEF GeometryOK
      <3>2. CASE t.damage.last = cp BY <1>4, <1>7, <2>6, <2>7, <3>2
      <3>. QED BY <3>1, <3>2
    <2>11. \A i \in 0..(t.lines - 1) : Includes(r.damage, i, t.damage.lines[i].left, t.damage.lines[i].right)
      <3>. SUFFICES ASSUME NEW i \in 0..(t.lines - 1)
                    PROVE  Includes(r.damage, i, t.damage.lines[i].left, t.damage.lines[i].right)
        OBVIOUS
      <3>1. PICK a, b : a = u.damage.lines[i] /\ b = x.damage.lines[i] OBVIOUS
      <3>2. a.left \in Int /\ a.right \in Int /\ b.left \in Int /\ b.right \in Int
            /\ r.damage.lines[i].left \in Int /\ r.damage.lines[i].right \in Int
        BY <1>10, <2>3, <2>7, <3>1 DEF DamageOK
      <3>3. b.left <= a.left /\ a.right <= b.right BY <2>3, <3>1 DEF Wider
      <3>4. r.damage.lines[i].left <= b.left /\ b.right <= r.damage.lines[i].right BY <2>7, <3>1 DEF Wider
      <3>5. t.damage.lines[i] = a BY <1>9, <3>1
      <3>. QED BY <3>2, <3>3, <3>4, <3>5 DEF Includes
    <2>. QED BY <1>4, <1>7, <1>14, <2>1, <2>5, <2>6, <2>7, <2>8, <2>9, <2>10, <2>11
  <1>. QED BY <1>13, <1>14

(* What is written is in the damage that is reported. *)
LEMMA DamageReports ==
    ASSUME NEW t, TermOK(t), Shown(t), t.since = "written"
    PROVE  IsDamaged(damage(t), t.cell.line + t.grid.offset, t.cell.col)
  <1>. PICK r : r = damage(t) OBVIOUS
  <1>0. GeometryOK(t) BY DEF TermOK
  <1>1. PICK line \in 0..(t.lines - 1), col \in Int, offset \in Int :
          line = t.cell.line /\ col = t.cell.col /\ offset = t.grid.offset
    BY <1>0 DEF GeometryOK, PointOK, ScreenOK
  <1>2. r.grid = t.grid /\ r.lines = t.lines /\ r.cols = t.cols BY <1>0, DamageLaw DEF SameElsewhere
  <1>3. CASE Redrawn(t) BY <1>0, <1>3, DamageLaw DEF IsDamaged
  <1>4. CASE ~Redrawn(t)
    <2>1. t.damage.lines[line].left \in Int /\ t.damage.lines[line].right \in Int
          /\ r.damage.lines[line].left \in Int /\ r.damage.lines[line].right \in Int
      BY <1>0, DamageLaw DEF GeometryOK, DamageOK
    <2>2. PICK ol \in Int, oc \in Int, cl \in Int, cc \in Int :
            /\ ol = t.damage.last.line /\ oc = t.damage.last.col
            /\ cl = t.grid.cursor.line /\ cc = t.grid.cursor.col
      BY <1>0, CursorRange DEF DamageOK, PointOK
    <2>3. Enclosed(t) BY <1>4 DEF Shown
    <2>4. /\ Includes(r.damage, ol, oc, oc) /\ Includes(r.damage, cl, cc, cc)
          /\ Includes(r.damage, line, t.damage.lines[line].left, t.damage.lines[line].right)
      BY <1>0, <1>4, <2>2, DamageLaw
    <2>5. r.damage.lines[line].left <= col /\ col <= r.damage.lines[line].right
      BY <1>1, <2>1, <2>2, <2>3, <2>4, SMTT(30) DEF Enclosed, Includes
    <2>6. line + offset - offset = line BY <1>1
    <2>7. IsDamaged(r, line + offset, col) BY <1>1, <1>2, <2>5, <2>6 DEF IsDamaged
    <2>. QED BY <1>1, <2>7
  <1>. QED BY <1>3, <1>4

(* The next frame starts from nothing that is written, at the cursor. *)
LEMMA DrawLaw ==
    ASSUME NEW t, TermOK(t)
    PROVE  LET s == Draw(t)
           IN  TermOK(s) /\ SameScreen(t, s) /\ Shown(s)
  <1>. PICK r : r = damage(t) OBVIOUS
  <1>p. PICK lines : lines = [l \in DOMAIN r.damage.lines |-> Undamaged(r.cols)] OBVIOUS
  <1>v. PICK v : v = [r EXCEPT !.damage.full = FALSE, !.damage.lines = lines] OBVIOUS
  <1>s. PICK s : s = [v EXCEPT !.since = "kept"] OBVIOUS
  <1>0. GeometryOK(t) BY DEF TermOK
  <1>1. /\ SameElsewhere(t, r) /\ r.grid = t.grid
        /\ DamageOK(r.damage, t.cols, t.lines) /\ r.damage.last = CursorPoint(t)
    BY <1>0, DamageLaw
  <1>2. Draw(t) = s BY <1>p, <1>v, <1>s DEF Draw, reset_damage
  <1>3. /\ SameElsewhere(t, v) /\ v.grid = t.grid
        /\ v.damage = [r.damage EXCEPT !.full = FALSE, !.lines = lines]
    BY <1>v, <1>0, <1>1 DEF SameElsewhere, TermFields, DamageOK
  <1>4. SameElsewhere(t, s) /\ s.grid = t.grid /\ s.damage = v.damage /\ s.since = "kept"
    BY <1>s, <1>3 DEF SameElsewhere, TermFields
  <1>5. t.cols \in Nat /\ r.cols = t.cols BY <1>0, <1>1, CursorRange DEF SameElsewhere
  <1>6. /\ DOMAIN s.damage = {"full", "lines", "last"} /\ s.damage.last = CursorPoint(t)
        /\ s.damage.lines = lines
    BY <1>1, <1>3, <1>4 DEF DamageOK
  <1>7. DamageOK(s.damage, t.cols, t.lines)
    <2>1. PointOK(s.damage.last, t.cols, t.lines) BY <1>1, <1>6 DEF DamageOK
    <2>2. DOMAIN lines = 0..(t.lines - 1) BY <1>p, <1>1 DEF DamageOK
    <2>3. \A l \in 0..(t.lines - 1) :
             DOMAIN lines[l] = {"left", "right"} /\ lines[l].left \in Int /\ lines[l].right \in Int
      <3>1. \A l \in DOMAIN lines : lines[l] = Undamaged(r.cols) BY <1>p
      <3>2. PICK z : z = Undamaged(r.cols) OBVIOUS
      <3>3. DOMAIN z = {"left", "right"} /\ z.left \in Int /\ z.right \in Int BY <1>5, <3>2 DEF Undamaged
      <3>. QED BY <2>2, <3>1, <3>2, <3>3
    <2>. QED BY <1>6, <2>1, <2>2, <2>3 DEF DamageOK
  <1>8. GeometryOK(s) BY <1>0, <1>4, <1>7 DEF GeometryOK, SameElsewhere
  <1>9. ModesOK(s) BY <1>4 DEF TermOK, ModesOK, SameElsewhere, StacksOK, TitlesOK
  <1>10. Anchored(s)
    <2>1. s.damage.last.line = s.grid.cursor.line /\ s.damage.last.col = s.grid.cursor.col
      BY <1>4, <1>6 DEF CursorPoint, Point
    <2>2. s.grid.cursor.col \in Int BY <1>0, <1>4, CursorRange
    <2>. QED BY <2>1, <2>2 DEF Anchored
  <1>11. Shown(s) BY <1>4, <1>10 DEF Shown
  <1>. QED BY <1>2, <1>4, <1>8, <1>9, <1>11 DEF TermOK, LineScrolls, SameScreen, SameElsewhere

-----------------------------------------------------------------------------
(* Resizing *)

(* The cursors of a screen whose lines are others stay on it. *)
LEMMA ResizeLinesOK ==
    ASSUME NEW cols \in Nat, NEW old \in Nat \ {0}, NEW lines \in Nat \ {0},
           NEW g, ScreenOK(g, cols, old)
    PROVE  ScreenOK(resize_lines(g, old, lines), cols, lines)
  <1>0. /\ g.hist \in Nat /\ g.limit \in Nat /\ g.hist <= g.limit /\ g.offset \in Nat
        /\ g.cursor.line \in 0..(old - 1) /\ g.saved.line \in 0..(old - 1)
        /\ DOMAIN g.cursor = CursorFields /\ DOMAIN g.saved = CursorFields
    BY DEF ScreenOK, CursorOK
  <1>1. ASSUME NEW s, ScreenOK(s, cols, old), s.cursor = g.cursor, s.saved = g.saved,
               NEW u, DOMAIN u = ScreenFields, u.limit = s.limit, u.hist \in 0..s.limit, u.offset \in Nat,
               NEW l \in 0..(lines - 1), NEW m \in 0..(lines - 1),
               u.cursor = [g.cursor EXCEPT !.line = l], u.saved = [g.saved EXCEPT !.line = m]
        PROVE  ScreenOK(u, cols, lines)
    <2>1. CursorOK(u.cursor, cols, lines) /\ CursorOK(u.saved, cols, lines)
      BY <1>0, <1>1 DEF ScreenOK, CursorOK, CursorFields
    <2>. QED BY <1>1, <2>1 DEF ScreenOK
  <1>2. CASE lines > old
    <2>1. PICK added \in Nat, taken \in Nat :
            added = lines - old /\ taken = MinOf(g.hist, added) /\ taken <= added
      <3>1. lines - old \in Nat /\ MinOf(g.hist, lines - old) \in Nat /\ MinOf(g.hist, lines - old) <= lines - old
        BY <1>0, <1>2 DEF MinOf
      <3>. QED BY <3>1
    <2>2. PICK s : s = IF taken # added THEN scroll_up_grid(g, 0, lines, added - taken) ELSE g OBVIOUS
    <2>3. ScreenOK(s, cols, old) /\ s.cursor = g.cursor /\ s.saved = g.saved
      <3>1. PICK z \in Int, h \in Int, n \in Int : z = 0 /\ h = lines /\ n = added - taken OBVIOUS
      <3>2. n \in Nat /\ old \in Nat BY <2>1, <3>1
      <3>. QED BY <2>2, <3>1, <3>2, ScrollUpGrid
    <2>4. PICK hist : hist = SaturatingSub(s.hist, added) OBVIOUS
    <2>5. PICK offset : offset = MinOf(SaturatingSub(s.offset, added), hist) OBVIOUS
    <2>6. hist \in 0..s.limit /\ offset \in Nat
      BY <2>1, <2>3, <2>4, <2>5 DEF ScreenOK, MinOf, SaturatingSub
    <2>7. PICK l \in 0..(lines - 1), m \in 0..(lines - 1) : l = g.cursor.line + taken /\ m = g.saved.line + taken
      <3>1. g.cursor.line + taken \in 0..(lines - 1) /\ g.saved.line + taken \in 0..(lines - 1)
        BY <1>0, <1>2, <2>1
      <3>. QED BY <3>1
    <2>8. PICK u : u = [s EXCEPT !.hist = hist, !.offset = offset, !.cursor.line = l, !.saved.line = m]
      OBVIOUS
    <2>9. resize_lines(g, old, lines) = u
      BY <1>2, <2>1, <2>2, <2>4, <2>5, <2>7, <2>8 DEF resize_lines
    <2>10. /\ DOMAIN u = ScreenFields /\ u.limit = s.limit /\ u.hist = hist /\ u.offset = offset
           /\ u.cursor = [g.cursor EXCEPT !.line = l] /\ u.saved = [g.saved EXCEPT !.line = m]
      BY <2>3, <2>8 DEF ScreenOK, ScreenFields
    <2>. QED BY <1>1, <2>3, <2>6, <2>9, <2>10
  <1>3. CASE ~(lines > old)
    <2>1. PICK required \in Nat : required = SaturatingSub(g.cursor.line + 1, lines)
      <3>1. SaturatingSub(g.cursor.line + 1, lines) \in Nat BY <1>0 DEF SaturatingSub
      <3>. QED BY <3>1
    <2>2. PICK s : s = IF required > 0 THEN scroll_up_grid(g, 0, old, required) ELSE g OBVIOUS
    <2>3. ScreenOK(s, cols, old) /\ s.cursor = g.cursor /\ s.saved = g.saved
      <3>1. PICK z \in Int, h \in Int : z = 0 /\ h = old OBVIOUS
      <3>2. old \in Nat OBVIOUS
      <3>. QED BY <2>2, <3>1, <3>2, ScrollUpGrid
    <2>4. PICK l \in 0..(lines - 1), m \in 0..(lines - 1) :
            l = MinOf(g.cursor.line, lines - 1) /\ m = MinOf(g.saved.line, lines - 1)
      <3>1. MinOf(g.cursor.line, lines - 1) \in 0..(lines - 1) /\ MinOf(g.saved.line, lines - 1) \in 0..(lines - 1)
        BY <1>0 DEF MinOf
      <3>. QED BY <3>1
    <2>5. PICK u : u = [s EXCEPT !.cursor.line = l, !.saved.line = m] OBVIOUS
    <2>6. resize_lines(g, old, lines) = u
      BY <1>3, <2>1, <2>2, <2>4, <2>5 DEF resize_lines
    <2>7. /\ DOMAIN u = ScreenFields /\ u.limit = s.limit /\ u.hist = s.hist /\ u.offset = s.offset
          /\ u.cursor = [g.cursor EXCEPT !.line = l] /\ u.saved = [g.saved EXCEPT !.line = m]
      BY <2>3, <2>5 DEF ScreenOK, ScreenFields
    <2>8. u.hist \in 0..s.limit /\ u.offset \in Nat BY <2>3, <2>7 DEF ScreenOK
    <2>. QED BY <1>1, <2>3, <2>6, <2>7, <2>8
  <1>. QED BY <1>2, <1>3

(* So do those of a screen that is reflowed, *)
LEMMA ResizeColumnsOK ==
    ASSUME NEW old \in Nat \ {0}, NEW cols \in Nat \ {0}, NEW lines \in Nat \ {0}, NEW reflow,
           NEW g, ScreenOK(g, old, lines), NEW h \in resize_columns(g, reflow, cols, lines)
    PROVE  ScreenOK(h, cols, lines)
  <1>0. /\ g.hist \in 0..g.limit /\ g.limit \in Nat /\ g.offset \in Nat
        /\ g.cursor.line \in 0..(lines - 1) /\ g.saved.line \in 0..(lines - 1)
        /\ g.cursor.col \in Nat /\ g.saved.col \in Nat
        /\ DOMAIN g.cursor = CursorFields /\ DOMAIN g.saved = CursorFields /\ DOMAIN g = ScreenFields
        /\ AtMostOneOf(g.cursor.template, ALL_UNDERLINES) /\ AtMostOneOf(g.saved.template, ALL_UNDERLINES)
    BY DEF ScreenOK, CursorOK
  <1>1. PICK a \in 0..(cols - 1), b \in 0..(cols - 1) :
          a = MinOf(g.saved.col, cols - 1) /\ b = MinOf(g.cursor.col, cols - 1)
    <2>1. MinOf(g.saved.col, cols - 1) \in 0..(cols - 1) /\ MinOf(g.cursor.col, cols - 1) \in 0..(cols - 1)
      BY <1>0 DEF MinOf
    <2>. QED BY <2>1
  <1>2. PICK s : s = [g EXCEPT !.saved.col = a] OBVIOUS
  <1>3. /\ DOMAIN s = ScreenFields /\ s.hist = g.hist /\ s.limit = g.limit /\ s.offset = g.offset
        /\ s.cursor = g.cursor /\ s.saved = [g.saved EXCEPT !.col = a]
    BY <1>0, <1>2 DEF ScreenFields
  <1>4. CursorOK(s.saved, cols, lines) BY <1>0, <1>3 DEF CursorOK, CursorFields
  <1>5. CASE ~reflow
    <2>1. h = [s EXCEPT !.cursor.col = b] BY <1>1, <1>2, <1>5 DEF resize_columns
    <2>2. /\ DOMAIN h = ScreenFields /\ h.hist = g.hist /\ h.limit = g.limit /\ h.offset = g.offset
          /\ h.saved = s.saved /\ h.cursor = [g.cursor EXCEPT !.col = b]
      BY <1>3, <2>1 DEF ScreenFields
    <2>3. CursorOK(h.cursor, cols, lines) BY <1>0, <2>2 DEF CursorOK, CursorFields
    <2>. QED BY <1>0, <1>4, <2>2, <2>3 DEF ScreenOK
  <1>6. CASE reflow
    <2>1. PICK hist \in 0..g.limit, l \in 0..(lines - 1), c \in 0..(cols - 1), wrap \in BOOLEAN :
            h = Reflowed(s, hist, l, c, wrap)
      BY <1>1, <1>2, <1>6 DEF resize_columns
    <2>2. PICK offset : offset = MinOf(g.offset, hist) OBVIOUS
    <2>3. PICK cursor : cursor = [g.cursor EXCEPT !.line = l, !.col = c, !.wrap = wrap] OBVIOUS
    <2>4. offset \in Nat BY <1>0, <2>2 DEF MinOf
    <2>5. /\ DOMAIN h = ScreenFields /\ h.hist = hist /\ h.limit = g.limit /\ h.offset = offset
          /\ h.saved = s.saved /\ h.cursor = cursor
      BY <1>3, <2>1, <2>2, <2>3 DEF ScreenFields, Reflowed
    <2>6. CursorOK(cursor, cols, lines) BY <1>0, <2>3 DEF CursorOK, CursorFields
    <2>. QED BY <1>0, <1>4, <2>4, <2>5, <2>6 DEF ScreenOK
  <1>. QED BY <1>5, <1>6

(* and of one that is resized. *)
LEMMA ResizeGridOK ==
    ASSUME NEW t, t.cols \in Nat \ {0}, t.lines \in Nat \ {0}, NEW g, ScreenOK(g, t.cols, t.lines),
           NEW cols \in Nat \ {0}, NEW lines \in Nat \ {0}, NEW reflow,
           NEW h \in resize_grid(g, t, reflow, cols, lines)
    PROVE  ScreenOK(h, cols, lines)
  <1>1. PICK s : s = IF lines # t.lines THEN resize_lines(g, t.lines, lines) ELSE g OBVIOUS
  <1>2. ScreenOK(s, t.cols, lines)
    <2>1. PICK a \in Nat, b \in Nat \ {0} : a = t.cols /\ b = t.lines OBVIOUS
    <2>. QED BY <1>1, <2>1, ResizeLinesOK
  <1>3. h \in (IF cols # t.cols THEN resize_columns(s, reflow, cols, lines) ELSE {s})
    BY <1>1 DEF resize_grid
  <1>4. CASE cols # t.cols
    <2>1. PICK a \in Nat \ {0} : a = t.cols OBVIOUS
    <2>. QED BY <1>2, <1>3, <1>4, <2>1, ResizeColumnsOK
  <1>5. CASE cols = t.cols BY <1>2, <1>3, <1>5
  <1>. QED BY <1>4, <1>5

(* A resized terminal is drawn whole, and its scrolling region is the screen. *)
LEMMA ResizedOK ==
    ASSUME NEW t, TermOK(t), NEW cols \in Nat \ {0}, NEW lines \in Nat \ {0},
           NEW g, ScreenOK(g, cols, lines), NEW i, ScreenOK(i, cols, lines)
    PROVE  LET s == Resized(t, cols, lines, g, i)
           IN  TermOK(s) /\ s.damage.full /\ LineScrolls(s) /\ s.cols = cols
  <1>1. PICK tabs : tabs = IF cols # t.cols THEN resize_tabs(t.tabs, t.cols, cols) ELSE t.tabs OBVIOUS
  <1>2. PICK region, d, cell : /\ region = [start |-> 0, end |-> lines] /\ d = damage_resize(cols, lines)
                               /\ cell = Point(0, 0)
    OBVIOUS
  <1>3. PICK p : p = [t EXCEPT !.cols = cols, !.lines = lines, !.grid = g, !.inactive = i] OBVIOUS
  <1>a. PICK q, s, sel, vi, line :
          /\ q = [p EXCEPT !.sel = sel, !.tabs = tabs, !.vi = vi, !.region = region,
                           !.damage = d, !.cell = cell, !.since = "written"]
          /\ s = [q EXCEPT !.vi.line = line]
          /\ s = Resized(t, cols, lines, g, i)
    BY <1>1, <1>2, <1>3, ZenonT(30) DEF Resized, ViInView
  <1>b. /\ DOMAIN p = TermFields /\ p.cols = cols /\ p.lines = lines /\ p.grid = g /\ p.inactive = i
        /\ p.mode = t.mode /\ p.keyboard = t.keyboard /\ p.inactive_keyboard = t.inactive_keyboard
        /\ p.config = t.config /\ p.titles = t.titles /\ p.title = t.title /\ p.style = t.style
    BY <1>3, StacksTyped DEF TermFields
  <1>c. /\ DOMAIN q = TermFields /\ q.cols = cols /\ q.lines = lines /\ q.grid = g /\ q.inactive = i
        /\ q.tabs = tabs /\ q.region = region /\ q.damage = d /\ q.cell = cell /\ q.mode = p.mode
        /\ q.keyboard = p.keyboard /\ q.inactive_keyboard = p.inactive_keyboard
        /\ q.config = p.config /\ q.titles = p.titles /\ q.title = p.title /\ q.style = p.style
    BY <1>a, <1>b DEF TermFields
  <1>4. /\ DOMAIN s = TermFields /\ s.cols = cols /\ s.lines = lines /\ s.grid = g /\ s.inactive = i
        /\ s.tabs = tabs /\ s.region = region /\ s.damage = d /\ s.cell = cell /\ s.mode = t.mode
        /\ s.keyboard = t.keyboard /\ s.inactive_keyboard = t.inactive_keyboard
        /\ s.config = t.config /\ s.titles = t.titles /\ s.title = t.title /\ s.style = t.style
    BY <1>a, <1>b, <1>c DEF TermFields
  <1>5. tabs \subseteq 0..(cols - 1)
    <2>1. CASE cols # t.cols
      <3>1. t.cols \in Nat /\ t.tabs \subseteq 0..(t.cols - 1) BY DEF TermOK, GeometryOK
      <3>. QED BY <1>1, <2>1, <3>1 DEF resize_tabs
    <2>2. CASE cols = t.cols BY <1>1, <2>2 DEF TermOK, GeometryOK
    <2>. QED BY <2>1, <2>2
  <1>6. PointOK(cell, cols, lines) BY <1>2 DEF Point, PointOK
  <1>7. RegionOK(region, lines) BY <1>2 DEF RegionOK
  <1>8. DamageOK(d, cols, lines) /\ d.full
    <2>1. /\ DOMAIN d = {"full", "lines", "last"} /\ d.full /\ d.last = Point(0, 0)
          /\ d.lines = [l \in 0..(lines - 1) |-> Undamaged(cols)]
      BY <1>2 DEF damage_resize
    <2>2. PICK z : z = Undamaged(cols) OBVIOUS
    <2>3. DOMAIN z = {"left", "right"} /\ z.left \in Int /\ z.right \in Int BY <2>2 DEF Undamaged
    <2>. QED BY <1>2, <1>6, <2>1, <2>2, <2>3 DEF DamageOK
  <1>9. GeometryOK(s) BY <1>4, <1>5, <1>6, <1>7, <1>8 DEF GeometryOK
  <1>10. ModesOK(s) BY <1>4 DEF TermOK, ModesOK, StacksOK, TitlesOK
  <1>11. LineScrolls(s) /\ TermOK(s) BY <1>2, <1>4, <1>9, <1>10 DEF TermOK, LineScrolls
  <1>12. s.damage.full /\ s.cols = cols BY <1>4, <1>8
  <1>13. s = Resized(t, cols, lines, g, i) BY <1>a
  <1>. QED BY <1>11, <1>12, <1>13, Zenon

(* resize keeps a terminal of the same size, and leaves one that is drawn whole
   otherwise. *)
LEMMA ResizeLaw ==
    ASSUME NEW t, TermOK(t), NEW cols \in Nat \ {0}, NEW lines \in Nat \ {0},
           NEW s \in TermResize(t, cols, lines)
    PROVE  s = t \/ (TermOK(s) /\ s.damage.full /\ LineScrolls(s) /\ s.cols = cols)
  <1>1. CASE cols = t.cols /\ lines = t.lines BY <1>1 DEF TermResize
  <1>2. CASE ~(cols = t.cols /\ lines = t.lines)
    <2>1. PICK a, b : a = ~Has(t, "ALT_SCREEN") /\ b = Has(t, "ALT_SCREEN") OBVIOUS
    <2>2. PICK g \in resize_grid(t.grid, t, a, cols, lines), i \in resize_grid(t.inactive, t, b, cols, lines) :
            s = Resized(t, cols, lines, g, i)
      BY <1>2, <2>1 DEF TermResize
    <2>3. ScreenOK(g, cols, lines) /\ ScreenOK(i, cols, lines)
      BY ResizeGridOK DEF TermOK, GeometryOK
    <2>. QED BY <2>2, <2>3, ResizedOK
  <1>. QED BY <1>1, <1>2

-----------------------------------------------------------------------------
(* The terminal under any sequence of operations *)

(* The groups in which frames are drawn. *)
Drawn == {"write", "insert", "tabs", "margins"}

(* The inductive invariant of the terminal. What is written is certain to be shown
   unless the watched cell is on the bottom line and a scrolling region may end above
   it: a line feed there does nothing, so that a wrap damages nothing of the line it
   leaves (Term::wrapline). *)
TermInv ==
    /\ group \in DOMAIN Size
    /\ TermOK(term)
    /\ group \in Drawn /\ ~BelowMargin => LineScrolls(term) /\ Shown(term)
    /\ group \notin Drawn => term.damage.full
    /\ group \in {"write", "region"} => term.cols >= 2

(* What every operation keeps is enough. *)
LEMMA KeepsInv ==
    ASSUME TermInv, Keeps(term, term'), UNCHANGED group
    PROVE  TermInv'
  BY DEF TermInv, Keeps, SameScreen, BelowMargin, Shown, Redrawn

(* A new terminal. *)
LEMMA InitInv ==
    ASSUME Init
    PROVE  TermInv
  <1>1. PICK cols, lines : cols = Size[group][1] /\ lines = Size[group][2] OBVIOUS
  <1>2. cols \in Nat \ {0} /\ lines \in Nat \ {0} /\ (group \in {"write", "region"} => cols >= 2)
    BY <1>1, SizeAssumption DEF Init, SizeOK
  <1>3. PICK col \in 0..(cols - 1), kitty \in BOOLEAN, history \in {History, 0} :
          term = NewTerm(cols, lines, Config(kitty, history), Point(col % lines, col))
    BY <1>1 DEF Init
  <1>4. PICK config, cell : config = Config(kitty, history) /\ cell = Point(col % lines, col) OBVIOUS
  <1>5. ConfigOK(config) BY <1>4, SizeAssumption DEF Config, ConfigOK
  <1>6. PointOK(cell, cols, lines)
    <2>1. col % lines \in 0..(lines - 1) BY <1>2
    <2>. QED BY <1>3, <1>4, <2>1 DEF Point, PointOK
  <1>7. PICK t : t = NewTerm(cols, lines, config, cell) OBVIOUS
  <1>8. /\ DOMAIN t = TermFields /\ t.cols = cols /\ t.lines = lines
        /\ t.grid = Screen(config.history) /\ t.inactive = Screen(0)
        /\ t.mode = DefaultMode /\ t.region = [start |-> 0, end |-> lines] /\ t.tabs = TabStops(cols)
        /\ t.keyboard = <<>> /\ t.inactive_keyboard = <<>> /\ t.titles = <<>> /\ t.title = {}
        /\ t.style = {} /\ t.config = config /\ t.cell = cell
        /\ t.damage = damage_resize(cols, lines)
    BY <1>7 DEF NewTerm, TermFields, damage_resize
  <1>9. GeometryOK(t)
    <2>1. PICK c : c = Cursor(0, 0) OBVIOUS
    <2>2. CursorOK(c, cols, lines)
      BY <1>2, <2>1 DEF Cursor, CursorOK, CursorFields, AtMostOneOf
    <2>3. ASSUME NEW limit \in Nat PROVE ScreenOK(Screen(limit), cols, lines)
      BY <2>1, <2>2 DEF Screen, ScreenOK, ScreenFields
    <2>4. ScreenOK(t.grid, cols, lines) /\ ScreenOK(t.inactive, cols, lines)
      <3>1. config.history \in Nat /\ 0 \in Nat BY <1>5 DEF ConfigOK
      <3>. QED BY <1>8, <2>3, <3>1
    <2>5. DamageOK(t.damage, cols, lines)
      <3>1. PICK d : d = damage_resize(cols, lines) OBVIOUS
      <3>2. /\ DOMAIN d = {"full", "lines", "last"} /\ d.last = Point(0, 0)
            /\ d.lines = [l \in 0..(lines - 1) |-> Undamaged(cols)]
        BY <3>1 DEF damage_resize
      <3>3. PICK z : z = Undamaged(cols) OBVIOUS
      <3>4. DOMAIN z = {"left", "right"} /\ z.left \in Int /\ z.right \in Int BY <1>2, <3>3 DEF Undamaged
      <3>5. PointOK(Point(0, 0), cols, lines) BY <1>2 DEF Point, PointOK
      <3>. QED BY <1>8, <3>1, <3>2, <3>3, <3>4, <3>5 DEF DamageOK
    <2>6. t.tabs \subseteq 0..(cols - 1) BY <1>8 DEF TabStops
    <2>7. RegionOK(t.region, lines) BY <1>2, <1>8 DEF RegionOK
    <2>. QED BY <1>2, <1>6, <1>8, <2>4, <2>5, <2>6, <2>7 DEF GeometryOK
  <1>10. ModesOK(t)
    <2>1. MouseModesOK(t.mode) BY <1>8 DEF MouseModesOK, AtMostOneOf, MOUSE_MODE, DefaultMode
    <2>2. t.mode \cap KITTY_KEYBOARD_PROTOCOL = {} BY <1>8 DEF DefaultMode, KITTY_KEYBOARD_PROTOCOL
    <2>3. <<>> \in Seq(SUBSET KITTY_KEYBOARD_PROTOCOL) /\ <<>> \in Seq(Titles) /\ Len(<<>>) = 0 /\ {} \in Titles
      BY DEF Titles
    <2>4. StacksOK(t) BY <1>5, <1>8, <2>2, <2>3 DEF StacksOK, ConfigOK
    <2>5. TITLE_STACK_MAX_DEPTH \in Nat BY TermAssumption
    <2>6. TitlesOK(t) BY <1>8, <2>3, <2>5 DEF TitlesOK
    <2>. QED BY <1>8, <2>1, <2>4, <2>6 DEF ModesOK, StyleOK
  <1>11. LineScrolls(t) /\ t.damage.full BY <1>8 DEF LineScrolls, damage_resize
  <1>12. group \in DOMAIN Size BY DEF Init
  <1>13. term = t BY <1>3, <1>4, <1>7
  <1>. QED BY <1>2, <1>8, <1>9, <1>10, <1>11, <1>12, <1>13 DEF TermInv, TermOK, Shown, Redrawn

(* Writing and erasing, *)
LEMMA WritingInv ==
    ASSUME TermInv, Input \/ Erase
    PROVE  Keeps(term, term') /\ UNCHANGED group
  <1>0. TermOK(term) BY DEF TermInv
  <1>1. CASE Input
    <2>1. group \in {"write"} => term.cols >= 2 BY DEF TermInv
    <2>. QED BY <1>0, <1>1, <2>1, InputZerowidthKeeps, InputNarrowKeeps, InputWideKeeps DEF Input, In, Do
  <1>2. CASE Erase
    <2>1. ASSUME NEW n \in 1..2 PROVE n \in Nat OBVIOUS
    <2>2. PICK z \in Nat : z = 0 OBVIOUS
    <2>. QED BY <1>0, <1>2, <2>1, <2>2, DecalnKeeps, EraseKeeps, ClearScreenKeeps DEF Erase, In, Do
  <1>. QED BY <1>1, <1>2

(* moving the cursor, *)
LEMMA MovingInv ==
    ASSUME TermInv, Move \/ Tab
    PROVE  Keeps(term, term') /\ UNCHANGED group
  <1>0. TermOK(term) /\ GeometryOK(term) /\ term.cols \in Nat /\ term.lines \in Nat
    BY DEF TermInv, TermOK, GeometryOK
  <1>1. PICK zero \in Nat, one \in Nat, two \in Nat : zero = 0 /\ one = 1 /\ two = 2 OBVIOUS
  <1>2. CASE Move
    <2>1. ASSUME NEW s, Jump(term, s) PROVE Keeps(term, s) BY <1>0, <2>1, JumpKeeps
    <2>2. CASE \E line \in 0..term.lines - 1 : Do(goto(term, line, term.cols - 1))
      <3>1. PICK line \in Int, col \in Nat : Do(goto(term, line, col))
        <4>1. term.cols - 1 \in Nat BY <1>0 DEF GeometryOK
        <4>. QED BY <2>2, <4>1
      <3>. QED BY <1>0, <2>1, <3>1, GotoJump DEF Do
    <2>3. CASE \/ Do(goto_line(term, 0)) \/ Do(goto_col(term, 1))
               \/ Do(move_up(term, 1)) \/ Do(move_down(term, 1))
               \/ Do(move_up_and_cr(term, 1)) \/ Do(move_down_and_cr(term, 1))
      BY <1>0, <1>1, <2>1, <2>3, GotoJumps DEF Do
    <2>4. CASE \/ Do(move_forward(term, 1)) \/ Do(move_backward(term, 1)) \/ Do(carriage_return(term))
      BY <1>0, <1>1, <2>1, <2>4, ForwardJump DEF Do
    <2>5. CASE Do(backspace(term)) BY <1>0, <2>1, <2>5, BackspaceJump, KeepsSame DEF Do
    <2>6. CASE Do(newline(term)) \/ Do(reverse_index(term)) BY <1>0, <2>6, LinefeedKeeps DEF Do
    <2>7. CASE Do(save_cursor_position(term)) \/ Do(restore_cursor_position(term))
      BY <1>0, <2>7, SaveKeeps, RestoreKeeps DEF Do
    <2>8. CASE Do(insert_blank_lines(term, 1)) \/ Do(delete_lines(term, 2))
      BY <1>0, <1>1, <2>8, ScrollsKeep DEF Do
    <2>. QED BY <1>2, <2>2, <2>3, <2>4, <2>5, <2>6, <2>7, <2>8 DEF Move
  <1>3. CASE Tab
    <2>1. CASE Do(put_tab(term, 1)) BY <1>0, <1>1, <2>1, PutTabKeeps DEF Do
    <2>2. CASE Do(move_forward_tabs(term, 2)) \/ Do(move_backward_tabs(term, 1))
      BY <1>0, <1>1, <2>2, TabJump, JumpKeeps DEF Do
    <2>3. CASE Do(set_horizontal_tabstop(term)) BY <1>0, <2>3, TabstopsKeep DEF Do
    <2>4. CASE \E mode \in {"Current", "All"} : Do(clear_tabs(term, mode)) BY <1>0, <2>4, TabstopsKeep DEF Do
    <2>. QED BY <1>3, <2>1, <2>2, <2>3, <2>4 DEF Tab
  <1>. QED BY <1>2, <1>3

(* A new region: the bottom line may no longer scroll, but the watched cell is not on it. *)
LEMMA RegionInv ==
    ASSUME TermInv, Region
    PROVE  TermInv'
  <1>0. TermOK(term) /\ term.lines \in Nat BY DEF TermInv, TermOK, GeometryOK
  <1>1. CASE \E top \in 1..term.lines, bottom \in 2..term.lines + 1 :
               In({"region", "margins"}) /\ Do(set_scrolling_region(term, top, bottom))
    <2>1. PICK top \in 1..term.lines, bottom \in 2..term.lines + 1 :
            In({"region", "margins"}) /\ Do(set_scrolling_region(term, top, bottom))
      BY <1>1
    <2>2. top \in Nat \ {0} /\ bottom \in Nat BY <1>0
    <2>3. /\ TermOK(term') /\ (term.damage.full => term'.damage.full)
          /\ term'.cols = term.cols /\ term'.lines = term.lines /\ term'.cell = term.cell
          /\ term.cell.line # term.lines - 1 /\ Shown(term) => LineScrolls(term') /\ Shown(term')
      BY <1>0, <2>1, <2>2, RegionLaw DEF Do
    <2>4. group' = group /\ group \in {"region", "margins"} BY <2>1 DEF In, Do
    <2>. QED BY <2>3, <2>4 DEF TermInv, Drawn, BelowMargin
  <1>2. CASE /\ In({"region"})
             /\ \/ \E mode \in {"Origin", "LineWrap"} :
                     Do(set_private_mode(term, mode)) \/ Do(unset_private_mode(term, mode))
                \/ Do(input_wide(term, "narrow"))
    <2>1. \A mode \in {"Origin", "LineWrap"} : mode \in PrivateModes \ {"SwapScreenAndSetRestoreCursor"}
      BY DEF PrivateModes, ModeOf
    <2>2. term.cols >= 2 BY <1>2 DEF TermInv, In
    <2>3. Keeps(term, term') /\ UNCHANGED group
      BY <1>0, <1>2, <2>1, <2>2, PrivateModesKeep, InputWideKeeps DEF Do
    <2>. QED BY <2>3, KeepsInv
  <1>. QED BY <1>1, <1>2 DEF Region

(* setting modes, *)
LEMMA ModesInv ==
    ASSUME TermInv, InsertMode \/ Modes
    PROVE  Keeps(term, term') /\ UNCHANGED group
  <1>0. TermOK(term) BY DEF TermInv
  <1>1. ASSUME NEW mode \in PrivateModes, Do(set_private_mode(term, mode)) \/ Do(unset_private_mode(term, mode))
        PROVE  Keeps(term, term') /\ UNCHANGED group
    BY <1>0, <1>1, PrivateModesKeep, SwapKeeps DEF Do
  <1>2. ASSUME NEW mode \in DOMAIN PublicMode, Do(set_mode(term, mode)) \/ Do(unset_mode(term, mode))
        PROVE  Keeps(term, term') /\ UNCHANGED group
    BY <1>0, <1>2, PublicModesKeep DEF Do
  <1>3. CASE InsertMode
    <2>1. "LineWrap" \in PrivateModes /\ "Insert" \in DOMAIN PublicMode /\ "LineFeedNewLine" \in DOMAIN PublicMode
      BY DEF PrivateModes, ModeOf, PublicMode
    <2>. QED BY <1>1, <1>2, <1>3, <2>1 DEF InsertMode
  <1>4. CASE Modes
    <2>1. CASE \E mode \in PrivateModes \ Flags :
                 Do(set_private_mode(term, mode)) \/ Do(unset_private_mode(term, mode))
      BY <1>1, <2>1
    <2>2. CASE \/ Do(set_keypad_application_mode(term)) \/ Do(unset_keypad_application_mode(term))
               \/ Do(toggle_vi_mode(term))
      BY <1>0, <2>2, SmallModesKeep DEF Do
    <2>3. CASE Do(ReportBlinking(term)) BY <1>0, <2>3, StylesKeep DEF Do
    <2>4. CASE Do(reset_state(term)) BY <1>0, <2>4, ResetKeeps DEF Do
    <2>. QED BY <1>4, <2>1, <2>2, <2>3, <2>4 DEF Modes
  <1>. QED BY <1>3, <1>4

(* reloading the configuration, *)
LEMMA OptionsInv ==
    ASSUME TermInv, NEW kitty \in BOOLEAN, NEW history \in Nat
    PROVE  /\ Keeps(term, set_options(term, [term.config EXCEPT !.kitty = kitty]))
           /\ Keeps(term, set_options(term, [term.config EXCEPT !.history = history]))
  <1>0. TermOK(term) BY DEF TermInv
  <1>1. PICK a, b : /\ a = [term.config EXCEPT !.kitty = kitty]
                    /\ b = [term.config EXCEPT !.history = history]
    OBVIOUS
  <1>2. ConfigOK(a) /\ ConfigOK(b) BY <1>0, <1>1 DEF TermOK, ModesOK, StacksOK, ConfigOK
  <1>. QED BY <1>0, <1>1, <1>2, OptionsKeep

(* the stacks, the pen and the style, *)
LEMMA StacksInv ==
    ASSUME TermInv, Stacks \/ Pen \/ Style
    PROVE  Keeps(term, term') /\ UNCHANGED group
  <1>0. TermOK(term) BY DEF TermInv
  <1>1. CASE Stacks
    <2>1. \A mode \in KeyboardModes : mode \in SUBSET KITTY_KEYBOARD_PROTOCOL
      BY DEF KeyboardModes, KITTY_KEYBOARD_PROTOCOL
    <2>2. PICK any \in SUBSET KITTY_KEYBOARD_PROTOCOL : any = {} OBVIOUS
    <2>3. CASE \E mode \in KeyboardModes : Do(push_keyboard_mode(term, mode))
      BY <1>0, <2>1, <2>3, PushKeyboardKeeps DEF Do
    <2>4. CASE \E mode \in KeyboardModes, apply \in {"Replace", "Union", "Difference"} :
                 Do(apply_keyboard_mode(term, mode, apply))
      <3>1. PICK zero \in Nat : zero = 0 OBVIOUS
      <3>. QED BY <1>0, <2>1, <2>4, <3>1, PopKeyboardKeeps DEF Do
    <2>5. CASE \E n \in {1, 3} : Do(pop_keyboard_modes(term, n))
      <3>1. PICK n \in Nat : Do(pop_keyboard_modes(term, n)) BY <2>5
      <3>2. "Replace" \in {"Replace", "Union", "Difference"} OBVIOUS
      <3>. QED BY <1>0, <2>2, <3>1, <3>2, PopKeyboardKeeps DEF Do
    <2>6. CASE (\E title \in Titles : Do(set_title(term, title))) \/ Do(push_title(term)) \/ Do(pop_title(term))
      <3>1. {} \in Titles BY DEF Titles
      <3>. QED BY <1>0, <2>6, <3>1, TitlesKeep DEF Do
    <2>7. CASE \E kitty \in BOOLEAN : Do(set_options(term, [term.config EXCEPT !.kitty = kitty]))
      <3>1. PICK zero \in Nat : zero = 0 OBVIOUS
      <3>. QED BY <2>7, <3>1, OptionsInv DEF Do
    <2>8. CASE \/ Do(set_private_mode(term, "SwapScreenAndSetRestoreCursor"))
               \/ Do(unset_private_mode(term, "SwapScreenAndSetRestoreCursor"))
      BY <1>0, <2>8, SwapKeeps DEF Do
    <2>9. CASE Do(reset_state(term)) BY <1>0, <2>9, ResetKeeps DEF Do
    <2>. QED BY <1>1, <2>3, <2>4, <2>5, <2>6, <2>7, <2>8, <2>9 DEF Stacks
  <1>2. CASE Pen
    BY <1>0, <1>2, AttributeKeeps, SaveKeeps, RestoreKeeps, SwapKeeps DEF Pen, Do
  <1>3. CASE Style
    <2>1. PICK one : one = 1 OBVIOUS
    <2>2. CASE \E index \in {"Cursor", "Foreground"} :
                 Do(set_color(term, index, 1)) \/ Do(reset_color(term, index))
      BY <1>0, <2>1, <2>2, SmallModesKeep DEF Do
    <2>3. CASE Do(set_cursor_style(term, {})) \/ Do(set_cursor_shape(term, "Beam"))
      BY <1>0, <2>3, StylesKeep DEF Do
    <2>4. CASE \E index \in 0..1 : Do(set_active_charset(term, index))
      BY <1>0, <2>4, SmallModesKeep DEF Do
    <2>5. CASE Do(swap_alt(term)) \/ Do(reset_state(term)) BY <1>0, <2>5, SwapKeeps, ResetKeeps DEF Do
    <2>. QED BY <1>3, <2>2, <2>3, <2>4, <2>5 DEF Style
  <1>. QED BY <1>1, <1>2, <1>3

(* scrolling, *)
LEMMA ScrollInv ==
    ASSUME TermInv, Scroll
    PROVE  Keeps(term, term') /\ UNCHANGED group
  <1>0. TermOK(term) /\ term.lines \in Nat /\ term.grid.hist \in Nat
    BY DEF TermInv, TermOK, GeometryOK, ScreenOK
  <1>1. CASE \E n \in 1..2 : Do(scroll_up(term, n)) \/ Do(scroll_down(term, n))
    <2>1. PICK n \in Nat : Do(scroll_up(term, n)) \/ Do(scroll_down(term, n)) BY <1>1
    <2>. QED BY <1>0, <2>1, ScrollsKeep DEF Do
  <1>2. CASE \E scroll \in {-1, 1} : Do(scroll_display(term, Delta(scroll)))
    <2>1. PICK by \in Int : Do(scroll_display(term, Delta(by))) BY <1>2
    <2>2. PICK scroll : scroll = Delta(by) OBVIOUS
    <2>3. scroll.to = "Delta" /\ scroll.by \in Int BY <2>2 DEF Delta
    <2>. QED BY <1>0, <2>1, <2>2, <2>3, ScrollDisplayKeeps DEF Do
  <1>3. CASE \E scroll \in {"PageUp", "PageDown", "Top", "Bottom"} : Do(scroll_display(term, ScrollTo(scroll)))
    <2>1. PICK to \in {"PageUp", "PageDown", "Top", "Bottom"} : Do(scroll_display(term, ScrollTo(to))) BY <1>3
    <2>2. PICK scroll : scroll = ScrollTo(to) OBVIOUS
    <2>3. scroll.to = to /\ scroll.by \in Int BY <2>2 DEF ScrollTo
    <2>. QED BY <1>0, <2>1, <2>2, <2>3, ScrollDisplayKeeps DEF Do
  <1>4. CASE \/ \E used \in (IF term.grid.hist > 0 THEN 0 ELSE 1)..term.lines : Do(clear_screen(term, "All", used))
             \/ \E mode \in {"Above", "Below", "Saved"} : Do(clear_screen(term, mode, 0))
    <2>1. PICK used \in Nat, mode \in {"Above", "Below", "All", "Saved"} : Do(clear_screen(term, mode, used))
      BY <1>0, <1>4
    <2>. QED BY <1>0, <2>1, ClearScreenKeeps DEF Do
  <1>5. CASE Do(deccolm(term)) \/ Do(linefeed(term)) BY <1>0, <1>5, DeccolmKeeps, LinefeedKeeps DEF Do
  <1>. QED BY <1>1, <1>2, <1>3, <1>4, <1>5 DEF Scroll

(* the view and the other screen, *)
LEMMA ViewInv ==
    ASSUME TermInv, ViMode \/ Select \/ Screens
    PROVE  Keeps(term, term') /\ UNCHANGED group
  <1>0. TermOK(term) BY DEF TermInv
  <1>1. CASE ViMode
    <2>1. CASE Do(toggle_vi_mode(term)) BY <1>0, <2>1, SmallModesKeep DEF Do
    <2>2. CASE \E p \in GridPoints(Dims(term)) : Do(vi_motion(term, p))
      <3>1. PICK p \in GridPoints(Dims(term)) : Do(vi_motion(term, p)) BY <2>2
      <3>2. PICK d : d = Dims(term) OBVIOUS
      <3>3. d.cols \in Nat \ {0} /\ d.hist \in Nat
        BY <1>0, <3>2 DEF Dims, TermOK, GeometryOK, ScreenOK
      <3>4. PICK k \in Cells(d) : p = PointOf(d, k) BY <3>1, <3>2 DEF GridPoints
      <3>5. k \in Int BY DEF Cells
      <3>6. k \div d.cols \in Int BY <3>3, <3>5
      <3>7. p.line \in Int BY <3>3, <3>4, <3>6 DEF PointOf, Point, topmost_line
      <3>. QED BY <1>0, <3>1, <3>7, ViMotionKeeps DEF Do
    <2>. QED BY <1>1, <2>1, <2>2 DEF ViMode
  <1>2. CASE Select
    <2>1. ASSUME NEW sel PROVE Keeps(term, [term EXCEPT !.sel = sel])
      <3>1. PICK p, l : p = 0 /\ l = 0 OBVIOUS
      <3>. QED BY <1>0, <3>1, SelectView, ViewKeeps
    <2>. QED BY <1>2, <2>1 DEF Select, Do
  <1>3. CASE Screens
    <2>1. CASE Do(swap_alt(term)) \/ Do(reset_state(term)) \/ Do(ToggleAutoScroll(term))
      BY <1>0, <2>1, SwapKeeps, ResetKeeps, ToggleAutoScrollKeeps DEF Do
    <2>2. CASE \E history \in 0..History : Do(set_options(term, [term.config EXCEPT !.history = history]))
      <3>1. PICK history \in Nat : Do(set_options(term, [term.config EXCEPT !.history = history]))
        BY <2>2, SizeAssumption
      <3>2. TRUE \in BOOLEAN OBVIOUS
      <3>. QED BY <3>1, <3>2, OptionsInv DEF Do
    <2>. QED BY <1>3, <2>1, <2>2 DEF Screens
  <1>. QED BY <1>1, <1>2, <1>3

(* drawing a frame *)
LEMMA FrameInv ==
    ASSUME TermInv, Frame
    PROVE  TermInv'
  <1>1. TermOK(term') /\ SameScreen(term, term') /\ Shown(term')
    BY DrawLaw DEF TermInv, Frame, Do
  <1>2. group' = group /\ group \in Drawn BY DEF Frame, In, Do, Drawn
  <1>. QED BY <1>1, <1>2 DEF TermInv, SameScreen, BelowMargin

(* and resizing. *)
LEMMA ResizeInv ==
    ASSUME TermInv, Resize
    PROVE  TermInv'
  <1>1. PICK size \in NewSizes[group] : \E t \in TermResize(term, size[1], size[2]) : Do(t)
    BY DEF Resize
  <1>2. PICK cols, lines : cols = size[1] /\ lines = size[2] OBVIOUS
  <1>3. PICK t \in TermResize(term, cols, lines) : Do(t) BY <1>1, <1>2
  <1>4. group \in DOMAIN NewSizes /\ UNCHANGED group /\ TermOK(term) BY <1>3 DEF Resize, In, Do, TermInv
  <1>5. /\ cols \in Nat \ {0} /\ lines \in Nat \ {0}
        /\ group \in {"write", "region"} => cols >= 2
    BY <1>2, <1>4, SizeAssumption DEF SizeOK
  <1>6. t = term \/ (TermOK(t) /\ t.damage.full /\ LineScrolls(t) /\ t.cols = cols)
    BY <1>4, <1>5, ResizeLaw
  <1>7. CASE t = term BY <1>3, <1>4, <1>7, KeepsSame, KeepsInv DEF Do
  <1>8. CASE TermOK(t) /\ t.damage.full /\ LineScrolls(t) /\ t.cols = cols
    BY <1>3, <1>4, <1>5, <1>8 DEF Do, TermInv, Shown, Redrawn
  <1>. QED BY <1>6, <1>7, <1>8

(* Every step keeps the invariant. *)
LEMMA NextInv ==
    ASSUME TermInv, [Next]_vars
    PROVE  TermInv'
  <1>1. CASE Input \/ Erase BY <1>1, WritingInv, KeepsInv
  <1>2. CASE Move \/ Tab BY <1>2, MovingInv, KeepsInv
  <1>3. CASE Region BY <1>3, RegionInv
  <1>4. CASE InsertMode \/ Modes BY <1>4, ModesInv, KeepsInv
  <1>5. CASE Frame BY <1>5, FrameInv
  <1>6. CASE Stacks \/ Pen \/ Style BY <1>6, StacksInv, KeepsInv
  <1>7. CASE Scroll BY <1>7, ScrollInv, KeepsInv
  <1>8. CASE ViMode \/ Select \/ Screens BY <1>8, ViewInv, KeepsInv
  <1>9. CASE Resize BY <1>9, ResizeInv
  <1>10. CASE Search BY <1>10, KeepsSame, KeepsInv DEF Search, TermInv
  <1>11. CASE UNCHANGED vars BY <1>11, KeepsSame, KeepsInv DEF vars, TermInv
  <1>. QED BY <1>1, <1>2, <1>3, <1>4, <1>5, <1>6, <1>7, <1>8, <1>9, <1>10, <1>11 DEF Next

(* The invariant holds in every state. *)
THEOREM TerminalInductive == Spec => []TermInv
  BY InitInv, NextInv, PTL DEF Spec

(* It implies that everything is on the screen. *)
LEMMA TypeHolds ==
    ASSUME TermInv
    PROVE  TypeOK
  <1>1. TermOK(term) /\ CursorOK(term.grid.cursor, term.cols, term.lines) BY DEF TermInv, TermOK, GeometryOK, ScreenOK
  <1>2. /\ OnScreen(term.grid.cursor) /\ OnScreen(term.grid.saved)
        /\ OnScreen(term.inactive.cursor) /\ OnScreen(term.inactive.saved)
    BY <1>1 DEF TermOK, GeometryOK, ScreenOK, CursorOK, OnScreen
  <1>3. OnScreen(term.damage.last) BY <1>1 DEF TermOK, GeometryOK, DamageOK, PointOK, OnScreen
  <1>. QED BY <1>1, <1>2, <1>3 DEF TermOK, GeometryOK, ScreenOK, DamageOK, RegionOK, ModesOK, TitlesOK, TypeOK

(* Cursors, saved cursors, damaged lines, region and tab stops stay on the screen, for
   screens of any size and scrollbacks of any length, and titles within their bound
   (TypeOK; Term::resize, swap_alt, goto, reset_state). *)
THEOREM IndicesOnScreen == Spec => []TypeOK
  BY TerminalInductive, TypeHolds, PTL

(* Every cell that is written is in the damage Term::damage reports with the next
   frame, whatever is written, erased, moved and scrolled in between, on a screen of
   any size and with any scrolling region, but for a bottom line below a scrolling
   region (DamageCoversWrites). *)
THEOREM DamageIsComplete == Spec => []DamageCoversWrites
  <1>1. ASSUME TermInv PROVE DamageCoversWrites
    <2>1. TermOK(term) /\ (~BelowMargin => Shown(term))
      BY <1>1 DEF TermInv, Drawn, Shown, Redrawn
    <2>. QED BY <2>1, DamageReports DEF DamageCoversWrites
  <1>. QED BY <1>1, TerminalInductive, PTL

-----------------------------------------------------------------------------
(* Modes stay consistent *)

(* At most one element, counted. *)
LEMMA AtMostOneCounted ==
    ASSUME NEW S, NEW T, AtMostOneOf(S, T)
    PROVE  Cardinality(S \cap T) <= 1
  <1>1. CASE S \cap T = {}
    <2>1. Cardinality(S \cap T) = 0 BY <1>1, FS_EmptySet
    <2>. QED BY <2>1
  <1>2. CASE S \cap T # {}
    <2>1. PICK a \in S \cap T : TRUE BY <1>2
    <2>2. S \cap T = {a} BY <2>1 DEF AtMostOneOf
    <2>3. Cardinality({a}) = 1 BY FS_Singleton
    <2>. QED BY <2>2, <2>3
  <1>. QED BY <1>1, <1>2

(* The first part of ModesConsistent. *)
LEMMA ExclusiveHolds ==
    ASSUME TermInv
    PROVE  ExclusiveModes
  <1>1. MouseModesOK(term.mode) BY DEF TermInv, TermOK, ModesOK
  <1>2. \A c \in {term.grid.cursor, term.grid.saved, term.inactive.cursor} :
           AtMostOneOf(c.template, ALL_UNDERLINES)
    BY DEF TermInv, TermOK, GeometryOK, ScreenOK, CursorOK
  <1>. QED BY <1>1, <1>2, AtMostOneCounted DEF ExclusiveModes, MouseModesOK

(* Redrawing the screen changes no modes and no screens. *)
LEMMA MarkedFields ==
    ASSUME NEW s, DOMAIN s = TermFields, NEW top, NEW bottom
    PROVE  LET m == mark_fully_damaged(WriteLines(s, top, bottom))
           IN  /\ m.mode = s.mode /\ m.grid = s.grid /\ m.inactive = s.inactive
               /\ m.keyboard = s.keyboard /\ m.inactive_keyboard = s.inactive_keyboard
  <1>1. PICK w : w = WriteLines(s, top, bottom) OBVIOUS
  <1>2. /\ DOMAIN w = TermFields /\ w.mode = s.mode /\ w.grid = s.grid /\ w.inactive = s.inactive
        /\ w.keyboard = s.keyboard /\ w.inactive_keyboard = s.inactive_keyboard
    BY <1>1 DEF WriteLines, TermFields
  <1>. QED BY <1>1, <1>2 DEF mark_fully_damaged, TermFields

(* What swap_alt makes of modes, screens and stacks. *)
LEMMA SwapFields ==
    ASSUME NEW t, TermOK(t)
    PROVE  LET s == swap_alt(t)
               mode == (t.mode \ KITTY_KEYBOARD_PROTOCOL) \cup TopMode(t.inactive_keyboard)
           IN  /\ s.grid = IF Has(t, "ALT_SCREEN") THEN t.inactive
                           ELSE [t.inactive EXCEPT !.cursor = t.grid.cursor]
               /\ s.inactive = IF Has(t, "ALT_SCREEN") THEN t.grid
                               ELSE [t.grid EXCEPT !.saved = t.grid.cursor]
               /\ s.keyboard = t.inactive_keyboard /\ s.inactive_keyboard = t.keyboard
               /\ s.mode = IF Has(t, "ALT_SCREEN") THEN mode \ {"ALT_SCREEN"}
                           ELSE mode \cup {"ALT_SCREEN"}
  <1>1. PICK s : Swapped(t, s) /\ swap_alt(t) = mark_fully_damaged(WriteLines(s, 0, t.lines - 1))
    BY SwapLaw
  <1>2. PICK top, bottom : top = 0 /\ bottom = t.lines - 1 OBVIOUS
  <1>3. DOMAIN s = TermFields BY <1>1 DEF Swapped
  <1>. QED BY <1>1, <1>2, <1>3, MarkedFields DEF Swapped

(* Swapped twice, the primary screen is back. *)
LEMMA SwapBack ==
    ASSUME NEW t, TermOK(t), ~Has(t, "ALT_SCREEN")
    PROVE  LET back == swap_alt(swap_alt(t))
           IN  /\ back.grid.cursor = t.grid.cursor
               /\ back.keyboard = t.keyboard /\ back.inactive_keyboard = t.inactive_keyboard
               /\ back.mode = (t.mode \ KITTY_KEYBOARD_PROTOCOL) \cup TopMode(t.keyboard)
  <1>1. PICK a : a = swap_alt(t) OBVIOUS
  <1>2. PICK b : b = swap_alt(a) OBVIOUS
  <1>3. TermOK(a) BY <1>1, SwapKeeps DEF Keeps
  <1>4. /\ a.inactive = [t.grid EXCEPT !.saved = t.grid.cursor]
        /\ a.keyboard = t.inactive_keyboard /\ a.inactive_keyboard = t.keyboard
        /\ a.mode = (t.mode \ KITTY_KEYBOARD_PROTOCOL) \cup TopMode(t.inactive_keyboard) \cup {"ALT_SCREEN"}
    BY <1>1, SwapFields
  <1>5. /\ b.grid = a.inactive /\ b.keyboard = a.inactive_keyboard /\ b.inactive_keyboard = a.keyboard
        /\ b.mode = ((a.mode \ KITTY_KEYBOARD_PROTOCOL) \cup TopMode(a.inactive_keyboard)) \ {"ALT_SCREEN"}
    <2>1. Has(a, "ALT_SCREEN") BY <1>4 DEF Has
    <2>. QED BY <1>2, <1>3, <2>1, SwapFields
  <1>6. b.grid.cursor = t.grid.cursor BY <1>4, <1>5 DEF TermOK, GeometryOK, ScreenOK, ScreenFields
  <1>7. b.mode = (t.mode \ KITTY_KEYBOARD_PROTOCOL) \cup TopMode(t.keyboard)
    <2>1. /\ TopMode(t.keyboard) \subseteq KITTY_KEYBOARD_PROTOCOL
          /\ TopMode(t.inactive_keyboard) \subseteq KITTY_KEYBOARD_PROTOCOL
      BY StacksTyped, TopModeLaw
    <2>2. "ALT_SCREEN" \notin KITTY_KEYBOARD_PROTOCOL /\ "ALT_SCREEN" \notin t.mode
      BY DEF KITTY_KEYBOARD_PROTOCOL, Has
    <2>. QED BY <1>4, <1>5, <2>1, <2>2
  <1>. QED BY <1>1, <1>2, <1>4, <1>5, <1>6, <1>7

(* Private modes that are reported. *)
Reported == PrivateModes \ {"ColumnMode", "SyncUpdate", "Unknown"}

(* A private mode that has been set is reported as set, *)
LEMMA SetIsReported ==
    ASSUME NEW t, TermOK(t), NEW mode \in Reported
    PROVE  report_private_mode(set_private_mode(t, mode), mode) = "Set"
  <1>0. mode \in PlainModes \cup MouseReports
                 \cup {"SgrMouse", "Utf8Mouse", "Origin", "SwapScreenAndSetRestoreCursor", "BlinkingCursor"}
    BY ModeOfLaw DEF Reported, PrivateModes
  <1>1. PICK s : s = set_private_mode(t, mode) OBVIOUS
  <1>2. CASE mode = "BlinkingCursor"
    <2>1. PICK style : style = [StyleOf(t) EXCEPT !.blinking = TRUE] OBVIOUS
    <2>2. s.style = {style} BY <1>1, <1>2, <2>1, StylesKeep DEF set_private_mode
    <2>3. style.blinking = TRUE BY <2>1, StyleOfLaw
    <2>4. StyleOf(s) = style BY <2>2 DEF StyleOf
    <2>. QED BY <1>1, <1>2, <2>3, <2>4 DEF report_private_mode, ModeState
  <1>3. CASE mode # "BlinkingCursor"
    <2>1. ModeOf[mode] \in s.mode
      <3>1. CASE mode \in PlainModes
        <4>1. s = With(t, ModeOf[mode]) BY <1>1, <3>1 DEF set_private_mode, PlainModes
        <4>. QED BY <3>1, <4>1, ModeOfLaw, FlagLaw
      <3>2. CASE mode \in MouseReports
        <4>1. s = With([t EXCEPT !.mode = t.mode \ MOUSE_MODE], ModeOf[mode])
          BY <1>1, <3>2 DEF set_private_mode, MouseReports
        <4>. QED BY <3>2, <4>1, ModeOfLaw, MouseReportKeeps
      <3>3. CASE mode = "SgrMouse"
        <4>1. s = With(Without(t, "UTF8_MOUSE"), "SGR_MOUSE") BY <1>1, <3>3 DEF set_private_mode
        <4>. QED BY <3>3, <4>1, ModeOfLaw, EncodingKeeps
      <3>4. CASE mode = "Utf8Mouse"
        <4>1. s = With(Without(t, "SGR_MOUSE"), "UTF8_MOUSE") BY <1>1, <3>4 DEF set_private_mode
        <4>. QED BY <3>4, <4>1, ModeOfLaw, EncodingKeeps
      <3>5. CASE mode = "Origin"
        <4>1. PICK o : o = With(t, "ORIGIN") OBVIOUS
        <4>2. PICK z \in Nat : z = 0 OBVIOUS
        <4>3. s = goto(o, z, z) BY <1>1, <3>5, <4>1, <4>2 DEF set_private_mode
        <4>4. Keeps(t, o) /\ o.mode = t.mode \cup {"ORIGIN"}
          <5>1. "ORIGIN" \notin MouseModes \cup KITTY_KEYBOARD_PROTOCOL
            BY DEF MouseModes, MOUSE_MODE, KITTY_KEYBOARD_PROTOCOL
          <5>. QED BY <4>1, <5>1, FlagLaw
        <4>5. GeometryOK(o) BY <4>4 DEF Keeps, TermOK
        <4>6. s.mode = o.mode BY <4>2, <4>3, <4>5, GotoJump DEF Jump, SameElsewhere
        <4>. QED BY <3>5, <4>4, <4>6, ModeOfLaw
      <3>6. CASE mode = "SwapScreenAndSetRestoreCursor"
        <4>1. CASE Has(t, "ALT_SCREEN") BY <1>1, <3>6, <4>1, ModeOfLaw DEF set_private_mode, Has
        <4>2. CASE ~Has(t, "ALT_SCREEN")
          <5>1. s = swap_alt(t) BY <1>1, <3>6, <4>2 DEF set_private_mode
          <5>. QED BY <3>6, <4>2, <5>1, ModeOfLaw, SwapFields, ZenonT(30)
        <4>. QED BY <4>1, <4>2
      <3>. QED BY <1>0, <1>3, <3>1, <3>2, <3>3, <3>4, <3>5, <3>6
    <2>. QED BY <1>0, <1>1, <1>3, <2>1 DEF report_private_mode, ModeState, Has, PlainModes, MouseReports
  <1>. QED BY <1>2, <1>3

(* one that has been unset as not set, *)
LEMMA UnsetIsReported ==
    ASSUME NEW t, TermOK(t), NEW mode \in Reported
    PROVE  report_private_mode(unset_private_mode(t, mode), mode) = "Reset"
  <1>0. mode \in PlainModes \cup MouseReports
                 \cup {"SgrMouse", "Utf8Mouse", "Origin", "SwapScreenAndSetRestoreCursor", "BlinkingCursor"}
    BY ModeOfLaw DEF Reported, PrivateModes
  <1>1. PICK s : s = unset_private_mode(t, mode) OBVIOUS
  <1>2. CASE mode = "BlinkingCursor"
    <2>1. PICK style : style = [StyleOf(t) EXCEPT !.blinking = FALSE] OBVIOUS
    <2>2. s.style = {style} BY <1>1, <1>2, <2>1, StylesKeep DEF unset_private_mode
    <2>3. style.blinking = FALSE BY <2>1, StyleOfLaw
    <2>4. StyleOf(s) = style BY <2>2 DEF StyleOf
    <2>. QED BY <1>1, <1>2, <2>3, <2>4 DEF report_private_mode, ModeState
  <1>3. CASE mode # "BlinkingCursor"
    <2>1. ModeOf[mode] \notin s.mode
      <3>1. CASE mode = "SwapScreenAndSetRestoreCursor"
        <4>1. CASE ~Has(t, "ALT_SCREEN") BY <1>1, <3>1, <4>1, ModeOfLaw DEF unset_private_mode, Has
        <4>2. CASE Has(t, "ALT_SCREEN")
          <5>1. s = swap_alt(t) BY <1>1, <3>1, <4>2 DEF unset_private_mode
          <5>. QED BY <3>1, <4>2, <5>1, ModeOfLaw, SwapFields
        <4>. QED BY <4>1, <4>2
      <3>2. CASE mode # "SwapScreenAndSetRestoreCursor"
        <4>1. s = Without(t, ModeOf[mode])
          BY <1>0, <1>1, <1>3, <3>2 DEF unset_private_mode, PlainModes, MouseReports
        <4>. QED BY <4>1, FlagLaw
      <3>. QED BY <3>1, <3>2
    <2>. QED BY <1>0, <1>1, <1>3, <2>1 DEF report_private_mode, ModeState, Has, PlainModes, MouseReports
  <1>. QED BY <1>2, <1>3

(* and so are the public modes. *)
LEMMA PublicIsReported ==
    ASSUME NEW t, TermOK(t), NEW mode \in DOMAIN PublicMode
    PROVE  /\ report_mode(set_mode(t, mode), mode) = "Set"
           /\ report_mode(unset_mode(t, mode), mode) = "Reset"
  <1>1. PICK flag : flag = PublicMode[mode] OBVIOUS
  <1>2. flag \notin MouseModes \cup KITTY_KEYBOARD_PROTOCOL
    BY <1>1 DEF PublicMode, MouseModes, MOUSE_MODE, KITTY_KEYBOARD_PROTOCOL
  <1>3. report_mode(set_mode(t, mode), mode) = "Set"
    <2>1. With(t, flag).mode = t.mode \cup {flag} BY <1>2, FlagLaw
    <2>. QED BY <1>1, <2>1 DEF set_mode, report_mode, Has, ModeState
  <1>4. report_mode(unset_mode(t, mode), mode) = "Reset"
    <2>1. PICK s, u : s = Without(t, flag) /\ u = unset_mode(t, mode) OBVIOUS
    <2>2. s.mode = t.mode \ {flag} /\ TermOK(s) BY <2>1, FlagLaw
    <2>3. u = s \/ u = mark_fully_damaged(s) BY <1>1, <2>1 DEF unset_mode, PublicMode
    <2>4. mark_fully_damaged(s).mode = s.mode
      BY <2>2 DEF mark_fully_damaged, TermOK, GeometryOK, TermFields
    <2>. QED BY <1>1, <2>1, <2>2, <2>3, <2>4 DEF report_mode, Has, ModeState
  <1>. QED BY <1>3, <1>4

(* The second part of ModesConsistent, *)
LEMMA ReportsHold ==
    ASSUME TermInv
    PROVE  ReportsTrue
  <1>0. TermOK(term) BY DEF TermInv
  <1>1. \A mode \in PrivateModes \ {"ColumnMode", "SyncUpdate", "Unknown"} :
          /\ report_private_mode(set_private_mode(term, mode), mode) = "Set"
          /\ report_private_mode(unset_private_mode(term, mode), mode) = "Reset"
    BY <1>0, SetIsReported, UnsetIsReported DEF Reported
  <1>2. \A mode \in DOMAIN PublicMode :
          /\ report_mode(set_mode(term, mode), mode) = "Set"
          /\ report_mode(unset_mode(term, mode), mode) = "Reset"
    BY <1>0, PublicIsReported
  <1>3. \A i \in 1..2 : device_status(term, 6)[i] \in 1..text_area_size_chars(term)[i]
    <2>1. /\ term.grid.cursor.line \in 0..(term.lines - 1) /\ term.grid.cursor.col \in 0..(term.cols - 1)
          /\ term.lines \in Nat \ {0} /\ term.cols \in Nat \ {0}
      BY <1>0, CursorRange DEF TermOK
    <2>2. PICK l \in Int, c \in Int : l = term.grid.cursor.line + 1 /\ c = term.grid.cursor.col + 1 BY <2>1
    <2>3. l \in 1..term.lines /\ c \in 1..term.cols BY <2>1, <2>2
    <2>4. device_status(term, 6) = <<l, c>> BY <2>2 DEF device_status
    <2>5. text_area_size_chars(term) = <<term.lines, term.cols>> BY DEF text_area_size_chars
    <2>6. ASSUME NEW i \in 1..2 PROVE <<l, c>>[i] \in 1..(<<term.lines, term.cols>>[i])
      <3>1. CASE i = 1 BY <2>3, <3>1
      <3>2. CASE i = 2 BY <2>3, <3>2
      <3>. QED BY <3>1, <3>2
    <2>. QED BY <2>4, <2>5, <2>6
  <1>. QED BY <1>1, <1>2, <1>3 DEF ReportsTrue

(* the third *)
LEMMA GatedHolds ==
    ASSUME TermInv
    PROVE  KeyboardModesGated
  BY DEF KeyboardModesGated, TermInv, TermOK, ModesOK, StacksOK

(* and the fourth. *)
LEMMA RestoresHolds ==
    ASSUME TermInv
    PROVE  SwapRestores
  BY SwapBack DEF SwapRestores, TermInv

(* Whatever order modes are set, unset, swapped, reset and reloaded in, exclusive ones
   exclude each other, the answers to a program are true, and keyboard modes come back
   with their screen, or never if they are disabled (ModesConsistent; set_private_mode,
   report_private_mode, swap_alt, set_options). *)
THEOREM ModesStayConsistent == Spec => []ModesConsistent
  BY TerminalInductive, ExclusiveHolds, ReportsHold, GatedHolds, RestoresHolds, PTL DEF ModesConsistent

=============================================================================
