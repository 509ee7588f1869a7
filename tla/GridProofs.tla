------------------------------ MODULE GridProofs ------------------------------
(***************************************************************************)
(* The grid, for every screen size, scrollback limit, cache size and       *)
(* scrolling region: its indices, and the rows its lines hold.             *)
(*                                                                         *)
(* The argument is compositional, like the code. First each function of    *)
(* Storage keeps a ring well formed and says what it does to the lengths,  *)
(* then each function of Grid keeps GridOK, then each action does:         *)
(* GridInBounds. On that rest a law for each operation of Storage that     *)
(* says which row every line holds after it; one for each operation of     *)
(* Grid; CursorStaysOnItsRow and ViewFollowsItsRows, which are about       *)
(* lines; and RefinesPlainScrollback, which turns the laws into sequences  *)
(* of rows and shows each call to be the one that Scrollback promises.     *)
(***************************************************************************)
EXTENDS MCGrid, SequenceTheorems, WellFoundedInduction, TLAPS

USE StorageAssumption

(* A ring whose active lines all have a slot; visible_lines is left open since
   Storage updates it last. *)
Ring(s) ==
    /\ s \in StorageType
    /\ s.zero < Len(s.inner)
    /\ s.len <= Len(s.inner)

(* Rows were moved or written, nothing else: the frame of SetRows. *)
SameShape(s, t) ==
    /\ Ring(t)
    /\ t.visible_lines = s.visible_lines
    /\ t.len = s.len

(* Lines on the screen or in the scrollback of a ring. *)
Active(s, line) == s.visible_lines - s.len <= line /\ line < s.visible_lines

LEMMA RingFields ==
    ASSUME NEW s, Ring(s)
    PROVE  /\ s.inner \in Seq(Rows) /\ Len(s.inner) \in Nat
           /\ s.zero \in Nat /\ s.visible_lines \in Nat /\ s.len \in Nat
           /\ s.zero < Len(s.inner) /\ s.len <= Len(s.inner)
  BY DEF Ring, StorageType

(* Every active line has a slot: the two assertions of compute_index. *)
LEMMA IndexInRing ==
    ASSUME NEW s, Ring(s), NEW line \in Int, Active(s, line)
    PROVE  /\ compute_index(s, line) \in Int
           /\ 0 <= compute_index(s, line)
           /\ compute_index(s, line) < Len(s.inner)
           /\ Row(s, line) \in Rows
  <1>1. /\ compute_index(s, line) \in Int
        /\ 0 <= compute_index(s, line)
        /\ compute_index(s, line) < Len(s.inner)
    BY SMTT(60), RingFields DEF compute_index, Active
  <1>2. compute_index(s, line) + 1 \in 1..Len(s.inner)
    BY <1>1, RingFields
  <1>3. s.inner[compute_index(s, line) + 1] \in Rows
    BY <1>2, RingFields, ElementOfSeq
  <1>. QED BY <1>1, <1>3 DEF Row

(* Replacing the rows of a ring by as many others keeps its shape. *)
LEMMA NewRows ==
    ASSUME NEW s, Ring(s), NEW f \in [1..Len(s.inner) -> Rows]
    PROVE  SameShape(s, [s EXCEPT !.inner = f])
  <1>1. f \in Seq(Rows) /\ Len(f) = Len(s.inner)
    BY SMTT(60), RingFields, SeqDef
  <1>. QED BY <1>1 DEF Ring, StorageType, SameShape

LEMMA SetRowShape ==
    ASSUME NEW s, Ring(s), NEW line \in Int, Active(s, line), NEW row \in Rows
    PROVE  SameShape(s, SetRow(s, line, row))
  <1>. DEFINE k == compute_index(s, line) + 1
              f == [s.inner EXCEPT ![k] = row]
  <1>1. s.inner \in [1..Len(s.inner) -> Rows]
    BY RingFields, LenProperties
  <1>2. f \in [1..Len(s.inner) -> Rows]
    BY <1>1
  <1>3. SetRow(s, line, row) = [s EXCEPT !.inner = f]
    BY DEF SetRow, Ring, StorageType
  <1>. HIDE DEF f
  <1>. QED BY <1>2, <1>3, NewRows

LEMMA ResetRowsShape ==
    ASSUME NEW s, Ring(s), NEW from \in Int, NEW to \in Int
    PROVE  SameShape(s, ResetRows(s, from, to))
  <1>. DEFINE f == [k \in 1..Len(s.inner) |->
                      IF from <= LineAt(s, k-1) /\ LineAt(s, k-1) < to THEN Blank ELSE s.inner[k]]
  <1>1. f \in [1..Len(s.inner) -> Rows]
    BY RingFields, ElementOfSeq
  <1>2. ResetRows(s, from, to) = [s EXCEPT !.inner = f]
    BY DEF ResetRows, SetRows
  <1>. HIDE DEF f
  <1>. QED BY <1>1, <1>2, NewRows

LEMMA SwapUpwardsShape ==
    ASSUME NEW s, Ring(s), NEW from \in Int, NEW to \in Int, NEW by \in Nat,
           s.visible_lines - s.len <= from, to + by <= s.visible_lines
    PROVE  SameShape(s, SwapUpwards(s, from, to, by))
  <1>1. CASE from >= to \/ by = 0
    BY <1>1 DEF SwapUpwards, SameShape
  <1>2. CASE ~(from >= to \/ by = 0)
    <2>. DEFINE src(i) == IF i < to THEN i + by ELSE from + ((i - from) % by)
                f == [k \in 1..Len(s.inner) |->
                        IF from <= LineAt(s, k-1) /\ LineAt(s, k-1) < to + by
                        THEN Row(s, src(LineAt(s, k-1))) ELSE s.inner[k]]
    <2>1. ASSUME NEW k \in 1..Len(s.inner)
          PROVE  LineAt(s, k-1) \in Int
      BY SMTT(60), RingFields DEF LineAt
    <2>2. ASSUME NEW i \in Int, from <= i, i < to + by
          PROVE  Row(s, src(i)) \in Rows
      <3>1. (i - from) % by \in Int /\ 0 <= (i - from) % by /\ (i - from) % by < by
        BY <1>2
      <3>2. src(i) \in Int /\ Active(s, src(i))
        BY <1>2, <2>2, <3>1, RingFields DEF Active
      <3>. QED BY <3>2, IndexInRing
    <2>. HIDE DEF src
    <2>3. f \in [1..Len(s.inner) -> Rows]
      BY <2>1, <2>2, RingFields, ElementOfSeq
    <2>4. SwapUpwards(s, from, to, by) = [s EXCEPT !.inner = f]
      BY <1>2 DEF SwapUpwards, SetRows, src
    <2>. HIDE DEF f
    <2>. QED BY <2>3, <2>4, NewRows
  <1>. QED BY <1>1, <1>2

LEMMA SwapDownwardsShape ==
    ASSUME NEW s, Ring(s), NEW from \in Int, NEW to \in Int, NEW by \in Nat,
           s.visible_lines - s.len <= from - by, to <= s.visible_lines
    PROVE  SameShape(s, SwapDownwards(s, from, to, by))
  <1>1. CASE from >= to \/ by = 0
    BY <1>1 DEF SwapDownwards, SameShape
  <1>2. CASE ~(from >= to \/ by = 0)
    <2>. DEFINE src(i) == IF i >= from THEN i - by ELSE (to - 1) - ((to - 1 - i) % by)
                f == [k \in 1..Len(s.inner) |->
                        IF from - by <= LineAt(s, k-1) /\ LineAt(s, k-1) < to
                        THEN Row(s, src(LineAt(s, k-1))) ELSE s.inner[k]]
    <2>1. ASSUME NEW k \in 1..Len(s.inner)
          PROVE  LineAt(s, k-1) \in Int
      BY RingFields DEF LineAt
    <2>2. ASSUME NEW i \in Int, from - by <= i, i < to
          PROVE  Row(s, src(i)) \in Rows
      <3>1. /\ (to - 1 - i) % by \in Int
            /\ 0 <= (to - 1 - i) % by
            /\ (to - 1 - i) % by < by
        BY <1>2
      <3>2. src(i) \in Int /\ Active(s, src(i))
        BY <1>2, <2>2, <3>1, RingFields DEF Active
      <3>. QED BY <3>2, IndexInRing
    <2>. HIDE DEF src
    <2>3. f \in [1..Len(s.inner) -> Rows]
      BY <2>1, <2>2, RingFields, ElementOfSeq
    <2>4. SwapDownwards(s, from, to, by) = [s EXCEPT !.inner = f]
      BY <1>2 DEF SwapDownwards, SetRows, src
    <2>. HIDE DEF f
    <2>. QED BY <2>3, <2>4, NewRows
  <1>. QED BY <1>1, <1>2

-----------------------------------------------------------------------------
(* Rotation and length *)

LEMMA ModRange ==
    ASSUME NEW a \in Int, NEW n \in Nat, 0 < n
    PROVE  a % n \in Nat /\ a % n < n
  OBVIOUS

LEMMA RotateShape ==
    ASSUME NEW s, Ring(s), NEW count \in Int
    PROVE  SameShape(s, rotate(s, count)) /\ SameShape(s, rotate_down(s, count))
  <1>. DEFINE a == s.zero + count + Len(s.inner)
              b == s.zero + count
              n == Len(s.inner)
  <1>1. a \in Int /\ b \in Int /\ n \in Nat /\ 0 < n
    BY RingFields
  <1>2. a % n \in Nat /\ a % n < n /\ b % n \in Nat /\ b % n < n
    <2>. HIDE DEF a, b, n
    <2>. QED BY <1>1, ModRange
  <1>. QED BY <1>2 DEF rotate, rotate_down, SameShape, Ring, StorageType

LEMMA RezeroShape ==
    ASSUME NEW s, Ring(s)
    PROVE  /\ SameShape(s, rezero(s))
           /\ rezero(s).zero = 0
           /\ Len(rezero(s).inner) = Len(s.inner)
  <1>1. CASE s.zero = 0
    BY <1>1 DEF rezero, SameShape
  <1>2. CASE s.zero # 0
    <2>. DEFINE a == SubSeq(s.inner, s.zero + 1, Len(s.inner))
                b == SubSeq(s.inner, 1, s.zero)
                c == a \o b
    <2>1. a \in Seq(Rows) /\ Len(a) = Len(s.inner) - s.zero
      BY RingFields, SubSeqProperties
    <2>2. b \in Seq(Rows) /\ Len(b) = s.zero
      BY RingFields, SubSeqProperties
    <2>3. c \in Seq(Rows) /\ Len(c) = Len(s.inner)
      BY <2>1, <2>2, RingFields, ConcatProperties
    <2>4. rezero(s) = [s EXCEPT !.inner = c, !.zero = 0]
      BY <1>2 DEF rezero
    <2>. HIDE DEF c
    <2>5. /\ rezero(s) \in StorageType /\ rezero(s).inner = c /\ rezero(s).zero = 0
          /\ rezero(s).visible_lines = s.visible_lines /\ rezero(s).len = s.len
      <3>1. s \in StorageType BY DEF Ring
      <3>2. [s EXCEPT !.inner = c, !.zero = 0] \in StorageType
        BY <3>1, <2>3 DEF StorageType
      <3>3. /\ [s EXCEPT !.inner = c, !.zero = 0].inner = c
            /\ [s EXCEPT !.inner = c, !.zero = 0].zero = 0
            /\ [s EXCEPT !.inner = c, !.zero = 0].visible_lines = s.visible_lines
            /\ [s EXCEPT !.inner = c, !.zero = 0].len = s.len
        BY <3>1 DEF StorageType
      <3>. QED BY <3>2, <3>3, <2>4
    <2>. QED BY <2>3, <2>5, RingFields DEF SameShape, Ring
  <1>. QED BY <1>1, <1>2

LEMMA TruncateShape ==
    ASSUME NEW s, Ring(s), 1 <= s.len
    PROVE  SameShape(s, truncate(s))
  <1>. DEFINE r == rezero(s)
              a == SubSeq(r.inner, 1, s.len)
  <1>1. /\ Ring(r) /\ r.zero = 0 /\ Len(r.inner) = Len(s.inner)
        /\ r.visible_lines = s.visible_lines /\ r.len = s.len
    BY RezeroShape DEF SameShape
  <1>. HIDE DEF r
  <1>2. a \in Seq(Rows) /\ Len(a) = s.len
    BY <1>1, RingFields, SubSeqProperties
  <1>3. truncate(s) = [r EXCEPT !.inner = a]
    BY DEF truncate, r
  <1>. HIDE DEF a
  <1>4. /\ truncate(s) \in StorageType /\ truncate(s).inner = a /\ truncate(s).zero = 0
        /\ truncate(s).visible_lines = s.visible_lines /\ truncate(s).len = s.len
    BY <1>1, <1>2, <1>3 DEF Ring, StorageType
  <1>. QED BY <1>2, <1>4, RingFields DEF SameShape, Ring

LEMMA ShrinkLinesShape ==
    ASSUME NEW s, Ring(s), NEW n \in Nat, n < s.len
    PROVE  /\ Ring(shrink_lines(s, n))
           /\ shrink_lines(s, n).visible_lines = s.visible_lines
           /\ shrink_lines(s, n).len = s.len - n
  <1>. DEFINE t == [s EXCEPT !.len = s.len - n]
  <1>1. Ring(t) /\ t.visible_lines = s.visible_lines /\ t.len = s.len - n /\ 1 <= t.len
    BY RingFields DEF Ring, StorageType
  <1>2. shrink_lines(s, n) = IF Len(t.inner) > t.len + MAX_CACHE_SIZE THEN truncate(t) ELSE t
    BY DEF shrink_lines
  <1>. HIDE DEF t
  <1>. QED BY <1>1, <1>2, TruncateShape DEF SameShape

LEMMA InitializeShape ==
    ASSUME NEW s, Ring(s), NEW n \in Nat
    PROVE  /\ Ring(initialize(s, n))
           /\ initialize(s, n).visible_lines = s.visible_lines
           /\ initialize(s, n).len = s.len + n
  <1>1. CASE ~(s.len + n > Len(s.inner))
    BY <1>1, RingFields DEF initialize, Ring, StorageType
  <1>2. CASE s.len + n > Len(s.inner)
    <2>. DEFINE r == rezero(s)
                m == MaxOf(n, MAX_CACHE_SIZE)
                a == r.inner \o BlankRows(m)
    <2>1. /\ Ring(r) /\ r.zero = 0 /\ Len(r.inner) = Len(s.inner)
          /\ r.visible_lines = s.visible_lines /\ r.len = s.len
      BY RezeroShape DEF SameShape
    <2>2. m \in Nat /\ n <= m
      BY DEF MaxOf
    <2>. HIDE DEF r, m
    <2>3. BlankRows(m) \in Seq(Rows) /\ Len(BlankRows(m)) = m
      <3>1. BlankRows(m) \in [1..m -> Rows] BY DEF BlankRows
      <3>. QED BY <3>1, <2>2, SeqDef
    <2>4. a \in Seq(Rows) /\ Len(a) = Len(s.inner) + m
      <3>1. r.inner \in Seq(Rows) BY <2>1, RingFields
      <3>2. /\ r.inner \o BlankRows(m) \in Seq(Rows)
            /\ Len(r.inner \o BlankRows(m)) = Len(r.inner) + Len(BlankRows(m))
        BY <3>1, <2>3, ConcatProperties
      <3>. QED BY <3>2, <2>1, <2>3
    <2>. HIDE DEF a
    <2>5. initialize(s, n) = [[r EXCEPT !.inner = a] EXCEPT !.len = s.len + n]
      BY <1>2 DEF initialize, r, m, a
    <2>6. /\ initialize(s, n) \in StorageType /\ initialize(s, n).inner = a
          /\ initialize(s, n).zero = 0
          /\ initialize(s, n).visible_lines = s.visible_lines
          /\ initialize(s, n).len = s.len + n
      <3>1. s.len + n \in Nat BY RingFields
      <3>. QED BY <2>1, <2>4, <2>5, <3>1 DEF Ring, StorageType
    <2>. QED BY <2>2, <2>4, <2>6, RingFields DEF Ring
  <1>. QED BY <1>1, <1>2

LEMMA GrowVisibleShape ==
    ASSUME NEW s, Ring(s), NEW next \in Nat, s.visible_lines <= next
    PROVE  LET t == grow_visible_lines(s, next)
           IN  /\ Ring(t) /\ t.visible_lines = next
               /\ t.len = s.len + (next - s.visible_lines)
  <1>. DEFINE n == next - s.visible_lines
              t == initialize(s, n)
  <1>1. n \in Nat BY RingFields
  <1>. HIDE DEF n
  <1>2. Ring(t) /\ t.len = s.len + n BY <1>1, InitializeShape
  <1>3. grow_visible_lines(s, next) = [t EXCEPT !.visible_lines = next]
    BY DEF grow_visible_lines, n
  <1>. HIDE DEF t
  <1>. QED BY <1>2, <1>3 DEF Ring, StorageType, n

LEMMA ShrinkVisibleShape ==
    ASSUME NEW s, Ring(s), NEW next \in Nat, next <= s.visible_lines,
           s.visible_lines - next < s.len
    PROVE  LET t == shrink_visible_lines(s, next)
           IN  /\ Ring(t) /\ t.visible_lines = next
               /\ t.len = s.len - (s.visible_lines - next)
  <1>. DEFINE n == s.visible_lines - next
              t == shrink_lines(s, n)
  <1>1. n \in Nat /\ n < s.len BY RingFields
  <1>. HIDE DEF n
  <1>2. Ring(t) /\ t.len = s.len - n BY <1>1, ShrinkLinesShape
  <1>3. shrink_visible_lines(s, next) = [t EXCEPT !.visible_lines = next]
    BY DEF shrink_visible_lines, n
  <1>. HIDE DEF t
  <1>. QED BY <1>2, <1>3 DEF Ring, StorageType, n

-----------------------------------------------------------------------------
(* The functions of Grid *)

LEMMA GridFields ==
    ASSUME NEW g, GridOK(g)
    PROVE  /\ g \in GridType /\ Ring(g.raw) /\ g.raw.len \in Nat
           /\ g.raw.visible_lines = g.lines
           /\ g.lines \in Nat /\ 1 <= g.lines /\ g.lines <= g.raw.len
           /\ g.max_scroll_limit \in Nat
           /\ g.raw.len <= g.lines + g.max_scroll_limit
           /\ g.display_offset \in Nat /\ g.display_offset <= g.max_scroll_limit
           /\ g.cursor \in Nat /\ g.cursor < g.lines
           /\ g.saved_cursor \in Nat /\ g.saved_cursor < g.lines
           /\ g.auto_scroll_enabled \in BOOLEAN
           /\ history_size(g) \in Nat /\ history_size(g) = g.raw.len - g.lines
           /\ history_size(g) <= g.max_scroll_limit
  <1>1. /\ g \in GridType /\ Ring(g.raw) /\ g.raw.len \in Nat
        /\ g.raw.visible_lines = g.lines
        /\ g.lines \in Nat /\ 1 <= g.lines /\ g.lines <= g.raw.len
        /\ g.max_scroll_limit \in Nat
        /\ g.raw.len <= g.lines + g.max_scroll_limit
        /\ g.display_offset \in Nat /\ g.display_offset <= g.max_scroll_limit
        /\ g.cursor \in Nat /\ g.cursor < g.lines
        /\ g.saved_cursor \in Nat /\ g.saved_cursor < g.lines
        /\ g.auto_scroll_enabled \in BOOLEAN
    BY DEF GridOK, GridType, StorageOK, StorageType, Ring
  <1>. QED BY <1>1 DEF history_size, SaturatingSub

(* A grid keeps GridOK when its raw buffer is replaced by one that fits. *)
Fits(g, s) ==
    /\ Ring(s)
    /\ s.visible_lines = g.lines
    /\ g.lines <= s.len
    /\ s.len <= g.lines + g.max_scroll_limit

LEMMA NewRaw ==
    ASSUME NEW g, GridOK(g), NEW s, Fits(g, s), NEW o \in Nat, o <= g.max_scroll_limit
    PROVE  /\ GridOK([g EXCEPT !.raw = s])
           /\ GridOK([g EXCEPT !.display_offset = o])
           /\ GridOK([g EXCEPT !.raw = s, !.display_offset = o])
           /\ GridOK([g EXCEPT !.display_offset = o, !.raw = s])
  <1>1. s \in StorageType /\ StorageOK(s)
    BY GridFields DEF Fits, Ring, StorageOK
  <1>. QED BY <1>1, GridFields DEF GridOK, GridType, Fits

LEMMA SameShapeFits ==
    ASSUME NEW g, GridOK(g), NEW s, SameShape(g.raw, s)
    PROVE  Fits(g, s)
  BY GridFields DEF SameShape, Fits

LEMMA ResetRowsFits ==
    ASSUME NEW g, GridOK(g), NEW s, Fits(g, s), NEW from \in Int, NEW to \in Int
    PROVE  Fits(g, ResetRows(s, from, to))
  <1>1. SameShape(s, ResetRows(s, from, to)) BY ResetRowsShape DEF Fits
  <1>. QED BY <1>1 DEF SameShape, Fits

LEMMA NewOK ==
    ASSUME NEW lines \in Nat, 1 <= lines, NEW limit \in Nat
    PROVE  GridOK(new(lines, limit))
  <1>1. BlankRows(lines) \in Seq(Rows) /\ Len(BlankRows(lines)) = lines
    <2>1. BlankRows(lines) \in [1..lines -> Rows] BY DEF BlankRows
    <2>. QED BY <2>1, SeqDef
  <1>2. with_capacity(lines) \in StorageType /\ StorageOK(with_capacity(lines))
    BY <1>1 DEF with_capacity, StorageType, StorageOK
  <1>. QED BY <1>2 DEF new, with_capacity, GridOK, GridType

LEMMA UpdateHistoryOK ==
    ASSUME NEW g, GridOK(g), NEW size \in Nat
    PROVE  GridOK(update_history(g, size))
  <1>. DEFINE s == IF history_size(g) > size
                   THEN shrink_lines(g.raw, history_size(g) - size) ELSE g.raw
              o == MinOf(g.display_offset, size)
  <1>1. /\ Ring(s) /\ s.visible_lines = g.lines
        /\ g.lines <= s.len /\ s.len <= g.lines + size
    <2>1. CASE history_size(g) > size
      <3>1. history_size(g) - size \in Nat /\ history_size(g) - size < g.raw.len
        BY <2>1, GridFields
      <3>2. /\ Ring(s) /\ s.visible_lines = g.raw.visible_lines
            /\ s.len = g.raw.len - (history_size(g) - size)
        BY <2>1, <3>1, GridFields, ShrinkLinesShape
      <3>. HIDE DEF s
      <3>. QED BY <3>2, <2>1, GridFields
    <2>2. CASE ~(history_size(g) > size)
      BY <2>2, GridFields
    <2>. QED BY <2>1, <2>2
  <1>2. o \in Nat /\ o <= size BY GridFields DEF MinOf
  <1>3. update_history(g, size)
          = [g EXCEPT !.raw = s, !.display_offset = o, !.max_scroll_limit = size]
    BY DEF update_history
  <1>. HIDE DEF s, o
  <1>4. s \in StorageType /\ StorageOK(s) BY <1>1, GridFields DEF Ring, StorageOK
  <1>. QED BY <1>1, <1>2, <1>3, <1>4, GridFields DEF GridOK, GridType

LEMMA ScrollDisplayOK ==
    ASSUME NEW g, GridOK(g), NEW count \in Int
    PROVE  /\ GridOK(scroll_delta(g, count))
           /\ GridOK(scroll_page_up(g)) /\ GridOK(scroll_page_down(g))
           /\ GridOK(scroll_top(g)) /\ GridOK(scroll_bottom(g))
  <1>1. ASSUME NEW o \in Nat, o <= g.max_scroll_limit
        PROVE  GridOK([g EXCEPT !.display_offset = o])
    <2>1. Fits(g, g.raw) BY GridFields DEF Fits
    <2>. QED BY <1>1, <2>1, NewRaw
  <1>2. GridOK(scroll_delta(g, count))
    <2>. DEFINE o == MinOf(MaxOf(g.display_offset + count, 0), history_size(g))
    <2>1. o \in Nat /\ o <= g.max_scroll_limit BY GridFields DEF MinOf, MaxOf
    <2>. HIDE DEF o
    <2>. QED BY <1>1, <2>1 DEF scroll_delta, o
  <1>3. GridOK(scroll_page_up(g))
    <2>. DEFINE o == MinOf(g.display_offset + g.lines, history_size(g))
    <2>1. o \in Nat /\ o <= g.max_scroll_limit BY GridFields DEF MinOf
    <2>. HIDE DEF o
    <2>. QED BY <1>1, <2>1 DEF scroll_page_up, o
  <1>4. GridOK(scroll_page_down(g))
    <2>. DEFINE o == SaturatingSub(g.display_offset, g.lines)
    <2>1. o \in Nat /\ o <= g.max_scroll_limit BY GridFields DEF SaturatingSub
    <2>. HIDE DEF o
    <2>. QED BY <1>1, <2>1 DEF scroll_page_down, o
  <1>5. GridOK(scroll_top(g)) /\ GridOK(scroll_bottom(g))
    BY <1>1, GridFields DEF scroll_top, scroll_bottom
  <1>. QED BY <1>2, <1>3, <1>4, <1>5

LEMMA IncreaseFits ==
    ASSUME NEW g, GridOK(g), NEW count \in Nat
    PROVE  Fits(g, increase_scroll_limit(g, count).raw)
  <1>. DEFINE n == MinOf(count, g.max_scroll_limit - history_size(g))
  <1>1. n \in Nat /\ history_size(g) + n <= g.max_scroll_limit
    BY GridFields DEF MinOf
  <1>2. increase_scroll_limit(g, count)
          = IF n # 0 THEN [g EXCEPT !.raw = initialize(g.raw, n)] ELSE g
    BY DEF increase_scroll_limit
  <1>. HIDE DEF n
  <1>3. CASE n = 0
    BY <1>2, <1>3, GridFields DEF Fits
  <1>4. CASE n # 0
    <2>1. increase_scroll_limit(g, count).raw = initialize(g.raw, n)
      BY <1>2, <1>4, GridFields DEF GridType
    <2>2. /\ Ring(initialize(g.raw, n))
          /\ initialize(g.raw, n).visible_lines = g.raw.visible_lines
          /\ initialize(g.raw, n).len = g.raw.len + n
      BY <1>1, GridFields, InitializeShape
    <2>. QED BY <2>1, <2>2, <1>1, GridFields DEF Fits
  <1>. QED BY <1>3, <1>4

LEMMA DecreaseOK ==
    ASSUME NEW g, GridOK(g), NEW count \in Nat
    PROVE  GridOK(decrease_scroll_limit(g, count))
  <1>. DEFINE n == MinOf(count, history_size(g))
              s == shrink_lines(g.raw, n)
              t == [g EXCEPT !.raw = s]
              o == MinOf(g.display_offset, history_size(t))
  <1>1. n \in Nat /\ n <= history_size(g) /\ n < g.raw.len
    BY GridFields DEF MinOf
  <1>2. decrease_scroll_limit(g, count)
          = IF n # 0 THEN [t EXCEPT !.display_offset = o] ELSE g
    BY DEF decrease_scroll_limit
  <1>. HIDE DEF n
  <1>3. /\ Ring(s) /\ s.visible_lines = g.raw.visible_lines /\ s.len = g.raw.len - n
    BY <1>1, GridFields, ShrinkLinesShape
  <1>. HIDE DEF s
  <1>4. Fits(g, s) BY <1>1, <1>3, GridFields DEF Fits
  <1>5. GridOK(t) BY <1>4, NewRaw, GridFields
  <1>6. t.max_scroll_limit = g.max_scroll_limit BY GridFields DEF GridType
  <1>. HIDE DEF t
  <1>7. o \in Nat /\ o <= t.max_scroll_limit
    BY <1>5, <1>6, GridFields DEF MinOf
  <1>. HIDE DEF o
  <1>8. Fits(t, t.raw) BY <1>5, GridFields DEF Fits
  <1>9. GridOK([t EXCEPT !.display_offset = o])
    BY <1>5, <1>7, <1>8, NewRaw
  <1>. QED BY <1>2, <1>9

LEMMA ScrollDownOK ==
    ASSUME NEW g, GridOK(g), NEW start \in Nat, NEW end \in Nat, NEW positions \in Nat,
           start < end, end <= g.lines
    PROVE  GridOK(scroll_down(g, start, end, positions))
  <1>. DEFINE p == positions
  <1>1. CASE end - start <= p
    <2>1. scroll_down_raw(g, start, end, p) = ResetRows(g.raw, start, end)
      BY <1>1 DEF scroll_down_raw
    <2>2. Fits(g, g.raw) BY GridFields DEF Fits
    <2>3. Fits(g, ResetRows(g.raw, start, end)) BY <2>2, ResetRowsFits
    <2>. QED BY <2>1, <2>3, NewRaw, GridFields DEF scroll_down
  <1>2. CASE ~(end - start <= p) /\ g.max_scroll_limit = 0
    <2>. DEFINE a == SwapUpwards(g.raw, end - p, g.lines - p, p)
                b == rotate_down(a, p)
                c == ResetRows(b, 0, p)
                d == SwapUpwards(c, 0, start, p)
    <2>1. scroll_down_raw(g, start, end, p) = d
      BY <1>2 DEF scroll_down_raw
    <2>2. SameShape(g.raw, a)
      <3>1. /\ end - p \in Int /\ g.lines - p \in Int
            /\ g.raw.visible_lines - g.raw.len <= end - p
            /\ (g.lines - p) + p <= g.raw.visible_lines
        BY <1>2, GridFields
      <3>. QED BY <3>1, GridFields, SwapUpwardsShape
    <2>. HIDE DEF a
    <2>3. SameShape(a, b) BY <2>2, RotateShape DEF SameShape
    <2>. HIDE DEF b
    <2>4. SameShape(b, c) BY <2>3, ResetRowsShape DEF SameShape
    <2>. HIDE DEF c
    <2>5. SameShape(c, d)
      <3>1. Ring(c) /\ c.visible_lines - c.len <= 0 /\ start + p <= c.visible_lines
        BY <1>2, <2>2, <2>3, <2>4, GridFields DEF SameShape
      <3>. QED BY <3>1, SwapUpwardsShape
    <2>. HIDE DEF d
    <2>6. Fits(g, d)
      BY <2>2, <2>3, <2>4, <2>5, GridFields DEF SameShape, Fits
    <2>. QED BY <2>1, <2>6, NewRaw, GridFields DEF scroll_down
  <1>3. CASE ~(end - start <= p) /\ g.max_scroll_limit # 0
    <2>. DEFINE a == SwapDownwards(g.raw, start + p, end, p)
                b == ResetRows(a, start, start + p)
    <2>1. scroll_down_raw(g, start, end, p) = b
      BY <1>3 DEF scroll_down_raw
    <2>2. SameShape(g.raw, a)
      <3>1. /\ start + p \in Int /\ end <= g.raw.visible_lines
            /\ g.raw.visible_lines - g.raw.len <= (start + p) - p
        BY GridFields
      <3>. QED BY <3>1, GridFields, SwapDownwardsShape
    <2>. HIDE DEF a
    <2>3. Fits(g, b) BY <2>2, SameShapeFits, ResetRowsFits
    <2>. HIDE DEF b
    <2>. QED BY <2>1, <2>3, NewRaw, GridFields DEF scroll_down
  <1>. QED BY <1>1, <1>2, <1>3

LEMMA RotateUpFits ==
    ASSUME NEW g, GridOK(g), NEW end \in Nat, end <= g.lines,
           NEW positions \in Nat, positions <= end
    PROVE  Fits(g, rotate_up(g, end, positions))
  <1>. DEFINE a == increase_scroll_limit(g, positions).raw
              b == rotate(a, -positions)
              c == SwapDownwards(b, end, g.lines, positions)
  <1>1. Fits(g, a) BY IncreaseFits
  <1>2. rotate_up(g, end, positions) = c BY DEF rotate_up
  <1>. HIDE DEF a
  <1>3. SameShape(a, b)
    <2>1. -positions \in Int OBVIOUS
    <2>. QED BY <2>1, <1>1, RotateShape DEF Fits
  <1>. HIDE DEF b
  <1>4. SameShape(b, c)
    <2>1. /\ Ring(b) /\ b.visible_lines - b.len <= end - positions
          /\ g.lines <= b.visible_lines /\ g.lines \in Int
      <3>1. /\ Ring(b) /\ b.len \in Nat /\ b.visible_lines = g.lines /\ g.lines <= b.len
        BY <1>1, <1>3, RingFields DEF Fits, SameShape
      <3>. QED BY <3>1, GridFields
    <2>. QED BY <2>1, SwapDownwardsShape
  <1>. HIDE DEF c
  <1>. QED BY <1>1, <1>2, <1>3, <1>4 DEF Fits, SameShape

(* The guards of Term::scroll_up_relative and of the callers inside Grid. *)
LEMMA ScrollUpOK ==
    ASSUME NEW g, GridOK(g), NEW start \in Nat, NEW end \in Nat, NEW positions \in Nat,
           start < end, end <= g.lines, start = 0 => positions <= end
    PROVE  LET t == scroll_up(g, start, end, positions)
           IN  /\ GridOK(t)
               /\ t.lines = g.lines /\ t.cursor = g.cursor
               /\ t.saved_cursor = g.saved_cursor
               /\ t.max_scroll_limit = g.max_scroll_limit
  <1>1. CASE end - start <= positions /\ start # 0
    <2>. DEFINE s == ResetRows(g.raw, start, end)
    <2>1. scroll_up(g, start, end, positions) = [g EXCEPT !.raw = s]
      BY <1>1 DEF scroll_up
    <2>2. Fits(g, g.raw) BY GridFields DEF Fits
    <2>3. Fits(g, s) BY <2>2, ResetRowsFits
    <2>. HIDE DEF s
    <2>4. GridOK([g EXCEPT !.raw = s]) BY <2>3, NewRaw, GridFields
    <2>. QED BY <2>1, <2>4, GridFields DEF GridType
  <1>2. CASE ~(end - start <= positions /\ start # 0)
    <2>. DEFINE m == IF start = 0 THEN rotate_up(g, end, positions)
                     ELSE SwapUpwards(g.raw, start, end - positions, positions)
                s == ResetRows(m, end - positions, end)
                o == scrolled_offset(g, positions)
    <2>1. scroll_up(g, start, end, positions)
            = [g EXCEPT !.display_offset = o, !.raw = s]
      BY <1>2 DEF scroll_up
    <2>2. o \in Nat /\ o <= g.max_scroll_limit
      BY GridFields DEF scrolled_offset, MinOf
    <2>3. Fits(g, m)
      <3>1. CASE start = 0 BY <3>1, RotateUpFits
      <3>2. CASE start # 0
        <4>1. /\ end - positions \in Int
              /\ g.raw.visible_lines - g.raw.len <= start
              /\ (end - positions) + positions <= g.raw.visible_lines
          BY GridFields
        <4>2. SameShape(g.raw, SwapUpwards(g.raw, start, end - positions, positions))
          BY <4>1, GridFields, SwapUpwardsShape
        <4>. QED BY <3>2, <4>2, SameShapeFits
      <3>. QED BY <3>1, <3>2
    <2>. HIDE DEF m, o
    <2>4. Fits(g, s)
      <3>1. end - positions \in Int OBVIOUS
      <3>. QED BY <3>1, <2>3, ResetRowsFits
    <2>. HIDE DEF s
    <2>5. GridOK([g EXCEPT !.display_offset = o, !.raw = s])
      BY <2>2, <2>4, NewRaw
    <2>. QED BY <2>1, <2>5, GridFields DEF GridType
  <1>. QED BY <1>1, <1>2

(* A non-empty set of numbers below n has a greatest element. *)
LEMMA GreatestExists ==
    ASSUME NEW n \in Nat, NEW S, S \subseteq 0 .. n - 1, S # {}
    PROVE  \E i \in S : \A j \in S : j <= i
  <1>. DEFINE T == {n - i : i \in S}
              R == OpToRel(<, Nat)
  <1>1. T \subseteq Nat /\ T # {} OBVIOUS
  <1>2. IsWellFoundedOn(R, Nat) BY NatLessThanWellFounded
  <1>3. PICK x \in T : \A y \in T : ~(<<y, x>> \in R)
    <2>. HIDE DEF T, R
    <2>. QED BY <1>1, <1>2, WFMin
  <1>4. \A y \in T : ~(y < x)
    <2>1. \A y \in Nat, z \in Nat : y < z => <<y, z>> \in R
      BY DEF OpToRel
    <2>. QED BY <1>1, <1>3, <2>1
  <1>5. PICK i \in S : x = n - i OBVIOUS
  <1>6. \A j \in S : j <= i
    <2>. SUFFICES ASSUME NEW j \in S PROVE j <= i OBVIOUS
    <2>1. ~(n - j < n - i) BY <1>4, <1>5
    <2>. QED BY <2>1
  <1>. QED BY <1>6

LEMMA ClearViewportOK ==
    ASSUME NEW g, GridOK(g)
    PROVE  GridOK(clear_viewport(g))
  <1>. DEFINE p == viewport_end(g)
              t == scroll_up(g, 0, g.lines, p)
              s == ResetRows(t.raw, 0, g.lines - p)
  <1>1. p \in Nat /\ p <= g.lines
    <2>. DEFINE used == {i \in Lines(g) : Row(g.raw, i) # Blank}
    <2>0. used \subseteq Lines(g) OBVIOUS
    <2>1. CASE used = {}
      <3>1. p = IF history_size(g) > 0 THEN 0 ELSE 1 BY <2>1 DEF viewport_end
      <3>. QED BY <3>1, GridFields
    <2>2. CASE used # {} /\ \E i \in used : \A j \in used : j <= i
      <3>. DEFINE m == CHOOSE i \in used : \A j \in used : j <= i
      <3>1. m \in used BY <2>2
      <3>2. p = 1 + m BY <2>2 DEF viewport_end
      <3>. HIDE DEF m, p
      <3>. QED BY <3>1, <3>2, <2>0, GridFields DEF Lines
    <2>3. used # {} => \E i \in used : \A j \in used : j <= i
      <3>. HIDE DEF used
      <3>. QED BY <2>0, GridFields, GreatestExists DEF Lines
    <2>. QED BY <2>1, <2>2, <2>3
  <1>2. clear_viewport(g) = [t EXCEPT !.raw = s] BY DEF clear_viewport
  <1>. HIDE DEF p
  <1>3. GridOK(t) BY <1>1, GridFields, ScrollUpOK
  <1>. HIDE DEF t
  <1>4. Fits(t, s)
    <2>1. Fits(t, t.raw) BY <1>3, GridFields DEF Fits
    <2>2. g.lines - p \in Int BY <1>1, GridFields
    <2>. QED BY <1>3, <2>1, <2>2, ResetRowsFits
  <1>. HIDE DEF s
  <1>5. GridOK([t EXCEPT !.raw = s])
    <2>1. 0 \in Nat /\ 0 <= t.max_scroll_limit BY <1>3, GridFields
    <2>. QED BY <1>3, <1>4, <2>1, NewRaw
  <1>. QED BY <1>2, <1>5

LEMMA ClearHistoryOK ==
    ASSUME NEW g, GridOK(g)
    PROVE  GridOK(clear_history(g))
  <1>. DEFINE s == shrink_lines(g.raw, history_size(g))
  <1>1. /\ Ring(s) /\ s.visible_lines = g.raw.visible_lines
        /\ s.len = g.raw.len - history_size(g)
    <2>1. history_size(g) < g.raw.len BY GridFields
    <2>. QED BY <2>1, GridFields, ShrinkLinesShape
  <1>. HIDE DEF s
  <1>2. Fits(g, s) BY <1>1, GridFields DEF Fits
  <1>3. GridOK([g EXCEPT !.raw = s, !.display_offset = 0])
    <2>1. 0 \in Nat /\ 0 <= g.max_scroll_limit BY GridFields
    <2>. QED BY <1>2, <2>1, NewRaw
  <1>. QED BY <1>3 DEF clear_history, s

LEMMA ResetOK ==
    ASSUME NEW g, GridOK(g)
    PROVE  GridOK(reset(g))
  <1>. DEFINE t == clear_history(g)
              s == ResetRows(t.raw, 0 - history_size(t), t.lines)
  <1>1. GridOK(t) BY ClearHistoryOK
  <1>2. reset(g) = [t EXCEPT !.cursor = 0, !.saved_cursor = 0, !.display_offset = 0,
                             !.raw = s]
    BY DEF reset
  <1>. HIDE DEF t
  <1>3. Fits(t, s)
    <2>1. 0 - history_size(t) \in Int /\ t.lines \in Int BY <1>1, GridFields
    <2>2. Fits(t, t.raw) BY <1>1, GridFields DEF Fits
    <2>. QED BY <1>1, <2>1, <2>2, ResetRowsFits
  <1>. HIDE DEF s
  <1>4. s \in StorageType /\ StorageOK(s)
    BY <1>1, <1>3, GridFields DEF Fits, Ring, StorageOK
  <1>5. GridOK([t EXCEPT !.cursor = 0, !.saved_cursor = 0, !.display_offset = 0, !.raw = s])
    <2>1. 0 < t.lines /\ 0 <= t.max_scroll_limit BY <1>1, GridFields
    <2>2. t \in GridType BY <1>1 DEF GridOK
    <2>. QED BY <1>3, <1>4, <2>1, <2>2 DEF GridOK, GridType, Fits
  <1>. QED BY <1>2, <1>5

LEMMA GrowLinesOK ==
    ASSUME NEW g, GridOK(g), NEW target \in Nat, g.lines < target
    PROVE  GridOK(grow_lines(g, target))
  <1>. DEFINE added == target - g.lines
              r == grow_visible_lines(g.raw, target)
              t == [g EXCEPT !.raw = r, !.lines = target]
              from_history == MinOf(history_size(t), added)
              u == IF from_history # added
                   THEN scroll_up(t, 0, target, added - from_history) ELSE t
              o == SaturatingSub(u.display_offset, added)
              v == [u EXCEPT !.saved_cursor = g.saved_cursor + from_history,
                             !.cursor = g.cursor + from_history,
                             !.display_offset = o]
  <1>1. grow_lines(g, target) = decrease_scroll_limit(v, added)
    BY DEF grow_lines
  <1>2. added \in Nat /\ g.lines + added = target BY GridFields
  <1>3. /\ Ring(r) /\ r.visible_lines = target /\ r.len = g.raw.len + added
    BY GridFields, GrowVisibleShape
  <1>. HIDE DEF r, added
  <1>4. GridOK(t) /\ t.lines = target /\ t.cursor = g.cursor /\ t.saved_cursor = g.saved_cursor
    <2>1. r \in StorageType /\ StorageOK(r) /\ r.len <= target + g.max_scroll_limit
      BY SMTT(60), <1>2, <1>3, GridFields DEF Ring, StorageOK
    <2>2. /\ g \in GridType /\ g.cursor < target /\ g.saved_cursor < target
          /\ g.display_offset <= g.max_scroll_limit
      BY GridFields
    <2>. QED BY <1>3, <2>1, <2>2 DEF GridOK, GridType
  <1>. HIDE DEF t
  <1>5. from_history \in Nat /\ from_history <= added
    BY <1>2, <1>4, GridFields DEF MinOf
  <1>. HIDE DEF from_history
  <1>6. GridOK(u) /\ u.lines = target
    <2>1. CASE from_history = added BY <2>1, <1>4
    <2>2. CASE from_history # added
      <3>1. added - from_history \in Nat /\ added - from_history <= target /\ 0 < target
        BY <1>2, <1>5, GridFields
      <3>. QED BY <3>1, <2>2, <1>4, ScrollUpOK
    <2>. QED BY <2>1, <2>2
  <1>. HIDE DEF u
  <1>7. o \in Nat /\ o <= u.max_scroll_limit
    BY <1>2, <1>6, GridFields DEF SaturatingSub
  <1>. HIDE DEF o
  <1>8. GridOK(v)
    <2>1. /\ g.saved_cursor + from_history \in Nat /\ g.saved_cursor + from_history < target
          /\ g.cursor + from_history \in Nat /\ g.cursor + from_history < target
      BY <1>2, <1>5, GridFields
    <2>. QED BY <1>6, <1>7, <2>1, GridFields DEF GridOK, GridType
  <1>. HIDE DEF v
  <1>. QED BY <1>1, <1>2, <1>8, DecreaseOK

LEMMA ShrinkGridLinesOK ==
    ASSUME NEW g, GridOK(g), NEW target \in Nat, 1 <= target, target < g.lines
    PROVE  GridOK(shrink_grid_lines(g, target))
  <1>. DEFINE required == SaturatingSub(g.cursor + 1, target)
              t == IF required > 0 THEN scroll_up(g, 0, g.lines, required) ELSE g
              a == rotate(t.raw, g.lines - target)
              s == shrink_visible_lines(a, target)
              c == MinOf(g.cursor, target - 1)
              d == MinOf(g.saved_cursor, target - 1)
  <1>1. shrink_grid_lines(g, target)
          = [t EXCEPT !.cursor = c, !.saved_cursor = d, !.raw = s, !.lines = target]
    BY DEF shrink_grid_lines
  <1>2. required \in Nat /\ required <= g.lines
    BY GridFields DEF SaturatingSub
  <1>. HIDE DEF required
  <1>3. GridOK(t) /\ t.lines = g.lines
    <2>1. g.lines \in Nat /\ 0 < g.lines /\ g.lines <= g.lines BY GridFields
    <2>2. CASE required > 0 BY <1>2, <2>1, <2>2, ScrollUpOK
    <2>3. CASE ~(required > 0) BY <2>3
    <2>. QED BY <2>2, <2>3
  <1>. HIDE DEF t
  <1>4. SameShape(t.raw, a)
    <2>1. g.lines - target \in Int BY GridFields
    <2>. QED BY <2>1, <1>3, GridFields, RotateShape
  <1>. HIDE DEF a
  <1>5. /\ Ring(s) /\ s.visible_lines = target
        /\ s.len = t.raw.len - (g.lines - target)
    <2>1. /\ Ring(a) /\ target <= a.visible_lines /\ a.visible_lines - target < a.len
          /\ a.visible_lines = g.lines /\ a.len = t.raw.len
      BY <1>3, <1>4, GridFields DEF SameShape
    <2>. QED BY <2>1, ShrinkVisibleShape
  <1>. HIDE DEF s
  <1>6. s \in StorageType /\ StorageOK(s) /\ s.len <= target + t.max_scroll_limit
    BY <1>3, <1>5, GridFields DEF Ring, StorageOK
  <1>7. c \in Nat /\ c < target /\ d \in Nat /\ d < target
    BY GridFields DEF MinOf
  <1>. HIDE DEF c, d
  <1>. QED BY ZenonT(60), <1>1, <1>3, <1>5, <1>6, <1>7, GridFields DEF GridOK, GridType

LEMMA ResizeOK ==
    ASSUME NEW g, GridOK(g), NEW lines \in Nat, 1 <= lines
    PROVE  GridOK(resize(g, lines))
  <1>1. CASE g.lines < lines BY <1>1, GrowLinesOK DEF resize
  <1>2. CASE g.lines > lines BY <1>2, GridFields, ShrinkGridLinesOK DEF resize
  <1>3. CASE g.lines = lines BY <1>3, GridFields DEF resize
  <1>. QED BY <1>1, <1>2, <1>3, GridFields

LEMMA CursorOK ==
    ASSUME NEW g, GridOK(g), NEW line \in Nat, line < g.lines, NEW b \in BOOLEAN
    PROVE  /\ GridOK([g EXCEPT !.cursor = line])
           /\ GridOK([g EXCEPT !.saved_cursor = line])
           /\ GridOK([g EXCEPT !.auto_scroll_enabled = b])
  BY GridFields DEF GridOK, GridType

-----------------------------------------------------------------------------
(* The specification *)

LEMMA InitInBounds == Init => InBounds
  <1>. SUFFICES ASSUME NEW lines \in 1..MaxLines, NEW limit \in 0..MaxScrollLimit,
                       grid = new(lines, limit)
                PROVE  GridOK(grid)
    BY DEF Init, InBounds
  <1>. QED BY GridAssumption, NewOK

LEMMA ScrollInBounds == InBounds /\ Scroll => InBounds'
  <1>. SUFFICES ASSUME GridOK(grid), Scroll PROVE GridOK(grid')
    BY DEF InBounds
  <1>1. PICK start \in RegionStarts, end \in 1..grid.lines, positions \in 1..grid.lines :
            /\ start < end
            /\ \/ (start = 0 => positions <= end) /\ ScrollUp(start, end, positions)
               \/ ScrollDown(start, end, positions)
    BY DEF Scroll
  <1>2. /\ start \in Nat /\ end \in Nat /\ positions \in Nat
        /\ start < end /\ end <= grid.lines
    BY <1>1, GridAssumption, GridFields
  <1>3. CASE (start = 0 => positions <= end) /\ ScrollUp(start, end, positions)
    BY <1>2, <1>3, ScrollUpOK DEF ScrollUp
  <1>4. CASE ScrollDown(start, end, positions)
    BY <1>2, <1>4, ScrollDownOK DEF ScrollDown
  <1>. QED BY <1>1, <1>3, <1>4

LEMMA NextInBounds == InBounds /\ [Next]_grid => InBounds'
  <1>. SUFFICES ASSUME GridOK(grid), [Next]_grid PROVE GridOK(grid')
    BY DEF InBounds
  <1>0. grid.lines \in Nat /\ 1 <= grid.lines BY GridFields
  <1>1. ASSUME NEW line \in Lines(grid), NEW row \in Rows, Write(line, row)
        PROVE  GridOK(grid')
    <2>1. line \in Int /\ Ring(grid.raw) /\ Active(grid.raw, line)
      BY GridFields DEF Lines, Active
    <2>2. Fits(grid, SetRow(grid.raw, line, row))
      BY <2>1, SetRowShape, SameShapeFits
    <2>. QED BY <1>1, <2>2, NewRaw, GridFields DEF Write
  <1>2. CASE Scroll BY <1>2, ScrollInBounds DEF InBounds
  <1>3. CASE ScrollDisplay
    <2>1. ASSUME NEW count \in {-1, 1}, grid' = scroll_delta(grid, count)
          PROVE  GridOK(grid')
      BY <2>1, ScrollDisplayOK
    <2>. QED BY <1>3, <2>1, ScrollDisplayOK DEF ScrollDisplay
  <1>4. CASE ClearViewport BY <1>4, ClearViewportOK DEF ClearViewport
  <1>5. CASE ClearHistory BY <1>5, ClearHistoryOK DEF ClearHistory
  <1>6. CASE Reset BY <1>6, ResetOK DEF Reset
  <1>7. ASSUME NEW start \in Lines(grid), NEW end \in 1..grid.lines, ResetRegion(start, end)
        PROVE  GridOK(grid')
    <2>1. start \in Int /\ end \in Int BY <1>0 DEF Lines
    <2>2. Fits(grid, grid.raw) BY GridFields DEF Fits
    <2>3. Fits(grid, ResetRows(grid.raw, start, end)) BY <2>1, <2>2, ResetRowsFits
    <2>. QED BY <1>7, <2>3, NewRaw, GridFields DEF ResetRegion, reset_region
  <1>8. ASSUME NEW size \in 0..MaxScrollLimit, UpdateHistory(size)
        PROVE  GridOK(grid')
    BY <1>8, GridAssumption, UpdateHistoryOK DEF UpdateHistory
  <1>9. ASSUME NEW lines \in 1..MaxLines, Resize(lines)
        PROVE  GridOK(grid')
    BY <1>9, GridAssumption, ResizeOK DEF Resize
  <1>10. ASSUME NEW enabled \in BOOLEAN, SetAutoScroll(enabled)
         PROVE  GridOK(grid')
    <2>1. 0 \in Nat /\ 0 < grid.lines BY <1>0
    <2>. QED BY <1>10, <2>1, CursorOK DEF SetAutoScroll
  <1>11. ASSUME NEW line \in Lines(grid), MoveCursor(line)
         PROVE  GridOK(grid')
    <2>1. line \in Nat /\ line < grid.lines BY <1>0 DEF Lines
    <2>. QED BY <1>11, <2>1, CursorOK DEF MoveCursor
  <1>12. CASE SaveCursor
    <2>1. grid.cursor \in Nat /\ grid.cursor < grid.lines /\ TRUE \in BOOLEAN
      BY GridFields
    <2>. QED BY <1>12, <2>1, CursorOK DEF SaveCursor
  <1>13. CASE UNCHANGED grid BY <1>13
  <1>. QED BY <1>1, <1>2, <1>3, <1>4, <1>5, <1>6, <1>7, <1>8, <1>9, <1>10, <1>11,
              <1>12, <1>13 DEF Next

(* Type correctness and index safety of the grid, for every screen size, limit,
   cache size and scrolling region: Storage::compute_index is never asked for a
   line outside the buffer by any function of Grid, and neither the scrollback
   nor the display offset ever exceeds max_scroll_limit. *)
THEOREM GridInBounds == Spec => []InBounds
  BY InitInBounds, NextInBounds, PTL DEF Spec

-----------------------------------------------------------------------------
(* Which row each line holds *)

HIDE StorageAssumption

(* The remainder of a number below three times the divisor. *)
LEMMA ModSmall ==
    ASSUME NEW n \in Nat, NEW a \in Nat
    PROVE  /\ a < n => a % n = a
           /\ n <= a /\ a < 2 * n => a % n = a - n
           /\ 2 * n <= a /\ a < 3 * n => a % n = a - 2 * n
  OBVIOUS

(* The lines that have a slot of the ring: those of the screen and as many above it as
   the buffer holds, the dropped rows included. *)
Slotted(s, line) == s.visible_lines - Len(s.inner) <= line /\ line < s.visible_lines

(* A line of the grid has a slot. *)
LEMMA ActiveSlotted ==
    ASSUME NEW s, Ring(s), NEW line \in Int, Active(s, line)
    PROVE  Slotted(s, line)
  BY RingFields DEF Active, Slotted

(* compute_index of a line that has a slot is a slot, and LineAt takes it back to the
   line. *)
LEMMA SlotOfLine ==
    ASSUME NEW s, Ring(s), NEW line \in Int, Slotted(s, line)
    PROVE  /\ compute_index(s, line) \in 0..(Len(s.inner) - 1)
           /\ compute_index(s, line) + 1 \in 1..Len(s.inner)
           /\ LineAt(s, compute_index(s, line)) = line
  <1>1. PICK n \in Nat : n = Len(s.inner) BY RingFields
  <1>2. PICK z \in Nat, v \in Nat : z = s.zero /\ v = s.visible_lines /\ z < n BY <1>1, RingFields
  <1>3. v - n <= line /\ line < v BY <1>1, <1>2 DEF Slotted
  <1>4. PICK c : c = compute_index(s, line) OBVIOUS
  <1>5. c = IF z + (v - line - 1) >= n THEN z + (v - line - 1) - n ELSE z + (v - line - 1)
    <2>1. compute_index(s, line)
            = IF z + (v - line - 1) >= n THEN z + (v - line - 1) - n ELSE z + (v - line - 1)
      BY SMTT(60), <1>1, <1>2 DEF compute_index
    <2>. QED BY <1>4, <2>1
  <1>6. c \in 0..(n - 1) /\ c + 1 \in 1..n BY <1>2, <1>3, <1>5
  <1>7. LineAt(s, c) = v - 1 - (IF c >= z THEN c - z ELSE c - z + n) BY <1>1, <1>2 DEF LineAt
  <1>8. LineAt(s, c) = line BY <1>2, <1>3, <1>5, <1>7
  <1>. QED BY <1>1, <1>4, <1>6, <1>8

(* Rows of a ring whose slots are replaced by others are found where they were. *)
LEMMA RowOfNew ==
    ASSUME NEW s, Ring(s), NEW f, Len(f) = Len(s.inner), NEW line \in Int
    PROVE  Row([s EXCEPT !.inner = f], line) = f[compute_index(s, line) + 1]
  <1>1. /\ [s EXCEPT !.inner = f].inner = f /\ [s EXCEPT !.inner = f].zero = s.zero
        /\ [s EXCEPT !.inner = f].visible_lines = s.visible_lines
    BY DEF Ring, StorageType
  <1>. QED BY <1>1 DEF Row, compute_index

(* Storing a row changes what that line holds and no other line. *)
LEMMA SetRowRow ==
    ASSUME NEW s, Ring(s), NEW line \in Int, Slotted(s, line), NEW row,
           NEW i \in Int, Slotted(s, i)
    PROVE  Row(SetRow(s, line, row), i) = IF i = line THEN row ELSE Row(s, i)
  <1>1. PICK k : k = compute_index(s, line) + 1 OBVIOUS
  <1>2. PICK f : f = [s.inner EXCEPT ![k] = row] OBVIOUS
  <1>3. s.inner \in [1..Len(s.inner) -> Rows] BY RingFields, LenProperties
  <1>4. SetRow(s, line, row) = [s EXCEPT !.inner = f] BY <1>1, <1>2 DEF SetRow, Ring, StorageType
  <1>5. PICK j : j = compute_index(s, i) + 1 OBVIOUS
  <1>6. j \in 1..Len(s.inner) /\ k \in 1..Len(s.inner) /\ (j = k <=> i = line)
    <2>1. compute_index(s, i) = compute_index(s, line) => i = line BY SlotOfLine
    <2>. QED BY <1>1, <1>5, <2>1, SlotOfLine
  <1>7. Len(f) = Len(s.inner) /\ f[j] = IF j = k THEN row ELSE s.inner[j]
    <2>1. DOMAIN f = 1..Len(s.inner) BY <1>2, <1>3
    <2>2. Len(f) = Len(s.inner) BY <2>1, RingFields
    <2>. QED BY <1>2, <1>3, <1>6, <2>2
  <1>8. Row(SetRow(s, line, row), i) = f[j] BY <1>4, <1>5, <1>7, RowOfNew
  <1>. QED BY <1>5, <1>6, <1>7, <1>8 DEF Row

(* Resetting the lines from..to-1 blanks them and no other line. *)
LEMMA ResetRowsRow ==
    ASSUME NEW s, Ring(s), NEW from \in Int, NEW to \in Int, NEW i \in Int, Slotted(s, i)
    PROVE  Row(ResetRows(s, from, to), i) = IF from <= i /\ i < to THEN Blank ELSE Row(s, i)
  <1>1. PICK f : f = [k \in 1..Len(s.inner) |->
                      IF from <= LineAt(s, k-1) /\ LineAt(s, k-1) < to THEN Blank ELSE s.inner[k]]
    OBVIOUS
  <1>2. ResetRows(s, from, to) = [s EXCEPT !.inner = f] BY <1>1 DEF ResetRows, SetRows
  <1>3. Len(f) = Len(s.inner) BY <1>1, RingFields
  <1>4. PICK c : c = compute_index(s, i) OBVIOUS
  <1>5. c + 1 \in 1..Len(s.inner) /\ c \in Int /\ LineAt(s, c) = i /\ (c + 1) - 1 = c BY <1>4, SlotOfLine
  <1>6. f[c + 1] = IF from <= i /\ i < to THEN Blank ELSE s.inner[c + 1] BY <1>1, <1>5
  <1>7. Row(ResetRows(s, from, to), i) = f[c + 1] BY <1>2, <1>3, <1>4, RowOfNew
  <1>. QED BY <1>4, <1>6, <1>7 DEF Row

(* The loop of swaps of scroll_up moves the lines up by `by` and leaves the ones it
   replaced, in turn, at the end. *)
LEMMA SwapUpwardsRow ==
    ASSUME NEW s, Ring(s), NEW from \in Int, NEW to \in Int, NEW by \in Nat, NEW i \in Int, Slotted(s, i)
    PROVE  Row(SwapUpwards(s, from, to, by), i) =
             IF from < to /\ by # 0 /\ from <= i /\ i < to + by
             THEN Row(s, IF i < to THEN i + by ELSE from + ((i - from) % by)) ELSE Row(s, i)
  <1>1. CASE from >= to \/ by = 0 BY <1>1 DEF SwapUpwards
  <1>2. CASE from < to /\ by # 0
    <2>1. PICK f : f = [k \in 1..Len(s.inner) |->
                        IF from <= LineAt(s, k-1) /\ LineAt(s, k-1) < to + by
                        THEN Row(s, IF LineAt(s, k-1) < to THEN LineAt(s, k-1) + by
                                    ELSE from + ((LineAt(s, k-1) - from) % by)) ELSE s.inner[k]]
      OBVIOUS
    <2>2. SwapUpwards(s, from, to, by) = [s EXCEPT !.inner = f] BY <1>2, <2>1 DEF SwapUpwards, SetRows
    <2>3. Len(f) = Len(s.inner) BY <2>1, RingFields
    <2>4. PICK c : c = compute_index(s, i) OBVIOUS
    <2>5. c + 1 \in 1..Len(s.inner) /\ c \in Int /\ LineAt(s, c) = i /\ (c + 1) - 1 = c BY <2>4, SlotOfLine
    <2>6. f[c + 1] = IF from <= i /\ i < to + by
                     THEN Row(s, IF i < to THEN i + by ELSE from + ((i - from) % by)) ELSE s.inner[c + 1]
      BY <2>1, <2>5
    <2>7. Row(SwapUpwards(s, from, to, by), i) = f[c + 1] BY <2>2, <2>3, <2>4, RowOfNew
    <2>8. Row(s, i) = s.inner[c + 1] BY <2>4 DEF Row
    <2>. QED BY <1>2, <2>6, <2>7, <2>8
  <1>. QED BY <1>1, <1>2

(* The loop of swaps of scroll_down moves the lines down by `by`. *)
LEMMA SwapDownwardsRow ==
    ASSUME NEW s, Ring(s), NEW from \in Int, NEW to \in Int, NEW by \in Nat, NEW i \in Int, Slotted(s, i)
    PROVE  Row(SwapDownwards(s, from, to, by), i) =
             IF from < to /\ by # 0 /\ from - by <= i /\ i < to
             THEN Row(s, IF i >= from THEN i - by ELSE (to - 1) - ((to - 1 - i) % by)) ELSE Row(s, i)
  <1>1. CASE from >= to \/ by = 0 BY <1>1 DEF SwapDownwards
  <1>2. CASE from < to /\ by # 0
    <2>1. PICK f : f = [k \in 1..Len(s.inner) |->
                        IF from - by <= LineAt(s, k-1) /\ LineAt(s, k-1) < to
                        THEN Row(s, IF LineAt(s, k-1) >= from THEN LineAt(s, k-1) - by
                                    ELSE (to - 1) - ((to - 1 - LineAt(s, k-1)) % by)) ELSE s.inner[k]]
      OBVIOUS
    <2>2. SwapDownwards(s, from, to, by) = [s EXCEPT !.inner = f] BY <1>2, <2>1 DEF SwapDownwards, SetRows
    <2>3. Len(f) = Len(s.inner) BY <2>1, RingFields
    <2>4. PICK c : c = compute_index(s, i) OBVIOUS
    <2>5. c + 1 \in 1..Len(s.inner) /\ c \in Int /\ LineAt(s, c) = i /\ (c + 1) - 1 = c BY <2>4, SlotOfLine
    <2>6. f[c + 1] = IF from - by <= i /\ i < to
                     THEN Row(s, IF i >= from THEN i - by ELSE (to - 1) - ((to - 1 - i) % by))
                     ELSE s.inner[c + 1]
      BY <2>1, <2>5
    <2>7. Row(SwapDownwards(s, from, to, by), i) = f[c + 1] BY <2>2, <2>3, <2>4, RowOfNew
    <2>8. Row(s, i) = s.inner[c + 1] BY <2>4 DEF Row
    <2>. QED BY <1>2, <2>6, <2>7, <2>8
  <1>. QED BY <1>1, <1>2

(* Rotating the ring renames its lines: what was `count` lines above is now here. *)
LEMMA RotateRow ==
    ASSUME NEW s, Ring(s), NEW count \in Int, NEW i \in Int, Slotted(s, i), Slotted(s, i - count)
    PROVE  /\ Row(rotate(s, count), i) = Row(s, i - count)
           /\ count >= 0 => Row(rotate_down(s, count), i) = Row(s, i - count)
  <1>1. PICK n \in Nat \ {0} : n = Len(s.inner) BY RingFields
  <1>2. PICK z \in 0..(n - 1), v \in Nat : z = s.zero /\ v = s.visible_lines BY <1>1, RingFields
  <1>3. /\ v - n <= i /\ i < v /\ v - n <= i - count /\ i - count < v
    BY <1>1, <1>2 DEF Slotted
  <1>4. /\ -n < count /\ count < n BY <1>3
  <1>5. compute_index(s, i - count) = IF z + (v - (i - count) - 1) >= n
                                      THEN z + (v - (i - count) - 1) - n ELSE z + (v - (i - count) - 1)
    BY SMTT(60), <1>1, <1>2 DEF compute_index
  <1>6. ASSUME NEW y \in 0..(n - 1), NEW t, t = [s EXCEPT !.zero = y],
               y = z + count \/ y = z + count + n \/ y = z + count - n
        PROVE  Row(t, i) = Row(s, i - count)
    <2>1. t.inner = s.inner /\ t.zero = y /\ t.visible_lines = v
      BY <1>2, <1>6 DEF Ring, StorageType
    <2>2. compute_index(t, i) = IF y + (v - i - 1) >= n THEN y + (v - i - 1) - n ELSE y + (v - i - 1)
      BY <1>1, <2>1 DEF compute_index
    <2>3. compute_index(t, i) = compute_index(s, i - count)
      BY <1>3, <1>4, <1>5, <1>6, <2>2
    <2>. QED BY <2>1, <2>3 DEF Row
  <1>7. Row(rotate(s, count), i) = Row(s, i - count)
    <2>1. PICK a \in Nat : a = z + count + n /\ a < 3 * n BY <1>4
    <2>2. PICK y : y = a % n OBVIOUS
    <2>3. y \in 0..(n - 1) /\ (y = z + count \/ y = z + count + n \/ y = z + count - n)
      <3>1. CASE a < n
        <4>1. y = a BY <2>2, <3>1, ModSmall, n \in Nat
        <4>. QED BY <2>1, <3>1, <4>1
      <3>2. CASE n <= a /\ a < 2 * n
        <4>1. y = a - n BY <2>2, <3>2, ModSmall, n \in Nat
        <4>. QED BY <2>1, <3>2, <4>1
      <3>3. CASE 2 * n <= a
        <4>1. y = a - 2 * n BY <2>1, <2>2, <3>3, ModSmall, n \in Nat
        <4>. QED BY <2>1, <3>3, <4>1
      <3>. QED BY <2>1, <3>1, <3>2, <3>3
    <2>4. rotate(s, count) = [s EXCEPT !.zero = y] BY <1>1, <1>2, <2>1, <2>2 DEF rotate
    <2>. QED BY <1>6, <2>3, <2>4
  <1>8. ASSUME count >= 0 PROVE Row(rotate_down(s, count), i) = Row(s, i - count)
    <2>1. PICK a \in Nat : a = z + count /\ a < 2 * n BY <1>4, <1>8
    <2>2. PICK y : y = a % n OBVIOUS
    <2>3. y \in 0..(n - 1) /\ (y = z + count \/ y = z + count + n \/ y = z + count - n)
      <3>1. CASE a < n
        <4>1. y = a BY <2>2, <3>1, ModSmall, n \in Nat
        <4>. QED BY <2>1, <3>1, <4>1
      <3>2. CASE n <= a
        <4>1. y = a - n BY <2>1, <2>2, <3>2, ModSmall, n \in Nat
        <4>. QED BY <2>1, <3>2, <4>1
      <3>. QED BY <2>1, <3>1, <3>2
    <2>4. rotate_down(s, count) = [s EXCEPT !.zero = y] BY <1>1, <1>2, <2>1, <2>2 DEF rotate_down
    <2>. QED BY <1>6, <2>3, <2>4
  <1>. QED BY <1>7, <1>8

(* In a buffer whose zero is the first slot, a line is found at its distance from the
   bottom of the screen. *)
LEMMA RowByPosition ==
    ASSUME NEW s, s \in StorageType, NEW p \in Nat, NEW i \in Int, p = s.visible_lines - 1 - i, s.zero = 0,
           p < Len(s.inner)
    PROVE  Row(s, i) = s.inner[p + 1]
  <1>1. s.zero + (s.visible_lines - i - 1) = p /\ s.visible_lines \in Nat /\ Len(s.inner) \in Nat
    BY DEF StorageType
  <1>2. compute_index(s, i) = p BY <1>1 DEF compute_index
  <1>. QED BY <1>2 DEF Row

(* rezero moves the slots and no line. *)
LEMMA RezeroRow ==
    ASSUME NEW s, Ring(s), NEW i \in Int, Slotted(s, i)
    PROVE  Row(rezero(s), i) = Row(s, i)
  <1>1. CASE s.zero = 0 BY <1>1 DEF rezero
  <1>2. CASE s.zero # 0
    <2>1. PICK t \in Seq(Rows) : t = s.inner BY RingFields
    <2>2. PICK n \in Nat : n = Len(t) OBVIOUS
    <2>3. PICK z \in Nat, v \in Nat : z = s.zero /\ v = s.visible_lines /\ z < n BY <2>1, <2>2, RingFields
    <2>4. PICK a, b : a = SubSeq(t, z + 1, n) /\ b = SubSeq(t, 1, z) OBVIOUS
    <2>5. a \in Seq(Rows) /\ Len(a) = n - z /\ \A k \in 1..(n - z) : a[k] = t[z + k]
      <3>1. /\ a \in Seq(Rows) /\ Len(a) = (IF z + 1 <= n THEN n - (z + 1) + 1 ELSE 0)
            /\ \A k \in 1..(n - (z + 1) + 1) : a[k] = t[(z + 1) + k - 1]
        <4>1. z + 1 \in Int /\ n \in Int /\ \A k \in (z + 1)..n : t[k] \in Rows BY <2>2
        <4>. QED BY <4>1, <2>4, SubSeqProperties
      <3>2. n - (z + 1) + 1 = n - z /\ z + 1 <= n /\ \A k \in 1..(n - z) : (z + 1) + k - 1 = z + k BY SMTT(60), <2>3
      <3>. QED BY <3>1, <3>2
    <2>6. b \in Seq(Rows) /\ Len(b) = z /\ \A k \in 1..z : b[k] = t[k]
      <3>1. 1 \in Int /\ z \in Int /\ \A k \in 1..z : t[k] \in Rows BY <2>2, <2>3
      <3>2. /\ b \in Seq(Rows) /\ Len(b) = (IF 1 <= z THEN z - 1 + 1 ELSE 0)
            /\ \A k \in 1..(z - 1 + 1) : b[k] = t[1 + k - 1]
        BY <3>1, <2>4, SubSeqProperties
      <3>3. z - 1 + 1 = z /\ \A k \in 1..z : 1 + k - 1 = k OBVIOUS
      <3>. QED BY <3>2, <3>3, <1>2, <2>3
    <2>7. PICK c : c = a \o b OBVIOUS
    <2>8. Len(c) = n /\ \A k \in 1..n : c[k] = IF k <= n - z THEN t[z + k] ELSE t[k - (n - z)]
      <3>1. /\ Len(c) = (n - z) + z
            /\ \A k \in 1..((n - z) + z) : c[k] = IF k <= n - z THEN a[k] ELSE b[k - (n - z)]
        BY <2>5, <2>6, <2>7, ConcatProperties
      <3>2. ASSUME NEW k \in 1..n PROVE c[k] = IF k <= n - z THEN t[z + k] ELSE t[k - (n - z)]
        <4>1. CASE k <= n - z
          <5>1. k \in 1..(n - z) /\ k \in 1..((n - z) + z) BY <4>1, <2>3
          <5>. QED BY <2>5, <3>1, <4>1, <5>1
        <4>2. CASE ~(k <= n - z)
          <5>1. k - (n - z) \in 1..z /\ k \in 1..((n - z) + z) BY <4>2, <2>3
          <5>. QED BY <2>6, <3>1, <4>2, <5>1
        <4>. QED BY <4>1, <4>2
      <3>. QED BY <3>1, <3>2
    <2>9. PICK r : r = rezero(s) OBVIOUS
    <2>10. r \in StorageType /\ r.zero = 0 /\ r.inner = c /\ r.visible_lines = v
      <3>1. r = [s EXCEPT !.inner = c, !.zero = 0] BY <1>2, <2>1, <2>2, <2>3, <2>4, <2>7, <2>9 DEF rezero
      <3>2. r \in StorageType BY <2>9, RezeroShape DEF SameShape, Ring
      <3>. QED BY <3>1, <3>2, <2>3 DEF Ring, StorageType
    <2>11. PICK p \in Nat : p = v - 1 - i /\ p < n BY <2>1, <2>2, <2>3 DEF Slotted
    <2>12. Row(r, i) = c[p + 1] BY <2>8, <2>10, <2>11, RowByPosition
    <2>13. compute_index(s, i) = IF z + p >= n THEN z + p - n ELSE z + p
      <3>1. v - i - 1 = p BY <2>11
      <3>. QED BY <3>1, <2>1, <2>2, <2>3 DEF compute_index
    <2>14. c[p + 1] = IF p + 1 <= n - z THEN t[z + (p + 1)] ELSE t[(p + 1) - (n - z)]
      BY <2>8, <2>11
    <2>15. CASE z + p >= n
      <3>1. Row(s, i) = t[z + p - n + 1] BY <2>1, <2>13, <2>15 DEF Row
      <3>2. z + p - n + 1 = (p + 1) - (n - z) /\ ~(p + 1 <= n - z) BY <2>15
      <3>. QED BY <2>9, <2>12, <2>14, <3>1, <3>2
    <2>16. CASE ~(z + p >= n)
      <3>1. Row(s, i) = t[z + p + 1] BY <2>1, <2>13, <2>16 DEF Row
      <3>2. z + p + 1 = z + (p + 1) /\ p + 1 <= n - z BY <2>16
      <3>. QED BY <2>9, <2>12, <2>14, <3>1, <3>2
    <2>. QED BY <2>15, <2>16
  <1>. QED BY <1>1, <1>2

(* Forgetting the dropped rows keeps the lines of the grid. *)
LEMMA TruncateRow ==
    ASSUME NEW s, Ring(s), NEW i \in Int, Active(s, i)
    PROVE  Row(truncate(s), i) = Row(s, i)
  <1>1. PICK r : r = rezero(s) OBVIOUS
  <1>2. /\ Ring(r) /\ r.zero = 0 /\ Len(r.inner) = Len(s.inner) /\ r.len = s.len
        /\ r.visible_lines = s.visible_lines
    BY <1>1, RezeroShape DEF SameShape
  <1>3. PICK a : a = SubSeq(r.inner, 1, s.len) OBVIOUS
  <1>4. PICK m \in Nat : m = s.len /\ m <= Len(r.inner) BY <1>2, RingFields
  <1>5. a \in Seq(Rows) /\ Len(a) = m /\ \A k \in 1..m : a[k] = r.inner[k]
    <2>1. 1 \in Int /\ m \in Int /\ \A k \in 1..m : r.inner[k] \in Rows BY <1>2, <1>4, RingFields, ElementOfSeq
    <2>2. /\ a \in Seq(Rows) /\ Len(a) = (IF 1 <= m THEN m - 1 + 1 ELSE 0)
          /\ \A k \in 1..(m - 1 + 1) : a[k] = r.inner[1 + k - 1]
      BY <2>1, <1>3, <1>4, SubSeqProperties
    <2>3. m - 1 + 1 = m /\ \A k \in 1..m : 1 + k - 1 = k OBVIOUS
    <2>. QED BY <2>2, <2>3
  <1>6. truncate(s) = [r EXCEPT !.inner = a] BY <1>1, <1>3 DEF truncate
  <1>7. PICK t : t = truncate(s) OBVIOUS
  <1>8. t \in StorageType /\ t.inner = a /\ t.zero = 0 /\ t.visible_lines = s.visible_lines
    BY <1>2, <1>5, <1>6, <1>7 DEF Ring, StorageType
  <1>9. PICK p \in Nat : p = s.visible_lines - 1 - i /\ p < m BY <1>4, RingFields DEF Active
  <1>10. Row(t, i) = a[p + 1] BY <1>5, <1>8, <1>9, RowByPosition
  <1>11. Row(r, i) = r.inner[p + 1]
    <2>1. r \in StorageType /\ p < Len(r.inner) BY <1>2, <1>4, <1>9, RingFields DEF Ring
    <2>. QED BY <1>2, <1>9, <2>1, RowByPosition
  <1>12. Row(r, i) = Row(s, i) BY <1>1, ActiveSlotted, RezeroRow
  <1>13. a[p + 1] = r.inner[p + 1] BY <1>5, <1>9
  <1>. QED BY <1>7, <1>10, <1>11, <1>12, <1>13

(* shrink_lines takes the oldest lines and keeps the others. *)
LEMMA ShrinkLinesRow ==
    ASSUME NEW s, Ring(s), NEW n \in Nat, n < s.len, NEW i \in Int, Active(s, i),
           s.visible_lines - (s.len - n) <= i
    PROVE  Row(shrink_lines(s, n), i) = Row(s, i)
  <1>1. PICK t : t = [s EXCEPT !.len = s.len - n] OBVIOUS
  <1>2. /\ Ring(t) /\ t.visible_lines = s.visible_lines /\ t.len = s.len - n /\ 1 <= t.len
        /\ t.inner = s.inner /\ t.zero = s.zero
    BY <1>1, RingFields DEF Ring, StorageType
  <1>3. shrink_lines(s, n) = IF Len(t.inner) > t.len + MAX_CACHE_SIZE THEN truncate(t) ELSE t
    BY <1>1 DEF shrink_lines
  <1>4. Row(t, i) = Row(s, i) BY <1>2 DEF Row, compute_index
  <1>5. Active(t, i) BY <1>2, RingFields DEF Active
  <1>6. Row(truncate(t), i) = Row(t, i) BY <1>2, <1>5, TruncateRow
  <1>. QED BY <1>3, <1>4, <1>6

(* Adding rows at the far end of the ring keeps the lines there were. *)
LEMMA InitializeRow ==
    ASSUME NEW s, Ring(s), NEW n \in Nat, NEW i \in Int, Active(s, i)
    PROVE  Row(initialize(s, n), i) = Row(s, i)
  <1>1. CASE ~(s.len + n > Len(s.inner))
    <2>1. initialize(s, n) = [s EXCEPT !.len = s.len + n] BY <1>1 DEF initialize
    <2>2. /\ [s EXCEPT !.len = s.len + n].inner = s.inner /\ [s EXCEPT !.len = s.len + n].zero = s.zero
          /\ [s EXCEPT !.len = s.len + n].visible_lines = s.visible_lines
      BY DEF Ring, StorageType
    <2>. QED BY <2>1, <2>2 DEF Row, compute_index
  <1>2. CASE s.len + n > Len(s.inner)
    <2>1. PICK r, m : r = rezero(s) /\ m = MaxOf(n, MAX_CACHE_SIZE) OBVIOUS
    <2>2. PICK b : b = BlankRows(m) OBVIOUS
    <2>3. PICK a : a = r.inner \o b OBVIOUS
    <2>4. /\ Ring(r) /\ r.zero = 0 /\ Len(r.inner) = Len(s.inner) /\ r.len = s.len
          /\ r.visible_lines = s.visible_lines
      BY <2>1, RezeroShape DEF SameShape
    <2>5. m \in Nat BY <2>1 DEF MaxOf
    <2>6. b \in Seq(Rows) /\ Len(b) = m
      <3>1. b \in [1..m -> Rows]
        <4>1. BlankRows(m) \in [1..m -> Rows] BY StorageAssumption DEF BlankRows
        <4>. QED BY <2>2, <4>1
      <3>. QED BY <3>1, <2>5, SeqDef
    <2>7. PICK k \in Nat : k = Len(r.inner) /\ s.len <= k BY <2>4, RingFields
    <2>8. /\ a \in Seq(Rows) /\ Len(a) = k + m
          /\ \A j \in 1..(k + m) : a[j] = IF j <= k THEN r.inner[j] ELSE b[j - k]
      <3>1. PICK q \in Seq(Rows) : q = r.inner BY <2>4, RingFields
      <3>2. Len(q) = k /\ a = q \o b BY <2>3, <2>7, <3>1
      <3>3. /\ a \in Seq(Rows) /\ Len(a) = k + m
            /\ \A j \in 1..(k + m) : a[j] = IF j <= k THEN q[j] ELSE b[j - k]
        BY ONLY <2>6, <3>2, ConcatProperties
      <3>. QED BY <3>1, <3>3
    <2>9. PICK t : t = initialize(s, n) OBVIOUS
    <2>10. t = [[r EXCEPT !.inner = a] EXCEPT !.len = s.len + n]
      BY <1>2, <2>1, <2>2, <2>3, <2>9 DEF initialize
    <2>11. t \in StorageType /\ t.inner = a /\ t.zero = 0 /\ t.visible_lines = s.visible_lines
      <3>1. s.len + n \in Nat BY RingFields
      <3>. QED BY <2>4, <2>8, <2>10, <3>1 DEF Ring, StorageType
    <2>12. PICK p \in Nat : p = s.visible_lines - 1 - i /\ p < k BY <2>7, RingFields DEF Active
    <2>13. Row(t, i) = a[p + 1] BY <2>5, <2>8, <2>11, <2>12, RowByPosition
    <2>14. Row(r, i) = r.inner[p + 1] BY <2>4, <2>7, <2>12, RowByPosition DEF Ring
    <2>15. Row(r, i) = Row(s, i) BY <2>1, ActiveSlotted, RezeroRow
    <2>16. a[p + 1] = r.inner[p + 1] BY <2>5, <2>8, <2>12
    <2>. QED BY <2>9, <2>13, <2>14, <2>15, <2>16
  <1>. QED BY <1>1, <1>2

(* A higher screen pulls the lines down with its bottom. *)
LEMMA GrowVisibleRow ==
    ASSUME NEW s, Ring(s), NEW next \in Nat, s.visible_lines <= next, NEW i \in Int, NEW j \in Int,
           Active(s, i), j = i + (next - s.visible_lines)
    PROVE  Row(grow_visible_lines(s, next), j) = Row(s, i)
  <1>1. PICK n \in Nat : n = next - s.visible_lines BY RingFields
  <1>2. PICK t : t = initialize(s, n) OBVIOUS
  <1>3. Ring(t) /\ t.visible_lines = s.visible_lines BY <1>1, <1>2, InitializeShape
  <1>4. PICK u : u = grow_visible_lines(s, next) OBVIOUS
  <1>5. u = [t EXCEPT !.visible_lines = next] BY <1>1, <1>2, <1>4 DEF grow_visible_lines
  <1>6. u.inner = t.inner /\ u.zero = t.zero /\ u.visible_lines = next BY <1>3, <1>5 DEF Ring, StorageType
  <1>7. next - j - 1 = t.visible_lines - i - 1 BY <1>3, RingFields
  <1>8. compute_index(u, j) = compute_index(t, i) BY <1>6, <1>7 DEF compute_index
  <1>9. Row(u, j) = Row(t, i) BY <1>6, <1>8 DEF Row
  <1>. QED BY <1>1, <1>2, <1>4, <1>9, InitializeRow

(* A lower screen takes the lines up with its bottom. *)
LEMMA ShrinkVisibleRow ==
    ASSUME NEW s, Ring(s), NEW next \in Nat, next <= s.visible_lines, s.visible_lines - next < s.len,
           NEW i \in Int, NEW j \in Int, Active(s, i), j = i - (s.visible_lines - next),
           next - (s.len - (s.visible_lines - next)) <= j
    PROVE  Row(shrink_visible_lines(s, next), j) = Row(s, i)
  <1>1. PICK n \in Nat : n = s.visible_lines - next BY RingFields
  <1>2. PICK t : t = shrink_lines(s, n) OBVIOUS
  <1>3. Ring(t) /\ t.visible_lines = s.visible_lines BY <1>1, <1>2, ShrinkLinesShape
  <1>4. PICK u : u = shrink_visible_lines(s, next) OBVIOUS
  <1>5. u = [t EXCEPT !.visible_lines = next] BY <1>1, <1>2, <1>4 DEF shrink_visible_lines
  <1>6. u.inner = t.inner /\ u.zero = t.zero /\ u.visible_lines = next BY <1>3, <1>5 DEF Ring, StorageType
  <1>7. next - j - 1 = t.visible_lines - i - 1 BY <1>3, RingFields
  <1>8. compute_index(u, j) = compute_index(t, i) BY <1>6, <1>7 DEF compute_index
  <1>9. Row(u, j) = Row(t, i) BY <1>6, <1>8 DEF Row
  <1>10. s.visible_lines - (s.len - n) <= i BY SMTT(60), <1>1, RingFields
  <1>. QED BY <1>1, <1>2, <1>4, <1>9, <1>10, ShrinkLinesRow

-----------------------------------------------------------------------------
(* The lines of a grid *)

(* The lines from..to-1 of t hold the rows of the lines `by` below them in g. *)
Kept(g, t, from, to, by) ==
    \A i \in Int : from <= i /\ i < to => Row(t.raw, i) = Row(g.raw, i + by)

(* The lines from..to-1 of t are blank. *)
Cleared(t, from, to) ==
    \A i \in Int : from <= i /\ i < to => Row(t.raw, i) = Blank

(* The lines of a grid and of its buffer are active. *)
LEMMA FitsActive ==
    ASSUME NEW g, GridOK(g), NEW s, Fits(g, s), NEW i \in Int
    PROVE  /\ -(s.len - g.lines) <= i /\ i < g.lines => Active(s, i) /\ Slotted(s, i)
           /\ -history_size(g) <= i /\ i < g.lines => Active(g.raw, i) /\ Slotted(g.raw, i)
  <1>1. s.len \in Nat /\ s.visible_lines = g.lines BY RingFields DEF Fits
  <1>2. -(s.len - g.lines) <= i /\ i < g.lines => Active(s, i) BY <1>1, GridFields DEF Active
  <1>3. -history_size(g) <= i /\ i < g.lines => Active(g.raw, i) BY GridFields DEF Active
  <1>. QED BY <1>2, <1>3, ActiveSlotted, GridFields DEF Fits

(* increase_scroll_limit adds lines above and keeps the ones there were. *)
LEMMA IncreaseRow ==
    ASSUME NEW g, GridOK(g), NEW count \in Nat, NEW i \in Int, -history_size(g) <= i, i < g.lines
    PROVE  Row(increase_scroll_limit(g, count).raw, i) = Row(g.raw, i)
  <1>1. PICK n : n = MinOf(count, g.max_scroll_limit - history_size(g)) OBVIOUS
  <1>2. n \in Nat BY <1>1, GridFields DEF MinOf
  <1>3. increase_scroll_limit(g, count)
          = IF n # 0 THEN [g EXCEPT !.raw = initialize(g.raw, n)] ELSE g
    BY <1>1 DEF increase_scroll_limit
  <1>4. [g EXCEPT !.raw = initialize(g.raw, n)].raw = initialize(g.raw, n) BY GridFields DEF GridType
  <1>5. Active(g.raw, i) BY GridFields DEF Active
  <1>6. Row(initialize(g.raw, n), i) = Row(g.raw, i) BY <1>2, <1>5, GridFields, InitializeRow
  <1>. QED BY <1>3, <1>4, <1>6

(* increase_scroll_limit adds the lines asked for, as far as the limit of the
   scrollback allows. *)
LEMMA IncreaseSize ==
    ASSUME NEW g, GridOK(g), NEW count \in Nat
    PROVE  increase_scroll_limit(g, count).raw.len
             = g.raw.len + MinOf(count, g.max_scroll_limit - history_size(g))
  <1>1. PICK n : n = MinOf(count, g.max_scroll_limit - history_size(g)) OBVIOUS
  <1>2. n \in Nat /\ n = MinOf(count, g.max_scroll_limit - history_size(g)) BY <1>1, GridFields DEF MinOf
  <1>3. increase_scroll_limit(g, count)
          = IF n # 0 THEN [g EXCEPT !.raw = initialize(g.raw, n)] ELSE g
    BY <1>1 DEF increase_scroll_limit
  <1>4. [g EXCEPT !.raw = initialize(g.raw, n)].raw = initialize(g.raw, n) BY GridFields DEF GridType
  <1>5. initialize(g.raw, n).len = g.raw.len + n BY <1>2, GridFields, InitializeShape
  <1>6. n = 0 => g.raw.len = g.raw.len + n BY GridFields
  <1>. QED BY <1>2, <1>3, <1>4, <1>5, <1>6

(* rotate_up pulls the lines above `end` up by `p`; the ones below stay. *)
LEMMA RotateUpRow ==
    ASSUME NEW g, GridOK(g), NEW end \in Nat, end <= g.lines, NEW p \in Nat, p <= end
    PROVE  LET s == rotate_up(g, end, p)
               h == history_size(g) + MinOf(p, g.max_scroll_limit - history_size(g))
           IN  /\ s.len = g.lines + h
               /\ \A i \in Int : /\ -h <= i /\ i < end - p => Row(s, i) = Row(g.raw, i + p)
                                 /\ end <= i /\ i < g.lines => Row(s, i) = Row(g.raw, i)
  <1>1. PICK a : a = increase_scroll_limit(g, p).raw OBVIOUS
  <1>2. PICK b : b = rotate(a, -p) OBVIOUS
  <1>3. PICK c : c = SwapDownwards(b, end, g.lines, p) OBVIOUS
  <1>4. PICK h : h = history_size(g) + MinOf(p, g.max_scroll_limit - history_size(g)) OBVIOUS
  <1>5. h \in Nat /\ h <= history_size(g) + p BY <1>4, GridFields DEF MinOf
  <1>6. Fits(g, a) /\ a.len = g.lines + h
    <2>1. a.len = g.raw.len + MinOf(p, g.max_scroll_limit - history_size(g)) BY <1>1, IncreaseSize
    <2>2. MinOf(p, g.max_scroll_limit - history_size(g)) \in Nat BY GridFields DEF MinOf
    <2>. QED BY <1>1, <1>4, <2>1, <2>2, IncreaseFits, GridFields
  <1>7. SameShape(a, b)
    <2>1. -p \in Int OBVIOUS
    <2>. QED BY <2>1, <1>2, <1>6, RotateShape DEF Fits
  <1>8. Ring(b) /\ b.visible_lines = g.lines /\ b.len = g.lines + h BY <1>6, <1>7 DEF SameShape, Fits
  <1>9. SameShape(b, c)
    <2>1. b.visible_lines - b.len <= end - p /\ g.lines <= b.visible_lines /\ g.lines \in Int
      BY <1>8, <1>5, GridFields
    <2>. QED BY <2>1, <1>3, <1>8, SwapDownwardsShape
  <1>10. \A i \in Int : -h <= i /\ i < g.lines => Slotted(a, i) /\ Slotted(b, i)
    <2>. SUFFICES ASSUME NEW i \in Int, -h <= i, i < g.lines PROVE Slotted(a, i) /\ Slotted(b, i)
      OBVIOUS
    <2>1. Active(b, i) /\ Active(a, i)
      <3>1. Ring(a) /\ a.visible_lines = g.lines BY <1>6 DEF Fits
      <3>. QED BY <3>1, <1>5, <1>6, <1>8, GridFields DEF Active
    <2>. QED BY <2>1, <1>6, <1>8, ActiveSlotted DEF Fits
  <1>11. ASSUME NEW i \in Int, -h <= i, i + p < g.lines
         PROVE  Row(b, i) = Row(g.raw, i + p)
    <2>1. i - (-p) = i + p /\ i + p \in Int /\ -p \in Int OBVIOUS
    <2>2. Slotted(a, i) /\ Slotted(a, i + p) BY <1>10, <1>11, <1>5, GridFields
    <2>3. Row(b, i) = Row(a, i + p) BY <1>2, <1>6, <2>1, <2>2, RotateRow DEF Fits
    <2>4. -history_size(g) <= i + p BY <1>5, <1>11, GridFields
    <2>5. Row(a, i + p) = Row(g.raw, i + p) BY <1>1, <1>11, <2>1, <2>4, IncreaseRow
    <2>. QED BY <2>3, <2>5
  <1>12. ASSUME NEW i \in Int, -h <= i, i < end - p
         PROVE  Row(c, i) = Row(g.raw, i + p)
    <2>1. i < g.lines /\ i + p < g.lines /\ g.lines \in Int BY <1>12, GridFields
    <2>2. Row(c, i) = Row(b, i) BY <1>3, <1>8, <1>10, <1>12, <2>1, SwapDownwardsRow
    <2>. QED BY <2>1, <2>2, <1>11, <1>12
  <1>13. ASSUME NEW i \in Int, end <= i, i < g.lines
         PROVE  Row(c, i) = Row(g.raw, i)
    <2>1. -h <= i /\ -h <= i - p /\ g.lines \in Int BY <1>5, <1>13, GridFields
    <2>2. Row(c, i) = IF end < g.lines /\ p # 0 THEN Row(b, i - p) ELSE Row(b, i)
      BY <1>3, <1>8, <1>10, <1>13, <2>1, SwapDownwardsRow
    <2>3. Row(c, i) = Row(b, i - p) BY <1>13, <2>2, GridFields
    <2>4. i - p \in Int /\ (i - p) + p = i OBVIOUS
    <2>5. Row(b, i - p) = Row(g.raw, (i - p) + p) BY <1>11, <1>13, <2>1, <2>4
    <2>. QED BY <2>3, <2>4, <2>5
  <1>14. rotate_up(g, end, p) = c BY <1>1, <1>2, <1>3 DEF rotate_up
  <1>15. c.len = g.lines + h BY <1>8, <1>9 DEF SameShape
  <1>. QED BY <1>4, <1>12, <1>13, <1>14, <1>15

(* scroll_up on a region at the top of the screen: its first p lines enter the scrollback. *)
LEMMA ScrollUpTopRows ==
    ASSUME NEW g, GridOK(g), NEW end \in Nat, 0 < end, end <= g.lines, NEW p \in Nat, p <= end
    PROVE  LET t == scroll_up(g, 0, end, p)
           IN  /\ history_size(t) = history_size(g) + MinOf(p, g.max_scroll_limit - history_size(g))
               /\ t.display_offset = scrolled_offset(g, p)
               /\ Kept(g, t, -history_size(t), end - p, p)
               /\ Cleared(t, end - p, end)
               /\ Kept(g, t, end, g.lines, 0)
  <1>1. PICK t : t = scroll_up(g, 0, end, p) OBVIOUS
  <1>2. PICK m : m = rotate_up(g, end, p) OBVIOUS
  <1>3. PICK r : r = ResetRows(m, end - p, end) OBVIOUS
  <1>4. PICK h : h = history_size(g) + MinOf(p, g.max_scroll_limit - history_size(g)) OBVIOUS
  <1>5. h \in Nat BY <1>4, GridFields DEF MinOf
  <1>6. t = [g EXCEPT !.display_offset = scrolled_offset(g, p), !.raw = r]
    BY <1>1, <1>2, <1>3 DEF scroll_up
  <1>7. t.raw = r /\ t.lines = g.lines /\ t.display_offset = scrolled_offset(g, p)
    BY <1>6, GridFields DEF GridType
  <1>8. Fits(g, m) /\ m.len = g.lines + h BY <1>2, <1>4, RotateUpFits, RotateUpRow
  <1>9. SameShape(m, r)
    <2>1. end - p \in Int OBVIOUS
    <2>. QED BY <2>1, <1>3, <1>8, ResetRowsShape DEF Fits
  <1>10. history_size(t) = h
    <2>1. r.len = g.lines + h BY <1>8, <1>9 DEF SameShape
    <2>. QED BY <2>1, <1>5, <1>7, GridFields DEF history_size, SaturatingSub
  <1>11. \A i \in Int : -h <= i /\ i < g.lines =>
             Row(r, i) = IF end - p <= i /\ i < end THEN Blank ELSE Row(m, i)
    <2>. SUFFICES ASSUME NEW i \in Int, -h <= i, i < g.lines
                  PROVE  Row(r, i) = IF end - p <= i /\ i < end THEN Blank ELSE Row(m, i)
      OBVIOUS
    <2>1. -(m.len - g.lines) <= i BY <1>5, <1>8, GridFields
    <2>2. Slotted(m, i) BY <1>8, <2>1, FitsActive
    <2>3. end - p \in Int OBVIOUS
    <2>. QED BY <1>3, <1>8, <2>2, <2>3, ResetRowsRow DEF Fits
  <1>12. Kept(g, t, -h, end - p, p)
    <2>. SUFFICES ASSUME NEW i \in Int, -h <= i, i < end - p PROVE Row(t.raw, i) = Row(g.raw, i + p)
      BY DEF Kept
    <2>1. i < g.lines /\ ~(end - p <= i) BY GridFields
    <2>2. Row(r, i) = Row(m, i) BY <1>11, <2>1
    <2>3. Row(m, i) = Row(g.raw, i + p) BY <1>2, <1>4, RotateUpRow
    <2>. QED BY <1>7, <2>2, <2>3
  <1>13. Cleared(t, end - p, end)
    <2>. SUFFICES ASSUME NEW i \in Int, end - p <= i, i < end PROVE Row(t.raw, i) = Blank
      BY DEF Cleared
    <2>1. i < g.lines /\ -h <= i BY <1>5, GridFields
    <2>. QED BY <1>7, <1>11, <2>1
  <1>14. Kept(g, t, end, g.lines, 0)
    <2>. SUFFICES ASSUME NEW i \in Int, end <= i, i < g.lines PROVE Row(t.raw, i) = Row(g.raw, i + 0)
      BY DEF Kept
    <2>1. -h <= i /\ ~(i < end) /\ i + 0 = i BY <1>5, GridFields
    <2>2. Row(r, i) = Row(m, i) BY <1>11, <2>1
    <2>3. Row(m, i) = Row(g.raw, i) BY <1>2, RotateUpRow
    <2>. QED BY <1>7, <2>1, <2>2, <2>3
  <1>. QED BY <1>1, <1>4, <1>7, <1>10, <1>12, <1>13, <1>14

(* The scrollback of a grid whose raw buffer was replaced by s. *)
LEMMA NewRawSize ==
    ASSUME NEW g, GridOK(g), NEW s, Fits(g, s), NEW t, t.raw = s, t.lines = g.lines
    PROVE  history_size(t) = s.len - g.lines
  <1>1. s.len \in Nat /\ g.lines <= s.len BY RingFields DEF Fits
  <1>. QED BY <1>1, GridFields DEF history_size, SaturatingSub

(* Resetting the lines from..to-1 of the buffer of a grid. *)
LEMMA ResetRowsLaw ==
    ASSUME NEW g, GridOK(g), NEW s, Fits(g, s), NEW from \in Int, NEW to \in Int,
           NEW i \in Int, -(s.len - g.lines) <= i, i < g.lines
    PROVE  Row(ResetRows(s, from, to), i) = IF from <= i /\ i < to THEN Blank ELSE Row(s, i)
  <1>1. Slotted(s, i) BY FitsActive
  <1>. QED BY <1>1, ResetRowsRow DEF Fits

(* scroll_up on a region that starts further down touches that region only. *)
LEMMA ScrollUpRegionRows ==
    ASSUME NEW g, GridOK(g), NEW start \in Nat, NEW end \in Nat, NEW p \in Nat,
           0 < start, start < end, end <= g.lines
    PROVE  LET t == scroll_up(g, start, end, p)
           IN  /\ history_size(t) = history_size(g)
               /\ Kept(g, t, -history_size(t), start, 0)
               /\ Kept(g, t, start, end - p, p)
               /\ Cleared(t, MaxOf(start, end - p), end)
               /\ Kept(g, t, end, g.lines, 0)
  <1>1. PICK t : t = scroll_up(g, start, end, p) OBVIOUS
  <1>2. PICK h \in Nat : h = history_size(g) BY GridFields
  <1>3. Fits(g, g.raw) /\ g.raw.len - g.lines = h BY <1>2, GridFields DEF Fits
  <1>4. MaxOf(start, end - p) = IF end - start <= p THEN start ELSE end - p BY DEF MaxOf
  <1>5. \A i \in Int : -h <= i /\ i < g.lines => Slotted(g.raw, i) BY <1>2, <1>3, FitsActive
  <1>6. /\ history_size(t) = h
        /\ \A i \in Int : -h <= i /\ i < g.lines =>
               Row(t.raw, i) = IF start <= i /\ i < end
                               THEN (IF i < end - p THEN Row(g.raw, i + p) ELSE Blank)
                               ELSE Row(g.raw, i)
    <2>1. CASE end - start <= p
      <3>1. PICK s : s = ResetRows(g.raw, start, end) OBVIOUS
      <3>2. t = [g EXCEPT !.raw = s] BY <1>1, <2>1, <3>1 DEF scroll_up
      <3>3. Fits(g, s) /\ s.len = g.raw.len
        <4>1. SameShape(g.raw, s) BY <3>1, ResetRowsShape, GridFields
        <4>. QED BY <4>1, SameShapeFits DEF SameShape
      <3>4. t.raw = s /\ history_size(t) = h
        <4>1. t.raw = s /\ t.lines = g.lines BY <3>2, GridFields DEF GridType
        <4>2. history_size(t) = s.len - g.lines BY <3>3, <4>1, NewRawSize
        <4>. QED BY <1>3, <3>3, <4>1, <4>2
      <3>5. ASSUME NEW i \in Int, -h <= i, i < g.lines
            PROVE  Row(s, i) = IF start <= i /\ i < end THEN Blank ELSE Row(g.raw, i)
        <4>1. start \in Int /\ end \in Int /\ -(g.raw.len - g.lines) <= i BY <1>3, <3>5
        <4>2. Fits(g, g.raw) /\ i < g.lines BY <1>3, <3>5
        <4>3. Row(ResetRows(g.raw, start, end), i) = IF start <= i /\ i < end THEN Blank ELSE Row(g.raw, i)
          BY ONLY GridOK(g), i \in Int, <4>1, <4>2, ResetRowsLaw
        <4>. QED BY <3>1, <4>3, Zenon
      <3>. QED BY <2>1, <3>4, <3>5
    <2>2. CASE ~(end - start <= p)
      <3>1. PICK m : m = SwapUpwards(g.raw, start, end - p, p) OBVIOUS
      <3>2. PICK s : s = ResetRows(m, end - p, end) OBVIOUS
      <3>3. t = [g EXCEPT !.display_offset = scrolled_offset(g, p), !.raw = s]
        <4>1. ~(end - start <= p /\ start # 0) /\ start # 0 BY <2>2
        <4>. QED BY <1>1, <3>1, <3>2, <4>1, Zenon DEF scroll_up
      <3>4. Fits(g, m) /\ m.len = g.raw.len
        <4>1. /\ end - p \in Int /\ g.raw.visible_lines - g.raw.len <= start
              /\ (end - p) + p <= g.raw.visible_lines
          BY GridFields
        <4>2. SameShape(g.raw, m) BY <3>1, <4>1, GridFields, SwapUpwardsShape
        <4>. QED BY <4>2, SameShapeFits DEF SameShape
      <3>5. end - p \in Int OBVIOUS
      <3>6. Fits(g, s) /\ s.len = g.raw.len
        <4>1. SameShape(m, s) BY <3>2, <3>4, <3>5, ResetRowsShape DEF Fits
        <4>. QED BY <3>2, <3>4, <3>5, <4>1, ResetRowsFits DEF SameShape
      <3>7. t.raw = s /\ history_size(t) = h
        <4>1. t.raw = s /\ t.lines = g.lines BY <3>3, GridFields DEF GridType
        <4>2. history_size(t) = s.len - g.lines BY <3>6, <4>1, NewRawSize
        <4>. QED BY <1>3, <3>6, <4>1, <4>2
      <3>8. ASSUME NEW i \in Int, -h <= i, i < g.lines
            PROVE  Row(s, i) = IF start <= i /\ i < end
                               THEN (IF i < end - p THEN Row(g.raw, i + p) ELSE Blank)
                               ELSE Row(g.raw, i)
        <4>1. Row(s, i) = IF end - p <= i /\ i < end THEN Blank ELSE Row(m, i)
          BY <1>3, <3>2, <3>4, <3>5, <3>8, ResetRowsLaw
        <4>2. Row(m, i) = IF start < end - p /\ p # 0 /\ start <= i /\ i < (end - p) + p
                          THEN Row(g.raw, IF i < end - p THEN i + p ELSE start + ((i - start) % p))
                          ELSE Row(g.raw, i)
          BY <1>5, <3>1, <3>5, <3>8, GridFields, SwapUpwardsRow
        <4>3. (end - p) + p = end /\ start < end - p BY <2>2
        <4>4. CASE p = 0
          <5>1. i + p = i BY <4>4
          <5>. QED BY <4>1, <4>2, <4>3, <4>4, <5>1
        <4>5. CASE p # 0 BY <4>1, <4>2, <4>3, <4>5
        <4>. QED BY <4>4, <4>5
      <3>. QED BY <3>7, <3>8
    <2>. QED BY <2>1, <2>2
  <1>7. g.lines \in Nat /\ end <= g.lines BY GridFields
  <1>8. Kept(g, t, -h, start, 0) BY <1>6, <1>7 DEF Kept
  <1>9. Kept(g, t, start, end - p, p) BY <1>6, <1>7 DEF Kept
  <1>10. Cleared(t, MaxOf(start, end - p), end) BY <1>4, <1>6, <1>7 DEF Cleared
  <1>11. Kept(g, t, end, g.lines, 0) BY <1>6, <1>7 DEF Kept
  <1>. QED BY <1>1, <1>2, <1>6, <1>8, <1>9, <1>10, <1>11

(* scroll_down moves the lines of its region down, blanks the first ones and touches no
   other. *)
LEMMA ScrollDownRows ==
    ASSUME NEW g, GridOK(g), NEW start \in Nat, NEW end \in Nat, NEW p \in Nat \ {0},
           start < end, end <= g.lines
    PROVE  LET t == scroll_down(g, start, end, p)
           IN  /\ history_size(t) = history_size(g)
               /\ t.display_offset = g.display_offset
               /\ Kept(g, t, -history_size(t), start, 0)
               /\ Cleared(t, start, MinOf(start + p, end))
               /\ Kept(g, t, start + p, end, -p)
               /\ Kept(g, t, end, g.lines, 0)
  <1>1. PICK t : t = scroll_down(g, start, end, p) OBVIOUS
  <1>2. PICK h \in Nat : h = history_size(g) BY GridFields
  <1>3. /\ Fits(g, g.raw) /\ g.raw.len - g.lines = h /\ g.lines \in Nat
        /\ p \in Nat /\ start \in Int /\ end \in Int
    BY <1>2, GridFields DEF Fits
  <1>4. PICK s : s = scroll_down_raw(g, start, end, p) OBVIOUS
  <1>5. \A i \in Int : -h <= i /\ i < g.lines => Slotted(g.raw, i) BY <1>2, <1>3, FitsActive
  <1>6. /\ SameShape(g.raw, s)
        /\ \A i \in Int : -h <= i /\ i < g.lines =>
               Row(s, i) = IF start <= i /\ i < end
                           THEN (IF start + p <= i THEN Row(g.raw, i - p) ELSE Blank)
                           ELSE Row(g.raw, i)
    <2>1. CASE end - start <= p
      <3>1. s = ResetRows(g.raw, start, end) BY <1>4, <2>1 DEF scroll_down_raw
      <3>2. SameShape(g.raw, s) BY <3>1, ResetRowsShape, GridFields
      <3>3. ASSUME NEW i \in Int, -h <= i, i < g.lines
            PROVE  Row(s, i) = IF start <= i /\ i < end THEN Blank ELSE Row(g.raw, i)
        <4>1. -(g.raw.len - g.lines) <= i BY <1>3, <3>3
        <4>. QED BY <1>3, <3>1, <3>3, <4>1, ResetRowsLaw
      <3>. QED BY <1>3, <2>1, <3>2, <3>3
    <2>2. CASE ~(end - start <= p) /\ g.max_scroll_limit = 0
      <3>1. PICK a : a = SwapUpwards(g.raw, end - p, g.lines - p, p) OBVIOUS
      <3>2. PICK b : b = rotate_down(a, p) OBVIOUS
      <3>3. PICK c : c = ResetRows(b, 0, p) OBVIOUS
      <3>4. s = SwapUpwards(c, 0, start, p)
        <4>1. ~(end - start <= p) BY <2>2
        <4>. QED BY <1>4, <2>2, <3>1, <3>2, <3>3, <4>1 DEF scroll_down_raw
      <3>5. h = 0 BY <1>2, <2>2, GridFields
      <3>6. /\ end - p \in Int /\ g.lines - p \in Int /\ (end - p) + p = end
            /\ (g.lines - p) + p = g.lines /\ start + p < end /\ start + p \in Int
        BY <1>3, <2>2
      <3>7. SameShape(g.raw, a)
        <4>1. /\ g.raw.visible_lines - g.raw.len <= end - p
              /\ (g.lines - p) + p <= g.raw.visible_lines
          BY <2>2, <3>6, GridFields
        <4>. QED BY <3>1, <3>6, <4>1, GridFields, SwapUpwardsShape
      <3>8. SameShape(a, b)
        <4>1. Ring(a) /\ p \in Int BY <1>3, <3>7 DEF SameShape
        <4>. QED BY <3>2, <4>1, RotateShape
      <3>9. SameShape(b, c)
        <4>1. Ring(b) /\ p \in Int /\ 0 \in Int BY <1>3, <3>8 DEF SameShape
        <4>. QED BY <3>3, <4>1, ResetRowsShape
      <3>10. Fits(g, a) /\ Fits(g, b) /\ Fits(g, c) /\ c.len = g.raw.len
        BY <1>3, <3>7, <3>8, <3>9 DEF SameShape, Fits
      <3>11. SameShape(c, s)
        <4>1. Ring(c) /\ c.visible_lines - c.len <= 0 /\ start + p <= c.visible_lines
          BY <1>3, <3>6, <3>10, GridFields DEF Fits
        <4>2. PICK z \in Int : z = 0 OBVIOUS
        <4>3. Ring(c) /\ c.visible_lines - c.len <= z /\ start + p <= c.visible_lines /\ s = SwapUpwards(c, z, start, p)
          BY <3>4, <4>1, <4>2
        <4>. QED BY <1>3, <4>3, SwapUpwardsShape
      <3>12. SameShape(g.raw, s) BY <3>7, <3>8, <3>9, <3>11 DEF SameShape
      <3>13. \A i \in Int : 0 <= i /\ i < g.lines => Slotted(a, i) /\ Slotted(b, i) /\ Slotted(c, i)
        <4>. SUFFICES ASSUME NEW i \in Int, 0 <= i, i < g.lines
                      PROVE  Slotted(a, i) /\ Slotted(b, i) /\ Slotted(c, i)
          OBVIOUS
        <4>1. /\ -(a.len - g.lines) <= i /\ -(b.len - g.lines) <= i /\ -(c.len - g.lines) <= i
          <5>1. a.len = g.raw.len /\ b.len = g.raw.len /\ c.len = g.raw.len
            BY <3>7, <3>8, <3>9 DEF SameShape
          <5>. QED BY <1>3, <5>1
        <4>. QED BY <3>10, <4>1, FitsActive
      <3>14. ASSUME NEW i \in Int, 0 <= i, i < g.lines - p
             PROVE  Row(a, i) = Row(g.raw, IF end - p <= i THEN i + p ELSE i)
        <4>1. Slotted(g.raw, i) BY <1>3, <1>5, <3>5, <3>14
        <4>2. PICK from \in Int, to \in Int : from = end - p /\ to = g.lines - p BY <3>6
        <4>3. Ring(g.raw) /\ a = SwapUpwards(g.raw, from, to, p) BY <3>1, <4>2, GridFields
        <4>4. Row(a, i) = IF from < to /\ p # 0 /\ from <= i /\ i < to + p
                          THEN Row(g.raw, IF i < to THEN i + p ELSE from + ((i - from) % p))
                          ELSE Row(g.raw, i)
          BY <1>3, <4>1, <4>3, SwapUpwardsRow
        <4>. QED BY <1>3, <3>14, <4>2, <4>4
      <3>15. ASSUME NEW i \in Int, p <= i, i < g.lines
             PROVE  Row(b, i) = Row(g.raw, IF end <= i THEN i ELSE i - p)
        <4>1. i - p \in Int /\ 0 <= i /\ 0 <= i - p /\ i - p < g.lines - p /\ i - p < g.lines
          BY <1>3, <3>15
        <4>2. Slotted(a, i) /\ Slotted(a, i - p) BY <3>13, <3>15, <4>1
        <4>3. Row(b, i) = Row(a, i - p) BY <1>3, <3>2, <3>10, <4>2, RotateRow DEF Fits
        <4>4. Row(a, i - p) = Row(g.raw, IF end - p <= i - p THEN (i - p) + p ELSE i - p)
          BY <3>14, <4>1
        <4>5. (i - p) + p = i /\ (end - p <= i - p <=> end <= i) BY <1>3
        <4>. QED BY <4>3, <4>4, <4>5
      <3>16. ASSUME NEW i \in Int, 0 <= i, i < g.lines
             PROVE  Row(c, i) = IF i < p THEN Blank ELSE Row(g.raw, IF end <= i THEN i ELSE i - p)
        <4>1. Row(c, i) = IF 0 <= i /\ i < p THEN Blank ELSE Row(b, i)
          BY <1>3, <3>3, <3>10, <3>13, <3>16, ResetRowsRow DEF Fits
        <4>. QED BY <1>3, <3>15, <3>16, <4>1
      <3>17. ASSUME NEW i \in Int, -h <= i, i < g.lines
             PROVE  Row(s, i) = IF start <= i /\ i < end
                                THEN (IF start + p <= i THEN Row(g.raw, i - p) ELSE Blank)
                                ELSE Row(g.raw, i)
        <4>1. Row(s, i) = IF 0 < start /\ p # 0 /\ 0 <= i /\ i < start + p
                          THEN Row(c, IF i < start THEN i + p ELSE 0 + ((i - 0) % p)) ELSE Row(c, i)
          BY <1>3, <3>4, <3>5, <3>10, <3>13, <3>17, SwapUpwardsRow DEF Fits
        <4>2. 0 <= i BY <3>5, <3>17
        <4>3. CASE i < start
          <5>1. /\ i + p \in Int /\ 0 <= i + p /\ i + p < g.lines /\ ~(i + p < p)
                /\ ~(end <= i + p) /\ (i + p) - p = i
            BY <1>3, <3>6, <4>2, <4>3
          <5>2. Row(c, i + p) = Row(g.raw, i) BY <3>16, <5>1
          <5>. QED BY <1>3, <3>6, <4>1, <4>2, <4>3, <5>2
        <4>4. CASE start <= i /\ i < start + p
          <5>1. PICK q : q = i % p OBVIOUS
          <5>2. q \in Int /\ 0 <= q /\ q < p
            <6>1. i \in Nat BY <4>2
            <6>. QED BY <1>3, <5>1, <6>1, ModRange
          <5>3. Row(c, q) = Blank BY <1>3, <3>6, <3>16, <5>2
          <5>4. start = 0 => Row(s, i) = Row(c, i) BY <4>1
          <5>5. start = 0 => Row(s, i) = Blank BY <3>16, <3>17, <4>2, <4>4, <5>4
          <5>6. start # 0 => Row(s, i) = Row(c, q)
            <6>1. i - 0 = i /\ 0 + q = q /\ ~(i < start) BY <1>3, <4>4, <5>2
            <6>. QED BY <1>3, <4>1, <4>2, <4>4, <5>1, <6>1
          <5>. QED BY <1>3, <3>6, <4>4, <5>3, <5>5, <5>6
        <4>5. CASE start + p <= i
          <5>1. Row(s, i) = Row(c, i) BY <1>3, <4>1, <4>5
          <5>2. ~(i < p) BY <1>3, <4>5
          <5>3. Row(c, i) = Row(g.raw, IF end <= i THEN i ELSE i - p) BY <3>16, <3>17, <4>2, <5>2
          <5>. QED BY <1>3, <4>5, <5>1, <5>3
        <4>. QED BY <1>3, <4>3, <4>4, <4>5
      <3>. QED BY <3>12, <3>17
    <2>3. CASE ~(end - start <= p) /\ g.max_scroll_limit # 0
      <3>1. PICK a : a = SwapDownwards(g.raw, start + p, end, p) OBVIOUS
      <3>2. s = ResetRows(a, start, start + p)
        <4>1. ~(end - start <= p) BY <2>3
        <4>. QED BY <1>4, <2>3, <3>1, <4>1 DEF scroll_down_raw
      <3>3. SameShape(g.raw, a)
        <4>1. /\ start + p \in Int /\ end <= g.raw.visible_lines
              /\ g.raw.visible_lines - g.raw.len <= (start + p) - p
          BY GridFields
        <4>. QED BY <3>1, <4>1, GridFields, SwapDownwardsShape
      <3>4. Fits(g, a) /\ a.len = g.raw.len BY <3>3, SameShapeFits DEF SameShape
      <3>5. start + p \in Int /\ (start + p) - p = start /\ start + p < end BY <1>3, <2>3
      <3>6. SameShape(a, s) BY <1>3, <3>2, <3>4, <3>5, ResetRowsShape DEF Fits
      <3>7. SameShape(g.raw, s) BY <3>3, <3>6 DEF SameShape
      <3>8. ASSUME NEW i \in Int, -h <= i, i < g.lines
            PROVE  Row(s, i) = IF start <= i /\ i < end
                               THEN (IF start + p <= i THEN Row(g.raw, i - p) ELSE Blank)
                               ELSE Row(g.raw, i)
        <4>1. -(a.len - g.lines) <= i BY <1>3, <3>4, <3>8
        <4>2. Row(s, i) = IF start <= i /\ i < start + p THEN Blank ELSE Row(a, i)
          BY <1>3, <3>2, <3>4, <3>5, <3>8, <4>1, ResetRowsLaw
        <4>3. Row(a, i) = IF start + p < end /\ p # 0 /\ (start + p) - p <= i /\ i < end
                          THEN Row(g.raw, IF i >= start + p THEN i - p ELSE (end - 1) - ((end - 1 - i) % p))
                          ELSE Row(g.raw, i)
          BY <1>3, <1>5, <3>1, <3>5, <3>8, GridFields, SwapDownwardsRow
        <4>. QED BY <1>3, <3>5, <3>8, <4>2, <4>3
      <3>. QED BY <3>7, <3>8
    <2>. QED BY <2>1, <2>2, <2>3
  <1>7. t = [g EXCEPT !.raw = s] BY <1>1, <1>4 DEF scroll_down
  <1>8. t.raw = s /\ t.lines = g.lines /\ t.display_offset = g.display_offset BY <1>7, GridFields DEF GridType
  <1>9. history_size(t) = h
    <2>1. Fits(g, s) BY <1>6, SameShapeFits
    <2>2. history_size(t) = s.len - g.lines BY <1>8, <2>1, NewRawSize
    <2>. QED BY <1>3, <1>6, <2>2 DEF SameShape
  <1>10. Kept(g, t, -h, start, 0) BY <1>3, <1>6, <1>8 DEF Kept
  <1>11. Kept(g, t, start + p, end, -p)
    <2>. SUFFICES ASSUME NEW i \in Int, start + p <= i, i < end PROVE Row(t.raw, i) = Row(g.raw, i + (-p))
      BY DEF Kept
    <2>1. -h <= i /\ i < g.lines /\ start <= i /\ i + (-p) = i - p BY <1>3
    <2>. QED BY <1>6, <1>8, <2>1
  <1>12. Cleared(t, start, MinOf(start + p, end)) BY <1>3, <1>6, <1>8 DEF Cleared, MinOf
  <1>13. Kept(g, t, end, g.lines, 0) BY <1>3, <1>6, <1>8 DEF Kept
  <1>. QED BY <1>1, <1>2, <1>8, <1>9, <1>10, <1>11, <1>12, <1>13

(* t is g with the first p lines of the screen moved into the scrollback. *)
ScrolledOff(g, t, p) ==
    /\ GridOK(t)
    /\ t.lines = g.lines /\ t.cursor = g.cursor /\ t.saved_cursor = g.saved_cursor
    /\ t.max_scroll_limit = g.max_scroll_limit
    /\ t.display_offset = scrolled_offset(g, p)
    /\ history_size(t) = history_size(g) + MinOf(p, g.max_scroll_limit - history_size(g))
    /\ Kept(g, t, -history_size(t), g.lines - p, p)
    /\ Cleared(t, g.lines - p, g.lines)

(* scroll_up of the whole screen moves its first lines into the scrollback. *)
LEMMA ScrollScreen ==
    ASSUME NEW g, GridOK(g), NEW p \in Nat, p <= g.lines
    PROVE  ScrolledOff(g, scroll_up(g, 0, g.lines, p), p)
  <1>1. PICK z \in Nat, e \in Nat : z = 0 /\ e = g.lines /\ z < e /\ e <= g.lines BY GridFields
  <1>2. PICK t : t = scroll_up(g, z, e, p) OBVIOUS
  <1>3. /\ GridOK(t) /\ t.lines = g.lines /\ t.cursor = g.cursor
        /\ t.saved_cursor = g.saved_cursor /\ t.max_scroll_limit = g.max_scroll_limit
    <2>1. z = 0 => p <= e BY <1>1
    <2>. QED BY <1>1, <1>2, <2>1, ScrollUpOK
  <1>4. /\ history_size(t) = history_size(g) + MinOf(p, g.max_scroll_limit - history_size(g))
        /\ t.display_offset = scrolled_offset(g, p)
        /\ Kept(g, t, -history_size(t), e - p, p) /\ Cleared(t, e - p, e)
    <2>1. 0 < e /\ p <= e /\ t = scroll_up(g, 0, e, p) BY <1>1, <1>2
    <2>. QED BY <1>1, <2>1, ScrollUpTopRows
  <1>. QED BY <1>1, <1>2, <1>3, <1>4 DEF ScrolledOff

(* The history of a grid loses its n oldest lines. *)
LEMMA ShrunkHistory ==
    ASSUME NEW g, GridOK(g), NEW n \in Nat, n <= history_size(g), NEW t,
           t.raw = shrink_lines(g.raw, n), t.lines = g.lines
    PROVE  /\ history_size(t) = history_size(g) - n
           /\ Fits(g, t.raw)
           /\ Kept(g, t, -history_size(t), g.lines, 0)
  <1>1. n < g.raw.len BY GridFields
  <1>2. PICK s : s = shrink_lines(g.raw, n) OBVIOUS
  <1>3. Ring(s) /\ s.visible_lines = g.lines /\ s.len = g.raw.len - n
    BY <1>1, <1>2, GridFields, ShrinkLinesShape
  <1>4. Fits(g, s) BY <1>3, GridFields DEF Fits
  <1>5. history_size(t) = history_size(g) - n
    <2>1. t.raw = s BY <1>2
    <2>2. history_size(t) = s.len - g.lines BY <1>4, <2>1, NewRawSize
    <2>. QED BY <1>3, <2>2, GridFields
  <1>6. ASSUME NEW i \in Int, -history_size(t) <= i, i < g.lines
        PROVE  Row(t.raw, i) = Row(g.raw, i + 0)
    <2>1. /\ Active(g.raw, i) /\ i + 0 = i
          /\ g.raw.visible_lines - (g.raw.len - n) <= i
      BY <1>5, <1>6, GridFields DEF Active
    <2>2. Row(s, i) = Row(g.raw, i) BY <1>1, <1>2, <2>1, GridFields, ShrinkLinesRow
    <2>. QED BY <1>2, <2>1, <2>2
  <1>. QED BY <1>2, <1>4, <1>5, <1>6 DEF Kept

(* update_history keeps the screen and the latest lines of the scrollback that fit. *)
LEMMA UpdateHistoryRows ==
    ASSUME NEW g, GridOK(g), NEW size \in Nat
    PROVE  LET t == update_history(g, size)
           IN  /\ t.lines = g.lines /\ t.cursor = g.cursor /\ t.max_scroll_limit = size
               /\ t.display_offset = MinOf(g.display_offset, size)
               /\ history_size(t) = MinOf(history_size(g), size)
               /\ Kept(g, t, -history_size(t), g.lines, 0)
  <1>1. PICK t : t = update_history(g, size) OBVIOUS
  <1>2. PICK s : s = IF history_size(g) > size
                     THEN shrink_lines(g.raw, history_size(g) - size) ELSE g.raw
    OBVIOUS
  <1>3. t = [g EXCEPT !.raw = s, !.display_offset = MinOf(g.display_offset, size),
                      !.max_scroll_limit = size]
    BY <1>1, <1>2 DEF update_history
  <1>4. /\ t.raw = s /\ t.lines = g.lines /\ t.cursor = g.cursor
        /\ t.max_scroll_limit = size /\ t.display_offset = MinOf(g.display_offset, size)
    BY <1>3, GridFields DEF GridType
  <1>5. history_size(t) = MinOf(history_size(g), size) /\ Kept(g, t, -history_size(t), g.lines, 0)
    <2>1. CASE history_size(g) > size
      <3>1. PICK n \in Nat : n = history_size(g) - size /\ n <= history_size(g) BY <2>1, GridFields
      <3>2. t.raw = shrink_lines(g.raw, n) BY <1>2, <1>4, <2>1, <3>1
      <3>3. history_size(t) = history_size(g) - n /\ Kept(g, t, -history_size(t), g.lines, 0)
        BY <1>4, <3>1, <3>2, ShrunkHistory
      <3>. QED BY <2>1, <3>1, <3>3, GridFields DEF MinOf
    <2>2. CASE ~(history_size(g) > size)
      <3>1. t.raw = g.raw BY <1>2, <1>4, <2>2
      <3>2. history_size(t) = history_size(g) BY <1>4, <3>1 DEF history_size
      <3>3. MinOf(history_size(g), size) = history_size(g) BY <2>2, GridFields DEF MinOf
      <3>4. \A i \in Int : i + 0 = i OBVIOUS
      <3>. QED BY <3>1, <3>2, <3>3, <3>4 DEF Kept
    <2>. QED BY <2>1, <2>2
  <1>. QED BY <1>1, <1>4, <1>5

(* clear_history keeps the screen and nothing else. *)
LEMMA ClearHistoryRows ==
    ASSUME NEW g, GridOK(g)
    PROVE  LET t == clear_history(g)
           IN  /\ t.lines = g.lines /\ t.cursor = g.cursor
               /\ t.max_scroll_limit = g.max_scroll_limit /\ t.display_offset = 0
               /\ history_size(t) = 0
               /\ Kept(g, t, 0, g.lines, 0)
  <1>1. PICK t : t = clear_history(g) OBVIOUS
  <1>2. PICK n \in Nat : n = history_size(g) BY GridFields
  <1>3. t = [g EXCEPT !.raw = shrink_lines(g.raw, n), !.display_offset = 0]
    BY <1>1, <1>2 DEF clear_history
  <1>4. /\ t.raw = shrink_lines(g.raw, n) /\ t.lines = g.lines /\ t.cursor = g.cursor
        /\ t.max_scroll_limit = g.max_scroll_limit /\ t.display_offset = 0
    BY <1>3, GridFields DEF GridType
  <1>5. history_size(t) = history_size(g) - n /\ Kept(g, t, -history_size(t), g.lines, 0)
    BY <1>2, <1>4, ShrunkHistory
  <1>6. history_size(t) = 0 /\ -history_size(t) = 0 BY <1>2, <1>5
  <1>. QED BY <1>1, <1>4, <1>5, <1>6

(* reset leaves a blank screen without a scrollback. *)
LEMMA ResetRowsOfAll ==
    ASSUME NEW g, GridOK(g)
    PROVE  LET t == reset(g)
           IN  /\ t.lines = g.lines /\ t.cursor = 0
               /\ t.max_scroll_limit = g.max_scroll_limit /\ t.display_offset = 0
               /\ history_size(t) = 0
               /\ Cleared(t, 0, g.lines)
  <1>1. PICK r : r = clear_history(g) OBVIOUS
  <1>2. /\ GridOK(r) /\ r.lines = g.lines /\ r.max_scroll_limit = g.max_scroll_limit
        /\ history_size(r) = 0
    BY <1>1, ClearHistoryOK, ClearHistoryRows
  <1>3. PICK s : s = ResetRows(r.raw, 0, g.lines) OBVIOUS
  <1>4. PICK t : t = reset(g) OBVIOUS
  <1>5. t = [r EXCEPT !.cursor = 0, !.saved_cursor = 0, !.display_offset = 0, !.raw = s]
    <2>1. 0 - history_size(r) = 0 BY <1>2
    <2>. QED BY <1>1, <1>2, <1>3, <1>4, <2>1 DEF reset
  <1>6. /\ t.raw = s /\ t.lines = r.lines /\ t.cursor = 0
        /\ t.max_scroll_limit = r.max_scroll_limit /\ t.display_offset = 0
    BY <1>2, <1>5, GridFields DEF GridType
  <1>7. Fits(r, r.raw) /\ r.raw.len - r.lines = 0 /\ r.lines \in Int BY <1>2, GridFields DEF Fits
  <1>8. Fits(r, s) /\ s.len = r.raw.len
    <2>1. SameShape(r.raw, s)
      <3>1. Ring(r.raw) /\ 0 \in Int /\ g.lines \in Int BY <1>2, GridFields
      <3>. QED BY <1>3, <3>1, ResetRowsShape
    <2>. QED BY <1>2, <2>1, SameShapeFits DEF SameShape
  <1>9. history_size(t) = 0
    <2>1. history_size(t) = s.len - r.lines BY <1>2, <1>6, <1>8, NewRawSize
    <2>. QED BY <1>7, <1>8, <2>1
  <1>10. ASSUME NEW i \in Int, 0 <= i, i < g.lines PROVE Row(t.raw, i) = Blank
    <2>1. -(r.raw.len - r.lines) <= i /\ i < r.lines BY <1>2, <1>7, <1>10
    <2>2. Slotted(r.raw, i) BY <1>2, <1>7, <2>1, FitsActive
    <2>3. Ring(r.raw) /\ 0 \in Int /\ g.lines \in Int BY <1>2, GridFields
    <2>4. Row(s, i) = IF 0 <= i /\ i < g.lines THEN Blank ELSE Row(r.raw, i)
      BY <1>3, <2>2, <2>3, ResetRowsRow
    <2>. QED BY <1>6, <1>10, <2>4
  <1>. QED BY <1>2, <1>4, <1>6, <1>9, <1>10 DEF Cleared

(* What clear_viewport pushes out is the used part of the screen. *)
LEMMA ViewportEnd ==
    ASSUME NEW g, GridOK(g)
    PROVE  LET n == viewport_end(g)
           IN  /\ n \in Nat /\ n <= g.lines
               /\ \A i \in Int : n <= i /\ i < g.lines => Row(g.raw, i) = Blank
               /\ n = 0 \/ n = 1 \/ Row(g.raw, n - 1) # Blank
  <1>1. PICK used : used = {i \in Lines(g) : Row(g.raw, i) # Blank} OBVIOUS
  <1>2. PICK n : n = viewport_end(g) OBVIOUS
  <1>3. n = IF used # {} THEN 1 + CHOOSE i \in used : \A j \in used : j <= i
            ELSE IF history_size(g) > 0 THEN 0 ELSE 1
    BY <1>1, <1>2 DEF viewport_end
  <1>4. g.lines \in Nat /\ 1 <= g.lines BY GridFields
  <1>5. \A i \in Int : 0 <= i /\ i < g.lines /\ i \notin used => Row(g.raw, i) = Blank
    BY <1>1, <1>4 DEF Lines
  <1>6. CASE used = {}
    <2>1. n = 0 \/ n = 1 BY <1>3, <1>6
    <2>. QED BY <1>2, <1>4, <1>5, <1>6, <2>1
  <1>7. CASE used # {}
    <2>1. used \subseteq 0..(g.lines - 1) BY <1>1 DEF Lines
    <2>2. \E i \in used : \A j \in used : j <= i BY <1>4, <1>7, <2>1, GreatestExists
    <2>3. PICK m : m = CHOOSE i \in used : \A j \in used : j <= i OBVIOUS
    <2>4. m \in used /\ \A j \in used : j <= m BY <2>2, <2>3
    <2>5. n = 1 + m /\ m \in 0..(g.lines - 1) BY <1>3, <1>7, <2>1, <2>3, <2>4
    <2>6. n - 1 = m /\ n \in Nat /\ n <= g.lines BY <1>4, <2>5
    <2>7. Row(g.raw, m) # Blank BY <1>1, <2>4
    <2>8. \A i \in Int : n <= i => i \notin used BY <2>4, <2>5
    <2>9. \A i \in Int : n <= i => 0 <= i BY <2>6
    <2>. QED BY <1>2, <1>5, <2>6, <2>7, <2>8, <2>9
  <1>. QED BY <1>6, <1>7

(* clear_viewport moves the used part of the screen into the scrollback. *)
LEMMA ClearViewportRows ==
    ASSUME NEW g, GridOK(g)
    PROVE  LET t == clear_viewport(g)
               n == viewport_end(g)
           IN  /\ t.lines = g.lines /\ t.cursor = g.cursor /\ t.max_scroll_limit = g.max_scroll_limit
               /\ t.display_offset = scrolled_offset(g, n)
               /\ history_size(t) = history_size(g) + MinOf(n, g.max_scroll_limit - history_size(g))
               /\ Kept(g, t, -history_size(t), 0, n)
               /\ Cleared(t, 0, g.lines)
  <1>1. PICK n \in Nat : n = viewport_end(g) /\ n <= g.lines BY ViewportEnd
  <1>2. PICK r : r = scroll_up(g, 0, g.lines, n) OBVIOUS
  <1>3. ScrolledOff(g, r, n) BY <1>1, <1>2, ScrollScreen
  <1>4. PICK s : s = ResetRows(r.raw, 0, g.lines - n) OBVIOUS
  <1>5. PICK t : t = clear_viewport(g) OBVIOUS
  <1>6. t = [r EXCEPT !.raw = s] BY <1>1, <1>2, <1>4, <1>5 DEF clear_viewport
  <1>7. GridOK(r) /\ r.lines = g.lines BY <1>3 DEF ScrolledOff
  <1>8. /\ t.raw = s /\ t.lines = r.lines /\ t.cursor = r.cursor /\ t.display_offset = r.display_offset
        /\ t.max_scroll_limit = r.max_scroll_limit
    BY <1>6, <1>7, GridFields DEF GridType
  <1>9. PICK h \in Nat : h = history_size(r) BY <1>7, GridFields
  <1>10. Fits(r, r.raw) /\ r.raw.len - r.lines = h /\ r.lines \in Nat BY <1>7, <1>9, GridFields DEF Fits
  <1>11. g.lines - n \in Int /\ 0 \in Int BY <1>7, <1>10
  <1>12. Fits(r, s) /\ s.len = r.raw.len
    <2>1. SameShape(r.raw, s) BY <1>4, <1>7, <1>11, GridFields, ResetRowsShape
    <2>. QED BY <1>7, <2>1, SameShapeFits DEF SameShape
  <1>13. history_size(t) = h
    <2>1. history_size(t) = s.len - r.lines BY <1>7, <1>8, <1>12, NewRawSize
    <2>. QED BY <1>10, <1>12, <2>1
  <1>14. ASSUME NEW i \in Int, -h <= i, i < g.lines
         PROVE  Row(s, i) = IF 0 <= i /\ i < g.lines - n THEN Blank ELSE Row(r.raw, i)
    <2>1. -(r.raw.len - r.lines) <= i /\ i < r.lines BY <1>7, <1>10, <1>14
    <2>2. Slotted(r.raw, i) BY <1>7, <1>10, <2>1, FitsActive
    <2>. QED BY <1>4, <1>7, <1>11, <2>2, GridFields, ResetRowsRow
  <1>15. Kept(g, t, -h, 0, n)
    <2>. SUFFICES ASSUME NEW i \in Int, -h <= i, i < 0 PROVE Row(t.raw, i) = Row(g.raw, i + n)
      BY DEF Kept
    <2>1. i < g.lines /\ i < g.lines - n BY <1>1, <1>7, <1>10
    <2>2. Row(s, i) = Row(r.raw, i) BY <1>14, <2>1
    <2>3. Row(r.raw, i) = Row(g.raw, i + n) BY <1>3, <1>9, <2>1 DEF ScrolledOff, Kept
    <2>. QED BY <1>8, <2>2, <2>3
  <1>16. Cleared(t, 0, g.lines)
    <2>. SUFFICES ASSUME NEW i \in Int, 0 <= i, i < g.lines PROVE Row(t.raw, i) = Blank
      BY DEF Cleared
    <2>1. -h <= i BY <1>9
    <2>2. CASE i < g.lines - n BY <1>8, <1>14, <2>1, <2>2
    <2>3. CASE ~(i < g.lines - n)
      <3>1. g.lines - n <= i BY <1>7, <1>10, <2>3
      <3>2. Row(r.raw, i) = Blank BY <1>3, <3>1 DEF ScrolledOff, Cleared
      <3>. QED BY <1>8, <1>14, <2>1, <2>3, <3>2
    <2>. QED BY <2>2, <2>3
  <1>. QED BY <1>1, <1>3, <1>5, <1>8, <1>9, <1>13, <1>15, <1>16 DEF ScrolledOff

(* The lines shrink_lines scrolls off to keep the cursor on the screen. *)
Required(g, target) == IF g.cursor + 1 > target THEN g.cursor + 1 - target ELSE 0

(* shrink_lines scrolls off the lines required, and cuts the rest at the bottom. *)
LEMMA ShrinkRows ==
    ASSUME NEW g, GridOK(g), NEW target \in Nat, 1 <= target, target < g.lines
    PROVE  LET t == shrink_grid_lines(g, target)
               n == Required(g, target)
           IN  /\ t.lines = target /\ t.max_scroll_limit = g.max_scroll_limit
               /\ t.cursor = g.cursor - n
               /\ t.display_offset = IF n > 0 THEN scrolled_offset(g, n) ELSE g.display_offset
               /\ history_size(t) = history_size(g) + MinOf(n, g.max_scroll_limit - history_size(g))
               /\ Kept(g, t, -history_size(t), target, n)
  <1>1. PICK n \in Nat : n = Required(g, target) /\ n = SaturatingSub(g.cursor + 1, target)
    BY GridFields DEF Required, SaturatingSub
  <1>2. n + target <= g.lines /\ n <= g.lines /\ g.lines \in Nat BY <1>1, GridFields DEF Required
  <1>3. PICK r : r = IF n > 0 THEN scroll_up(g, 0, g.lines, n) ELSE g OBVIOUS
  <1>4. /\ GridOK(r) /\ r.lines = g.lines /\ r.max_scroll_limit = g.max_scroll_limit
        /\ r.display_offset = IF n > 0 THEN scrolled_offset(g, n) ELSE g.display_offset
        /\ history_size(r) = history_size(g) + MinOf(n, g.max_scroll_limit - history_size(g))
        /\ Kept(g, r, -history_size(r), g.lines - n, n)
    <2>1. CASE n > 0
      <3>1. r = scroll_up(g, 0, g.lines, n) BY <1>3, <2>1
      <3>2. ScrolledOff(g, r, n) BY <1>2, <3>1, ScrollScreen
      <3>. QED BY <2>1, <3>2 DEF ScrolledOff
    <2>2. CASE ~(n > 0)
      <3>1. r = g /\ n = 0 BY <1>3, <2>2
      <3>2. MinOf(n, g.max_scroll_limit - history_size(g)) = 0 BY <3>1, GridFields DEF MinOf
      <3>3. \A i \in Int : i + 0 = i OBVIOUS
      <3>. QED BY <2>2, <3>1, <3>2, <3>3, GridFields DEF Kept
    <2>. QED BY <2>1, <2>2
  <1>5. PICK k \in Nat : k = g.lines - target /\ 0 < k BY <1>2
  <1>6. PICK a : a = rotate(r.raw, k) OBVIOUS
  <1>7. PICK s : s = shrink_visible_lines(a, target) OBVIOUS
  <1>8. PICK t : t = shrink_grid_lines(g, target) OBVIOUS
  <1>9. t = [r EXCEPT !.cursor = MinOf(g.cursor, target - 1),
                      !.saved_cursor = MinOf(g.saved_cursor, target - 1),
                      !.raw = s, !.lines = target]
    BY <1>1, <1>3, <1>5, <1>6, <1>7, <1>8, Zenon DEF shrink_grid_lines
  <1>10. /\ t.raw = s /\ t.lines = target /\ t.cursor = MinOf(g.cursor, target - 1)
         /\ t.display_offset = r.display_offset /\ t.max_scroll_limit = r.max_scroll_limit
    BY <1>4, <1>9, GridFields DEF GridType
  <1>11. MinOf(g.cursor, target - 1) = g.cursor - n BY <1>1, GridFields DEF MinOf, Required
  <1>12. PICK h \in Nat : h = history_size(r) /\ r.raw.len = g.lines + h BY <1>4, GridFields
  <1>13. Ring(r.raw) /\ r.raw.visible_lines = g.lines BY <1>4, GridFields
  <1>14. SameShape(r.raw, a) BY <1>5, <1>6, <1>13, RotateShape
  <1>15. Ring(a) /\ a.visible_lines = g.lines /\ a.len = g.lines + h
    BY <1>12, <1>13, <1>14 DEF SameShape
  <1>16. target <= a.visible_lines /\ a.visible_lines - target < a.len /\ a.visible_lines - target = k
    BY <1>2, <1>5, <1>15
  <1>17. s.len = target + h /\ Ring(s) /\ s.visible_lines = target
    <2>1. /\ s.len = a.len - (a.visible_lines - target) /\ Ring(s) /\ s.visible_lines = target
      BY <1>7, <1>15, <1>16, ShrinkVisibleShape
    <2>. QED BY <1>2, <1>5, <1>15, <1>16, <2>1
  <1>18. history_size(t) = h
    BY <1>10, <1>17 DEF history_size, SaturatingSub
  <1>19. Kept(g, t, -h, target, n)
    <2>. SUFFICES ASSUME NEW i \in Int, -h <= i, i < target PROVE Row(t.raw, i) = Row(g.raw, i + n)
      BY DEF Kept
    <2>1. PICK j \in Int : j = i + k OBVIOUS
    <2>2. j - k = i /\ i = j - (a.visible_lines - target) BY <1>16, <2>1
    <2>3. Slotted(r.raw, j) /\ Slotted(r.raw, i)
      <3>1. Active(r.raw, j) /\ Active(r.raw, i) BY <1>2, <1>5, <1>12, <1>13, <2>1 DEF Active
      <3>. QED BY <1>13, <3>1, ActiveSlotted
    <2>4. Row(a, j) = Row(r.raw, i)
      <3>1. k \in Int /\ Slotted(r.raw, j - k) BY <2>2, <2>3
      <3>2. Row(a, j) = Row(r.raw, j - k) BY <1>6, <1>13, <2>3, <3>1, RotateRow
      <3>. QED BY <2>2, <3>2
    <2>5. Active(a, j) /\ target - (a.len - (a.visible_lines - target)) <= i
      BY <1>2, <1>5, <1>15, <2>1 DEF Active
    <2>6. Row(s, i) = Row(a, j) BY <1>7, <1>15, <1>16, <2>2, <2>5, ShrinkVisibleRow
    <2>7. i < g.lines - n BY <1>2
    <2>8. Row(r.raw, i) = Row(g.raw, i + n) BY <1>4, <1>12, <2>7 DEF Kept
    <2>. QED BY <1>10, <2>4, <2>6, <2>8
  <1>. QED BY <1>1, <1>4, <1>8, <1>10, <1>11, <1>12, <1>18, <1>19

(* The first half of grow_lines: as many lines are added above the screen as
   it grows; those within the scrollback hold its rows, the others anything. *)
LEMMA GrownRaw ==
    ASSUME NEW g, GridOK(g), NEW target \in Nat, g.lines < target
    PROVE  LET t == [g EXCEPT !.raw = grow_visible_lines(g.raw, target), !.lines = target]
           IN  /\ GridOK(t) /\ t.lines = target /\ t.max_scroll_limit = g.max_scroll_limit
               /\ t.display_offset = g.display_offset
               /\ history_size(t) = history_size(g)
               /\ Kept(g, t, target - g.lines - history_size(g), target, -(target - g.lines))
  <1>0. PICK t : t = [g EXCEPT !.raw = grow_visible_lines(g.raw, target), !.lines = target]
    OBVIOUS
  <1>1. PICK added \in Nat : added = target - g.lines /\ g.lines + added = target
    <2>1. target - g.lines \in Nat /\ g.lines + (target - g.lines) = target BY GridFields
    <2>. QED BY <2>1
  <1>2. PICK r : r = grow_visible_lines(g.raw, target) OBVIOUS
  <1>3. /\ Ring(r) /\ r.visible_lines = target /\ r.len = g.raw.len + added
    <2>1. g.raw.visible_lines <= target /\ Ring(g.raw) /\ target - g.raw.visible_lines = added
      BY <1>1, GridFields
    <2>. QED BY <1>2, <2>1, GrowVisibleShape
  <1>4. t = [g EXCEPT !.raw = r, !.lines = target] BY <1>0, <1>2
  <1>5. /\ t.raw = r /\ t.lines = target /\ t.max_scroll_limit = g.max_scroll_limit
        /\ t.display_offset = g.display_offset
    BY <1>4, GridFields DEF GridType
  <1>6. GridOK(t)
    <2>1. r \in StorageType /\ StorageOK(r) /\ r.len <= target + g.max_scroll_limit
      <3>1. /\ 1 <= target /\ target <= g.raw.len + added
            /\ g.raw.len + added <= target + g.max_scroll_limit
        BY <1>1, GridFields
      <3>. QED BY <1>3, <3>1 DEF Ring, StorageOK
    <2>2. /\ g \in GridType /\ g.cursor < target /\ g.saved_cursor < target
          /\ g.display_offset <= g.max_scroll_limit
      BY GridFields
    <2>. QED BY <1>3, <1>4, <2>1, <2>2 DEF GridOK, GridType
  <1>7. history_size(t) = history_size(g)
    <2>1. history_size(t) = t.raw.len - t.lines BY <1>6, GridFields
    <2>2. t.raw.len - t.lines = (g.raw.len + added) - (g.lines + added) BY <1>1, <1>3, <1>5
    <2>. QED BY <1>1, <2>1, <2>2, GridFields
  <1>8. ASSUME NEW i \in Int, target - g.lines - history_size(g) <= i, i < target
        PROVE  Row(t.raw, i) = Row(g.raw, i + (-(target - g.lines)))
    <2>1. PICK j \in Int : j = i + (-(target - g.lines)) /\ i = j + (target - g.raw.visible_lines)
      BY GridFields
    <2>2. Active(g.raw, j) BY <1>8, <2>1, GridFields DEF Active
    <2>3. g.raw.visible_lines <= target /\ Ring(g.raw) BY GridFields
    <2>4. Row(r, i) = Row(g.raw, j) BY <1>2, <2>1, <2>2, <2>3, GrowVisibleRow
    <2>. QED BY <1>5, <2>1, <2>4
  <1>9. Kept(g, t, target - g.lines - history_size(g), target, -(target - g.lines))
    BY <1>8 DEF Kept
  <1>. QED BY <1>0, <1>5, <1>6, <1>7, <1>9

(* decrease_scroll_limit forgets the oldest lines. *)
LEMMA DecreaseRows ==
    ASSUME NEW g, GridOK(g), NEW count \in Nat
    PROVE  LET t == decrease_scroll_limit(g, count)
               n == MinOf(count, history_size(g))
           IN  /\ t.lines = g.lines /\ t.cursor = g.cursor /\ t.max_scroll_limit = g.max_scroll_limit
               /\ history_size(t) = history_size(g) - n
               /\ t.display_offset = IF n # 0 THEN MinOf(g.display_offset, history_size(t))
                                     ELSE g.display_offset
               /\ Kept(g, t, -history_size(t), g.lines, 0)
  <1>1. PICK n \in Nat : n = MinOf(count, history_size(g)) /\ n <= history_size(g)
    BY GridFields DEF MinOf
  <1>2. PICK r : r = [g EXCEPT !.raw = shrink_lines(g.raw, n)] OBVIOUS
  <1>3. PICK t : t = decrease_scroll_limit(g, count) OBVIOUS
  <1>4. t = IF n # 0 THEN [r EXCEPT !.display_offset = MinOf(g.display_offset, history_size(r))] ELSE g
    BY <1>1, <1>2, <1>3 DEF decrease_scroll_limit
  <1>5. CASE n = 0
    <2>1. t = g /\ history_size(g) - n = history_size(g) BY <1>4, <1>5, GridFields
    <2>2. \A i \in Int : i + 0 = i OBVIOUS
    <2>3. Kept(g, t, -history_size(t), g.lines, 0) BY <2>1, <2>2 DEF Kept
    <2>. QED BY <1>1, <1>3, <1>5, <2>1, <2>3
  <1>6. CASE n # 0
    <2>1. /\ r.raw = shrink_lines(g.raw, n) /\ r.lines = g.lines /\ r.cursor = g.cursor
          /\ r.max_scroll_limit = g.max_scroll_limit
      BY <1>2, GridFields DEF GridType
    <2>2. PICK o : o = MinOf(g.display_offset, history_size(r)) OBVIOUS
    <2>3. t = [r EXCEPT !.display_offset = o] BY <1>4, <1>6, <2>2
    <2>4. /\ t.raw = r.raw /\ t.lines = r.lines /\ t.cursor = r.cursor /\ t.display_offset = o
          /\ t.max_scroll_limit = r.max_scroll_limit
      <3>1. r \in [DOMAIN g -> {r[x] : x \in DOMAIN g}] BY <1>2, GridFields DEF GridType
      <3>. QED BY <1>2, <2>3, GridFields DEF GridType
    <2>5. /\ history_size(r) = history_size(g) - n /\ Kept(g, r, -history_size(r), g.lines, 0)
      BY <1>1, <2>1, ShrunkHistory
    <2>6. history_size(t) = history_size(r) BY <2>4 DEF history_size
    <2>7. Kept(g, t, -history_size(t), g.lines, 0) BY <2>4, <2>5, <2>6 DEF Kept
    <2>. QED BY <1>1, <1>3, <1>6, <2>1, <2>2, <2>4, <2>5, <2>6, <2>7
  <1>. QED BY <1>5, <1>6

(* grow_lines takes what it can from the scrollback, and adds blank lines at the
   bottom. *)
LEMMA GrowRows ==
    ASSUME NEW g, GridOK(g), NEW target \in Nat, g.lines < target
    PROVE  LET t == grow_lines(g, target)
               added == target - g.lines
               n == MinOf(history_size(g), added)
           IN  /\ t.lines = target /\ t.max_scroll_limit = g.max_scroll_limit
               /\ t.cursor = g.cursor + n
               /\ history_size(t) = history_size(g) - n
               /\ g.display_offset <= history_size(g) => t.display_offset <= history_size(t)
               /\ Kept(g, t, -history_size(t), g.lines + n, -n)
               /\ Cleared(t, g.lines + n, target)
  <1>1. PICK added \in Nat : added = target - g.lines /\ g.lines + added = target /\ 0 < added
    <2>1. target - g.lines \in Nat /\ g.lines + (target - g.lines) = target /\ 0 < target - g.lines
      BY GridFields
    <2>. QED BY <2>1
  <1>2. PICK h \in Nat, limit \in Nat : h = history_size(g) /\ limit = g.max_scroll_limit /\ h <= limit
    BY GridFields
  <1>3. PICK n \in Nat : n = MinOf(h, added) /\ n <= added /\ n <= h BY <1>1, <1>2 DEF MinOf
  <1>4. PICK r : r = [g EXCEPT !.raw = grow_visible_lines(g.raw, target), !.lines = target]
    OBVIOUS
  <1>5. /\ GridOK(r) /\ r.lines = target /\ r.max_scroll_limit = limit
        /\ r.display_offset = g.display_offset /\ history_size(r) = h
        /\ Kept(g, r, added - h, target, -added)
    <2>1. /\ GridOK(r) /\ r.lines = target /\ r.max_scroll_limit = g.max_scroll_limit
          /\ r.display_offset = g.display_offset
          /\ history_size(r) = history_size(g)
          /\ Kept(g, r, target - g.lines - history_size(g), target, -(target - g.lines))
      BY <1>4, GrownRaw
    <2>. QED BY <1>1, <1>2, <2>1
  <1>6. PICK u : u = IF n # added THEN scroll_up(r, 0, target, added - n) ELSE r OBVIOUS
  <1>7. PICK v : v = [u EXCEPT !.saved_cursor = g.saved_cursor + n, !.cursor = g.cursor + n,
                               !.display_offset = SaturatingSub(u.display_offset, added)]
    OBVIOUS
  <1>8. PICK t : t = grow_lines(g, target) OBVIOUS
  <1>9. t = decrease_scroll_limit(v, added)
    <2>1. MinOf(history_size(r), target - g.lines) = n BY <1>1, <1>2, <1>3, <1>5
    <2>2. grow_lines(g, target) = decrease_scroll_limit(v, target - g.lines)
      BY <1>1, <1>4, <1>6, <1>7, <2>1, Zenon DEF grow_lines
    <2>. QED BY <1>1, <1>8, <2>2
  <1>10. PICK p \in Nat : p = added - n BY <1>3
  <1>11. p # 0 => n = h BY <1>2, <1>3, <1>10 DEF MinOf
  <1>12. PICK k \in Nat : k = h + MinOf(p, limit - h) /\ k <= limit BY <1>2 DEF MinOf
  <1>13. /\ GridOK(u) /\ u.lines = target /\ u.max_scroll_limit = limit
         /\ history_size(u) = k
         /\ Kept(r, u, -k, target - p, p)
         /\ Cleared(u, target - p, target)
    <2>1. CASE n # added
      <3>1. u = scroll_up(r, 0, r.lines, p) /\ p <= r.lines
        BY <1>1, <1>3, <1>5, <1>6, <1>10, <2>1, GridFields
      <3>2. ScrolledOff(r, u, p) BY <1>5, <3>1, ScrollScreen
      <3>. QED BY <1>5, <1>12, <3>2 DEF ScrolledOff
    <2>2. CASE n = added
      <3>1. u = r /\ p = 0 BY <1>3, <1>6, <1>10, <2>2
      <3>2. k = h BY <1>2, <1>12, <3>1 DEF MinOf
      <3>3. \A i \in Int : i + 0 = i OBVIOUS
      <3>4. target - 0 = target OBVIOUS
      <3>. QED BY <1>5, <3>1, <3>2, <3>3, <3>4 DEF Kept, Cleared
    <2>. QED BY <2>1, <2>2
  <1>14. GridOK(v) /\ v.raw = u.raw /\ v.lines = target /\ v.max_scroll_limit = limit
         /\ v.cursor = g.cursor + n /\ v.display_offset = SaturatingSub(u.display_offset, added)
    <2>1. PICK c \in Nat, d \in Nat : c = g.cursor + n /\ d = g.saved_cursor + n /\ c < target /\ d < target
      BY <1>1, <1>3, GridFields
    <2>2. PICK o \in Nat : o = SaturatingSub(u.display_offset, added) /\ o <= u.max_scroll_limit
      BY <1>1, <1>13, GridFields DEF SaturatingSub
    <2>3. v = [u EXCEPT !.saved_cursor = d, !.cursor = c, !.display_offset = o]
      BY <1>7, <2>1, <2>2
    <2>4. /\ v.raw = u.raw /\ v.lines = target /\ v.max_scroll_limit = limit
          /\ v.cursor = c /\ v.display_offset = o
      BY <1>13, <2>3, GridFields DEF GridType
    <2>5. GridOK(v) BY <1>13, <2>1, <2>2, <2>3 DEF GridOK, GridType
    <2>. QED BY <2>1, <2>2, <2>4, <2>5
  <1>15. history_size(v) = k BY <1>13, <1>14 DEF history_size
  <1>16. MinOf(added, k) = k - (h - n)
    <2>1. CASE p = 0 BY <1>2, <1>3, <1>10, <1>12, <2>1 DEF MinOf
    <2>2. CASE p # 0 BY <1>2, <1>3, <1>10, <1>11, <1>12, <2>2 DEF MinOf
    <2>. QED BY <2>1, <2>2
  <1>17. /\ t.lines = target /\ t.cursor = g.cursor + n /\ t.max_scroll_limit = limit
         /\ history_size(t) = h - n
         /\ t.display_offset = IF k - (h - n) # 0 THEN MinOf(v.display_offset, h - n) ELSE v.display_offset
         /\ Kept(v, t, -(h - n), target, 0)
    <2>1. k - (k - (h - n)) = h - n BY <1>2, <1>3
    <2>2. /\ t.lines = v.lines /\ t.cursor = v.cursor /\ t.max_scroll_limit = v.max_scroll_limit
          /\ history_size(t) = k - (k - (h - n))
          /\ t.display_offset = IF k - (h - n) # 0 THEN MinOf(v.display_offset, history_size(t))
                                ELSE v.display_offset
          /\ Kept(v, t, -history_size(t), v.lines, 0)
      BY <1>9, <1>14, <1>15, <1>16, DecreaseRows
    <2>. QED BY <1>14, <2>1, <2>2
  <1>18. g.display_offset <= h => t.display_offset <= h - n
    <2>1. CASE k - (h - n) # 0
      <3>1. v.display_offset \in Nat BY <1>14, GridFields
      <3>. QED BY <1>2, <1>3, <1>17, <2>1, <3>1 DEF MinOf
    <2>2. CASE k - (h - n) = 0
      <3>1. PICK m \in Nat : m = MinOf(p, limit - h) /\ k = h + m BY <1>2, <1>12 DEF MinOf
      <3>2. n = 0 /\ m = 0 BY <1>2, <1>3, <1>12, <2>2, <3>1
      <3>3. h = 0 BY <1>1, <1>2, <1>3, <3>2 DEF MinOf
      <3>4. limit = 0 BY <1>1, <1>2, <1>10, <3>1, <3>2, <3>3 DEF MinOf
      <3>5. v.display_offset = 0 BY <1>14, <3>4, GridFields
      <3>. QED BY <1>17, <2>2, <3>2, <3>3, <3>5
    <2>. QED BY <2>1, <2>2
  <1>19. Kept(g, t, -(h - n), g.lines + n, -n)
    <2>. SUFFICES ASSUME NEW i \in Int, -(h - n) <= i, i < g.lines + n
                  PROVE  Row(t.raw, i) = Row(g.raw, i + (-n))
      BY DEF Kept
    <2>1. g.lines + n = target - p /\ i < target /\ i < target - p BY <1>1, <1>10, GridFields
    <2>2. Row(t.raw, i) = Row(u.raw, i)
      <3>1. i + 0 = i OBVIOUS
      <3>. QED BY <1>14, <1>17, <2>1, <3>1 DEF Kept
    <2>3. -k <= i BY <1>2, <1>3, <1>12 DEF MinOf
    <2>4. Row(u.raw, i) = Row(r.raw, i + p) BY <1>13, <2>1, <2>3 DEF Kept
    <2>5. PICK j \in Int : j = i + p /\ added - h <= j /\ j < target /\ j + (-added) = i + (-n)
      BY <1>1, <1>3, <1>10, <2>1
    <2>6. Row(r.raw, j) = Row(g.raw, j + (-added)) BY <1>5, <2>5 DEF Kept
    <2>. QED BY <2>2, <2>4, <2>5, <2>6
  <1>20. Cleared(t, g.lines + n, target)
    <2>. SUFFICES ASSUME NEW i \in Int, g.lines + n <= i, i < target PROVE Row(t.raw, i) = Blank
      BY DEF Cleared
    <2>1. target - p <= i /\ -(h - n) <= i /\ i + 0 = i BY <1>1, <1>3, <1>10, GridFields
    <2>2. Row(t.raw, i) = Row(v.raw, i) BY <1>17, <2>1 DEF Kept
    <2>3. Row(u.raw, i) = Blank BY <1>13, <2>1 DEF Cleared
    <2>. QED BY <1>14, <2>2, <2>3
  <1>. QED BY <1>1, <1>2, <1>3, <1>8, <1>17, <1>18, <1>19, <1>20

-----------------------------------------------------------------------------
(* What the user sees *)

(* The row of the cursor in a grid whose height changes. *)
LEMMA CursorRow ==
    ASSUME InBounds, NEW target \in Nat, 1 <= target, target # grid.lines, Resize(target)
    PROVE  Row(grid'.raw, grid'.cursor) = Row(grid.raw, grid.cursor)
  <1>. PICK g, t : g = grid /\ t = grid' OBVIOUS
  <1>1. GridOK(g) /\ t = resize(g, target) /\ target # g.lines BY DEF InBounds, Resize
  <1>2. g.lines \in Nat /\ g.cursor \in Nat /\ g.cursor < g.lines BY <1>1, GridFields
  <1>3. CASE g.lines < target
    <2>1. t = grow_lines(g, target) BY <1>1, <1>3 DEF resize
    <2>2. PICK n \in Nat : n = MinOf(history_size(g), target - g.lines) /\ n <= history_size(g)
      BY <1>1, <1>2, <1>3, GridFields DEF MinOf
    <2>3. /\ t.cursor = g.cursor + n /\ history_size(t) = history_size(g) - n
          /\ Kept(g, t, -history_size(t), g.lines + n, -n)
      BY <1>1, <1>3, <2>1, <2>2, GrowRows
    <2>4. PICK i \in Int : i = g.cursor + n /\ -history_size(t) <= i /\ i < g.lines + n /\ i + (-n) = g.cursor
      BY <1>1, <1>2, <2>2, <2>3, GridFields
    <2>. QED BY <2>3, <2>4 DEF Kept
  <1>4. CASE target < g.lines
    <2>1. t = shrink_grid_lines(g, target) BY <1>1, <1>2, <1>4 DEF resize
    <2>2. PICK n \in Nat : n = Required(g, target) /\ n <= g.cursor /\ g.cursor - n < target
      BY <1>2 DEF Required
    <2>3. t.cursor = g.cursor - n /\ Kept(g, t, -history_size(t), target, n)
      BY <1>1, <1>4, <2>1, <2>2, ShrinkRows
    <2>4. GridOK(t) BY <1>1, <1>4, <2>1, ShrinkGridLinesOK
    <2>5. PICK i \in Int : i = g.cursor - n /\ -history_size(t) <= i /\ i < target /\ i + n = g.cursor
      BY <1>2, <2>2, <2>4, GridFields
    <2>. QED BY <2>3, <2>5 DEF Kept
  <1>. QED BY <1>1, <1>2, <1>3, <1>4

(* Changing the number of lines moves no row away from the cursor (Grid::resize,
   grow_lines and shrink_lines): the cursor moves by as many lines as the screen takes
   from the scrollback or gives to it. *)
THEOREM CursorStaysOnItsRow == Spec => CursorRowKept
  <1>1. InBounds /\ InBounds'
          => [(grid'.lines # grid.lines /\ Resize(grid'.lines)) =>
                  Row(grid'.raw, grid'.cursor) = Row(grid.raw, grid.cursor)]_grid
    <2>. SUFFICES ASSUME InBounds, InBounds', grid'.lines # grid.lines, Resize(grid'.lines)
                  PROVE  Row(grid'.raw, grid'.cursor) = Row(grid.raw, grid.cursor)
      OBVIOUS
    <2>1. PICK target \in Nat : target = grid'.lines /\ 1 <= target BY GridFields DEF InBounds
    <2>2. target # grid.lines /\ Resize(target) BY <2>1
    <2>. QED BY <2>1, <2>2, CursorRow
  <1>2. Spec => []InBounds BY GridInBounds
  <1>. QED BY <1>1, <1>2, PTL DEF CursorRowKept

(* A user who scrolled back sees the same rows after the whole screen scrolls. *)
LEMMA SameView ==
    ASSUME InBounds, NEW p \in 1..grid.lines,
           grid.display_offset # 0 \/ ~grid.auto_scroll_enabled,
           grid.display_offset <= history_size(grid),
           grid.display_offset + p <= grid.max_scroll_limit,
           ScrollUp(0, grid.lines, p)
    PROVE  Displayed(grid') = Displayed(grid)
  <1>. PICK g, t : g = grid /\ t = grid' OBVIOUS
  <1>1. GridOK(g) /\ t = scroll_up(g, 0, g.lines, p) BY DEF InBounds, ScrollUp
  <1>2. p \in Nat /\ p <= g.lines BY <1>1, GridFields
  <1>3. ScrolledOff(g, t, p) BY <1>1, <1>2, ScrollScreen
  <1>4. PICK d \in Nat, h \in Nat, k \in Nat, limit \in Nat, n \in Nat :
            /\ d = g.display_offset /\ h = history_size(g) /\ limit = g.max_scroll_limit
            /\ k = history_size(t) /\ n = g.lines /\ h <= limit
    BY <1>1, <1>3, GridFields DEF ScrolledOff
  <1>5. t.lines = n /\ t.display_offset = d + p /\ k = h + MinOf(p, limit - h) /\ d <= h /\ d + p <= limit
    BY <1>2, <1>3, <1>4 DEF ScrolledOff, scrolled_offset, MinOf
  <1>6. d + p <= k BY <1>2, <1>4, <1>5 DEF MinOf
  <1>7. ASSUME NEW i \in 0..(n - 1)
        PROVE  Row(t.raw, i - t.display_offset) = Row(g.raw, i - g.display_offset)
    <2>1. PICK j \in Int : j = i - (d + p) /\ -k <= j /\ j < n - p /\ j + p = i - d
      BY <1>2, <1>4, <1>6, <1>7
    <2>2. Row(t.raw, j) = Row(g.raw, j + p) BY <1>3, <1>4, <2>1 DEF ScrolledOff, Kept
    <2>. QED BY <1>4, <1>5, <2>1, <2>2
  <1>8. Displayed(t) = Displayed(g) BY <1>4, <1>5, <1>7 DEF Displayed, Lines
  <1>. QED BY <1>8

(* The display offset is within the scrollback. *)
OffsetFits(g) == g.display_offset <= history_size(g)

(* The display offset follows the scrollback as it grows. *)
LEMMA ScrolledOffset ==
    ASSUME NEW g, GridOK(g), OffsetFits(g), NEW p \in Nat, NEW t,
           t.display_offset = scrolled_offset(g, p) \/ t.display_offset = g.display_offset,
           history_size(t) = history_size(g) + MinOf(p, g.max_scroll_limit - history_size(g))
    PROVE  OffsetFits(t)
  BY GridFields DEF OffsetFits, scrolled_offset, MinOf

(* resize keeps the display offset within the scrollback. *)
LEMMA ResizeOffset ==
    ASSUME NEW g, GridOK(g), OffsetFits(g), NEW lines \in Nat, 1 <= lines
    PROVE  OffsetFits(resize(g, lines))
  <1>1. g.lines \in Nat BY GridFields
  <1>2. CASE g.lines < lines
    <2>1. resize(g, lines) = grow_lines(g, lines) BY <1>2 DEF resize
    <2>. QED BY <1>2, <2>1, GrowRows DEF OffsetFits
  <1>3. CASE lines < g.lines
    <2>1. resize(g, lines) = shrink_grid_lines(g, lines) BY <1>1, <1>3 DEF resize
    <2>2. PICK t : t = shrink_grid_lines(g, lines) OBVIOUS
    <2>3. PICK n \in Nat : n = Required(g, lines) BY GridFields DEF Required
    <2>4. /\ t.display_offset = scrolled_offset(g, n) \/ t.display_offset = g.display_offset
          /\ history_size(t) = history_size(g) + MinOf(n, g.max_scroll_limit - history_size(g))
      BY <1>3, <2>2, <2>3, ShrinkRows
    <2>. QED BY <2>1, <2>2, <2>4, ScrolledOffset
  <1>4. CASE lines = g.lines BY <1>4 DEF resize
  <1>. QED BY <1>1, <1>2, <1>3, <1>4

(* Scrolling up or down keeps the display offset within the scrollback, unless it
   scrolls a region that begins further down. *)
LEMMA ScrollOffset ==
    ASSUME InBounds, OffsetFits(grid), Scroll
    PROVE  \/ OffsetFits(grid')
           \/ \E start \in RegionStarts \ {0}, end, positions \in 1..grid.lines :
                  start < end /\ ScrollUp(start, end, positions)
  <1>1. GridOK(grid) /\ grid.lines \in Nat BY GridFields DEF InBounds
  <1>2. PICK start \in RegionStarts, end \in 1..grid.lines, p \in 1..grid.lines :
            /\ start < end
            /\ ((start = 0 => p <= end) /\ ScrollUp(start, end, p)) \/ ScrollDown(start, end, p)
    BY DEF Scroll
  <1>3. start \in Nat /\ end \in Nat /\ p \in Nat /\ p \in Nat \ {0} /\ 0 < end /\ end <= grid.lines
    BY <1>1, <1>2, GridAssumption
  <1>4. CASE ScrollDown(start, end, p)
    <2>1. grid' = scroll_down(grid, start, end, p) BY <1>4 DEF ScrollDown
    <2>2. grid'.display_offset = grid.display_offset /\ history_size(grid') = history_size(grid)
      BY <1>1, <1>2, <1>3, <2>1, ScrollDownRows
    <2>. QED BY <2>2 DEF OffsetFits
  <1>5. CASE ScrollUp(start, end, p) /\ start # 0 BY <1>2, <1>5
  <1>6. CASE ScrollUp(start, end, p) /\ start = 0 /\ p <= end
    <2>1. PICK t : t = grid' OBVIOUS
    <2>2. t = scroll_up(grid, 0, end, p) BY <1>6, <2>1 DEF ScrollUp
    <2>3. /\ t.display_offset = scrolled_offset(grid, p)
          /\ history_size(t) = history_size(grid) + MinOf(p, grid.max_scroll_limit - history_size(grid))
      BY <1>1, <1>3, <1>6, <2>2, ScrollUpTopRows
    <2>4. OffsetFits(t) BY <1>1, <1>3, <2>3, ScrolledOffset
    <2>. QED BY <2>1, <2>4
  <1>. QED BY <1>2, <1>4, <1>5, <1>6

(* Actions that leave the length of the history and the limit alone. *)
LEMMA SameRawSize ==
    ASSUME NEW g, NEW t, t.raw = g.raw, t.lines = g.lines
    PROVE  history_size(t) = history_size(g)
  BY DEF history_size

(* Writing to a line changes that row only. *)
LEMMA WriteLaw ==
    ASSUME InBounds, NEW line \in Lines(grid), NEW row \in Rows, Write(line, row)
    PROVE  /\ grid'.lines = grid.lines /\ grid'.cursor = grid.cursor
           /\ grid'.max_scroll_limit = grid.max_scroll_limit
           /\ grid'.display_offset = grid.display_offset
           /\ history_size(grid') = history_size(grid)
           /\ \A i \in Int : -history_size(grid) <= i /\ i < grid.lines =>
                  Row(grid'.raw, i) = IF i = line THEN row ELSE Row(grid.raw, i)
  <1>. PICK g, t : g = grid /\ t = grid' OBVIOUS
  <1>1. GridOK(g) BY DEF InBounds
  <1>2. PICK s : s = SetRow(g.raw, line, row) OBVIOUS
  <1>3. t = [g EXCEPT !.raw = s] BY <1>2 DEF Write
  <1>4. /\ t.raw = s /\ t.lines = g.lines /\ t.cursor = g.cursor
        /\ t.max_scroll_limit = g.max_scroll_limit /\ t.display_offset = g.display_offset
    BY <1>1, <1>3, GridFields DEF GridType
  <1>5. line \in Int /\ 0 <= line /\ line < g.lines BY <1>1, GridFields DEF Lines
  <1>6. Active(g.raw, line) BY <1>1, <1>5, GridFields DEF Active
  <1>7. SameShape(g.raw, s) BY <1>1, <1>2, <1>5, <1>6, GridFields, SetRowShape
  <1>8. history_size(t) = history_size(g)
    <2>1. s.len = g.raw.len BY <1>7 DEF SameShape
    <2>. QED BY <1>4, <2>1 DEF history_size
  <1>9. ASSUME NEW i \in Int, -history_size(g) <= i, i < g.lines
        PROVE  Row(t.raw, i) = IF i = line THEN row ELSE Row(g.raw, i)
    <2>1. Fits(g, g.raw) BY <1>1, GridFields DEF Fits
    <2>2. Slotted(g.raw, i) BY <1>1, <1>9, <2>1, FitsActive
    <2>3. Slotted(g.raw, line) BY <1>1, <1>5, <1>6, GridFields, ActiveSlotted
    <2>. QED BY <1>1, <1>2, <1>4, <1>5, <2>2, <2>3, GridFields, SetRowRow
  <1>. QED BY <1>4, <1>8, <1>9

(* reset_region blanks its lines only. *)
LEMMA ResetRegionLaw ==
    ASSUME InBounds, NEW start \in Int, NEW end \in Int, ResetRegion(start, end)
    PROVE  /\ grid'.lines = grid.lines /\ grid'.cursor = grid.cursor
           /\ grid'.max_scroll_limit = grid.max_scroll_limit
           /\ grid'.display_offset = grid.display_offset
           /\ history_size(grid') = history_size(grid)
           /\ \A i \in Int : -history_size(grid) <= i /\ i < grid.lines =>
                  Row(grid'.raw, i) = IF start <= i /\ i < end THEN Blank ELSE Row(grid.raw, i)
  <1>. PICK g, t : g = grid /\ t = grid' OBVIOUS
  <1>1. GridOK(g) BY DEF InBounds
  <1>2. PICK s : s = ResetRows(g.raw, start, end) OBVIOUS
  <1>3. t = [g EXCEPT !.raw = s] BY <1>2 DEF ResetRegion, reset_region
  <1>4. /\ t.raw = s /\ t.lines = g.lines /\ t.cursor = g.cursor
        /\ t.max_scroll_limit = g.max_scroll_limit /\ t.display_offset = g.display_offset
    BY <1>1, <1>3, GridFields DEF GridType
  <1>5. SameShape(g.raw, s) BY <1>1, <1>2, GridFields, ResetRowsShape
  <1>6. history_size(t) = history_size(g)
    <2>1. s.len = g.raw.len BY <1>5 DEF SameShape
    <2>. QED BY <1>4, <2>1 DEF history_size
  <1>7. ASSUME NEW i \in Int, -history_size(g) <= i, i < g.lines
        PROVE  Row(t.raw, i) = IF start <= i /\ i < end THEN Blank ELSE Row(g.raw, i)
    <2>1. Fits(g, g.raw) BY <1>1, GridFields DEF Fits
    <2>2. Slotted(g.raw, i) BY <1>1, <1>7, <2>1, FitsActive
    <2>. QED BY <1>1, <1>2, <1>4, <2>2, GridFields, ResetRowsRow
  <1>. QED BY <1>4, <1>6, <1>7

(* Scrolling the view changes the offset and nothing else, and keeps it within the history. *)
LEMMA ScrollDisplayLaw ==
    ASSUME InBounds, ScrollDisplay
    PROVE  /\ grid'.raw = grid.raw /\ grid'.lines = grid.lines /\ grid'.cursor = grid.cursor
           /\ grid'.max_scroll_limit = grid.max_scroll_limit
           /\ OffsetFits(grid) => OffsetFits(grid')
  <1>. PICK g, t : g = grid /\ t = grid' OBVIOUS
  <1>1. GridOK(g) BY DEF InBounds
  <1>2. PICK h \in Nat : h = history_size(g) BY <1>1, GridFields
  <1>3. SUFFICES ASSUME NEW o \in Int, o <= h \/ o <= g.display_offset, t = [g EXCEPT !.display_offset = o]
                 PROVE  /\ t.raw = g.raw /\ t.lines = g.lines /\ t.cursor = g.cursor
                        /\ t.max_scroll_limit = g.max_scroll_limit
                        /\ OffsetFits(g) => OffsetFits(t)
    <2>. SUFFICES \E o \in Int : (o <= h \/ o <= g.display_offset) /\ t = [g EXCEPT !.display_offset = o]
      BY <1>3
    <2>1. ASSUME NEW count \in {-1, 1}, t = scroll_delta(g, count)
          PROVE  \E o \in Int : (o <= h \/ o <= g.display_offset) /\ t = [g EXCEPT !.display_offset = o]
      <3>1. MinOf(MaxOf(g.display_offset + count, 0), h) <= h /\ MinOf(MaxOf(g.display_offset + count, 0), h) \in Int
        BY <1>1, <1>2, GridFields DEF MinOf, MaxOf
      <3>. QED BY <1>2, <2>1, <3>1 DEF scroll_delta
    <2>2. ASSUME t = scroll_page_up(g)
          PROVE  \E o \in Int : (o <= h \/ o <= g.display_offset) /\ t = [g EXCEPT !.display_offset = o]
      <3>1. MinOf(g.display_offset + g.lines, h) <= h /\ MinOf(g.display_offset + g.lines, h) \in Int
        BY <1>1, <1>2, GridFields DEF MinOf
      <3>. QED BY <1>2, <2>2, <3>1 DEF scroll_page_up
    <2>3. ASSUME t = scroll_page_down(g)
          PROVE  \E o \in Int : (o <= h \/ o <= g.display_offset) /\ t = [g EXCEPT !.display_offset = o]
      <3>1. /\ SaturatingSub(g.display_offset, g.lines) <= g.display_offset
            /\ SaturatingSub(g.display_offset, g.lines) \in Int
        BY <1>1, GridFields DEF SaturatingSub
      <3>. QED BY <2>3, <3>1 DEF scroll_page_down
    <2>4. ASSUME t = scroll_top(g)
          PROVE  \E o \in Int : (o <= h \/ o <= g.display_offset) /\ t = [g EXCEPT !.display_offset = o]
      BY <1>2, <2>4 DEF scroll_top
    <2>5. ASSUME t = scroll_bottom(g)
          PROVE  \E o \in Int : (o <= h \/ o <= g.display_offset) /\ t = [g EXCEPT !.display_offset = o]
      <3>1. 0 <= h BY <1>2
      <3>. QED BY <2>5, <3>1 DEF scroll_bottom
    <2>. QED BY <2>1, <2>2, <2>3, <2>4, <2>5 DEF ScrollDisplay
  <1>4. /\ t.raw = g.raw /\ t.lines = g.lines /\ t.cursor = g.cursor
        /\ t.max_scroll_limit = g.max_scroll_limit /\ t.display_offset = o
    BY <1>1, <1>3, GridFields DEF GridType
  <1>5. history_size(t) = h BY <1>2, <1>4, SameRawSize
  <1>6. OffsetFits(g) => OffsetFits(t) BY <1>1, <1>2, <1>3, <1>4, <1>5, GridFields DEF OffsetFits
  <1>. QED BY <1>4, <1>6

(* The actions that touch neither the buffer nor the view. *)
LEMMA OtherFields ==
    ASSUME InBounds,
           \/ \E enabled \in BOOLEAN : SetAutoScroll(enabled)
           \/ \E line \in Lines(grid) : MoveCursor(line)
           \/ SaveCursor
    PROVE  /\ grid'.raw = grid.raw /\ grid'.lines = grid.lines
           /\ grid'.max_scroll_limit = grid.max_scroll_limit
           /\ grid'.display_offset = grid.display_offset
           /\ grid'.cursor = grid.cursor \/ MoveCursor(grid'.cursor)
           /\ \A line \in Lines(grid) : MoveCursor(line) => grid'.cursor = line
  <1>1. grid \in GridType BY GridFields DEF InBounds
  <1>2. ASSUME NEW enabled \in BOOLEAN, SetAutoScroll(enabled)
        PROVE  /\ grid'.raw = grid.raw /\ grid'.lines = grid.lines /\ grid'.cursor = grid.cursor
               /\ grid'.max_scroll_limit = grid.max_scroll_limit
               /\ grid'.display_offset = grid.display_offset
    BY <1>1, <1>2 DEF SetAutoScroll, GridType
  <1>3. ASSUME NEW line \in Lines(grid), MoveCursor(line)
        PROVE  /\ grid'.raw = grid.raw /\ grid'.lines = grid.lines /\ grid'.cursor = line
               /\ grid'.max_scroll_limit = grid.max_scroll_limit
               /\ grid'.display_offset = grid.display_offset
    BY <1>1, <1>3 DEF MoveCursor, GridType
  <1>4. ASSUME SaveCursor
        PROVE  /\ grid'.raw = grid.raw /\ grid'.lines = grid.lines /\ grid'.cursor = grid.cursor
               /\ grid'.max_scroll_limit = grid.max_scroll_limit
               /\ grid'.display_offset = grid.display_offset
    BY <1>1, <1>4 DEF SaveCursor, GridType
  <1>. QED BY <1>2, <1>3, <1>4

(* Every call keeps the display offset within the scrollback, but the one that scrolls
   a region further down. *)
LEMMA NextOffset ==
    ASSUME InBounds, OffsetFits(grid), Next
    PROVE  \/ OffsetFits(grid')
           \/ \E start \in RegionStarts \ {0}, end, positions \in 1..grid.lines :
                  start < end /\ ScrollUp(start, end, positions)
  <1>1. GridOK(grid) BY DEF InBounds
  <1>2. ASSUME NEW line \in Lines(grid), NEW row \in Rows, Write(line, row) PROVE OffsetFits(grid')
    BY <1>2, WriteLaw DEF OffsetFits
  <1>3. ASSUME Scroll
        PROVE  \/ OffsetFits(grid')
               \/ \E start \in RegionStarts \ {0}, end, positions \in 1..grid.lines :
                      start < end /\ ScrollUp(start, end, positions)
    BY <1>3, ScrollOffset
  <1>4. ASSUME ScrollDisplay PROVE OffsetFits(grid') BY <1>4, ScrollDisplayLaw
  <1>5. ASSUME ClearViewport PROVE OffsetFits(grid')
    <2>1. PICK t : t = clear_viewport(grid) OBVIOUS
    <2>2. PICK n \in Nat : n = viewport_end(grid) BY <1>1, ViewportEnd
    <2>3. /\ t.display_offset = scrolled_offset(grid, n) \/ t.display_offset = grid.display_offset
          /\ history_size(t) = history_size(grid) + MinOf(n, grid.max_scroll_limit - history_size(grid))
      BY <1>1, <2>1, <2>2, ClearViewportRows
    <2>4. OffsetFits(t) BY <1>1, <2>3, ScrolledOffset
    <2>. QED BY <1>5, <2>1, <2>4 DEF ClearViewport
  <1>6. ASSUME ClearHistory PROVE OffsetFits(grid')
    BY <1>1, <1>6, ClearHistoryRows DEF OffsetFits, ClearHistory
  <1>7. ASSUME Reset PROVE OffsetFits(grid')
    BY <1>1, <1>7, ResetRowsOfAll DEF OffsetFits, Reset
  <1>8. ASSUME NEW start \in Lines(grid), NEW end \in 1..grid.lines, ResetRegion(start, end)
        PROVE  OffsetFits(grid')
    <2>1. start \in Int /\ end \in Int BY <1>1, GridFields DEF Lines
    <2>. QED BY <1>8, <2>1, ResetRegionLaw DEF OffsetFits
  <1>9. ASSUME NEW size \in 0..MaxScrollLimit, UpdateHistory(size) PROVE OffsetFits(grid')
    <2>1. size \in Nat BY GridAssumption
    <2>2. PICK t : t = update_history(grid, size) OBVIOUS
    <2>3. t.display_offset = MinOf(grid.display_offset, size) /\ history_size(t) = MinOf(history_size(grid), size)
      BY <1>1, <2>1, <2>2, UpdateHistoryRows
    <2>4. OffsetFits(t) BY <1>1, <2>1, <2>3, GridFields DEF OffsetFits, MinOf
    <2>. QED BY <1>9, <2>2, <2>4 DEF UpdateHistory
  <1>10. ASSUME NEW lines \in 1..MaxLines, Resize(lines) PROVE OffsetFits(grid')
    <2>1. lines \in Nat /\ 1 <= lines BY GridAssumption
    <2>. QED BY <1>1, <1>10, <2>1, ResizeOffset DEF Resize
  <1>11. ASSUME \/ \E enabled \in BOOLEAN : SetAutoScroll(enabled)
                \/ \E line \in Lines(grid) : MoveCursor(line)
                \/ SaveCursor
         PROVE  OffsetFits(grid')
    BY <1>11, OtherFields, SameRawSize DEF OffsetFits
  <1>. QED BY <1>2, <1>3, <1>4, <1>5, <1>6, <1>7, <1>8, <1>9, <1>10, <1>11 DEF Next

(* Who has scrolled back keeps reading the same rows while the whole screen scrolls,
   and the view stays within the scrollback through every call but the one that breaks
   DisplayWithinHistory (Grid::scroll_up, update_history, clear_history, resize,
   scroll_display). *)
THEOREM ViewFollowsItsRows == Spec => ViewKept
  <1>1. InBounds /\ [Next]_grid =>
          [DisplayWithinHistory =>
             \/ DisplayWithinHistory'
             \/ \E start \in RegionStarts \ {0}, end, positions \in 1..grid.lines :
                  start < end /\ ScrollUp(start, end, positions)]_grid
    <2>. SUFFICES ASSUME InBounds, Next, DisplayWithinHistory
                  PROVE  \/ DisplayWithinHistory'
                         \/ \E start \in RegionStarts \ {0}, end, positions \in 1..grid.lines :
                              start < end /\ ScrollUp(start, end, positions)
      OBVIOUS
    <2>. QED BY NextOffset DEF OffsetFits, DisplayWithinHistory
  <1>2. InBounds =>
          [\A positions \in 1..grid.lines :
              /\ grid.display_offset # 0 \/ ~grid.auto_scroll_enabled
              /\ grid.display_offset <= history_size(grid)
              /\ grid.display_offset + positions <= grid.max_scroll_limit
              /\ ScrollUp(0, grid.lines, positions)
              => Displayed(grid') = Displayed(grid)]_grid
    BY SameView
  <1>3. Spec => []InBounds BY GridInBounds
  <1>. QED BY <1>1, <1>2, <1>3, PTL DEF Spec, ViewKept, OffsetFollowsHistory, ViewStationary

-----------------------------------------------------------------------------
(* The screen and the scrollback as sequences *)

(* What Scrollback knows of a grid: its screen *)
Screen(g) == RowsOf(g, 0, g.lines)
(* and the scrollback above it. *)
Scrolled(g) == RowsOf(g, -history_size(g), 0)

(* The screen of a grid as a sequence of rows. *)
LEMMA ScreenSeq ==
    ASSUME NEW g, GridOK(g)
    PROVE  /\ Screen(g) \in Seq(Rows) /\ Len(Screen(g)) = g.lines
           /\ \A k \in 1..g.lines : Screen(g)[k] = Row(g.raw, k - 1)
  <1>1. PICK n \in Nat : n = g.lines BY GridFields
  <1>2. PICK f : f = Screen(g) OBVIOUS
  <1>3. f = [k \in 1..n |-> Row(g.raw, k - 1)]
    <2>1. n - 0 = n /\ \A k \in 1..n : 0 + k - 1 = k - 1 OBVIOUS
    <2>. QED BY <1>1, <1>2, <2>1 DEF Screen, RowsOf
  <1>4. ASSUME NEW k \in 1..n PROVE Row(g.raw, k - 1) \in Rows
    <2>1. PICK i \in Int : i = k - 1 /\ Active(g.raw, i) BY <1>1, GridFields DEF Active
    <2>. QED BY <2>1, GridFields, IndexInRing
  <1>5. f \in [1..n -> Rows] BY <1>3, <1>4
  <1>6. f \in Seq(Rows) /\ Len(f) = n BY <1>5, SeqDef
  <1>. QED BY <1>1, <1>2, <1>3, <1>6

(* The scrollback of a grid as a sequence of rows, the oldest first. *)
LEMMA ScrolledSeq ==
    ASSUME NEW g, GridOK(g)
    PROVE  /\ Scrolled(g) \in Seq(Rows) /\ Len(Scrolled(g)) = history_size(g)
           /\ \A k \in 1..history_size(g) : Scrolled(g)[k] = Row(g.raw, k - 1 - history_size(g))
  <1>1. PICK n \in Nat : n = history_size(g) BY GridFields
  <1>2. PICK f : f = Scrolled(g) OBVIOUS
  <1>3. f = [k \in 1..n |-> Row(g.raw, k - 1 - n)]
    <2>1. 0 - (-n) = n /\ \A k \in 1..n : (-n) + k - 1 = k - 1 - n OBVIOUS
    <2>. QED BY <1>1, <1>2, <2>1 DEF Scrolled, RowsOf
  <1>4. ASSUME NEW k \in 1..n PROVE Row(g.raw, k - 1 - n) \in Rows
    <2>1. PICK i \in Int : i = k - 1 - n /\ Active(g.raw, i) BY <1>1, GridFields DEF Active
    <2>. QED BY <2>1, GridFields, IndexInRing
  <1>5. f \in [1..n -> Rows] BY <1>3, <1>4
  <1>6. f \in Seq(Rows) /\ Len(f) = n BY <1>5, SeqDef
  <1>. QED BY <1>1, <1>2, <1>3, <1>6

(* Sequences with the same elements are the same. *)
LEMMA SameRows ==
    \A a, b \in Seq(Rows) :
        Len(a) = Len(b) /\ (\A k \in 1..Len(a) : a[k] = b[k]) => a = b
  BY SeqEqual

(* The elements of a part of a sequence. *)
LEMMA PartOf ==
    ASSUME NEW s \in Seq(Rows), NEW m \in Nat \ {0}, NEW n \in Int, n <= Len(s)
    PROVE  /\ SubSeq(s, m, n) \in Seq(Rows)
           /\ Len(SubSeq(s, m, n)) = IF m <= n THEN n - m + 1 ELSE 0
           /\ \A k \in 1..(n - m + 1) : SubSeq(s, m, n)[k] = s[m + k - 1]
  <1>1. \A i \in m..n : s[i] \in Rows
    <2>. SUFFICES ASSUME NEW i \in m..n PROVE s[i] \in Rows OBVIOUS
    <2>1. i \in 1..Len(s) BY LenProperties
    <2>. QED BY <2>1, ElementOfSeq
  <1>2. m \in Int /\ n \in Int OBVIOUS
  <1>. QED BY <1>1, <1>2, SubSeqProperties

(* The elements of a sequence of blank rows. *)
LEMMA BlanksSeq ==
    ASSUME NEW n \in Nat
    PROVE  /\ Promise!Blanks(n) \in Seq(Rows) /\ Len(Promise!Blanks(n)) = n
           /\ \A k \in 1..n : Promise!Blanks(n)[k] = Blank
  <1>1. PICK f : f = Promise!Blanks(n) OBVIOUS
  <1>2. f = [k \in 1..n |-> Blank] BY <1>1 DEF Promise!Blanks
  <1>3. f \in [1..n -> Rows] BY <1>2, StorageAssumption
  <1>4. f \in Seq(Rows) /\ Len(f) = n BY <1>3, SeqDef
  <1>. QED BY <1>1, <1>2, <1>4

(* The elements of two sequences joined. *)
LEMMA Joined ==
    ASSUME NEW a \in Seq(Rows), NEW b \in Seq(Rows)
    PROVE  /\ a \o b \in Seq(Rows) /\ Len(a \o b) = Len(a) + Len(b)
           /\ \A k \in 1..(Len(a) + Len(b)) :
                  (a \o b)[k] = IF k <= Len(a) THEN a[k] ELSE b[k - Len(a)]
  BY ConcatProperties

(* Those of three. *)
LEMMA Joined3 ==
    ASSUME NEW a \in Seq(Rows), NEW b \in Seq(Rows), NEW c \in Seq(Rows)
    PROVE  LET m == Len(a)
               n == Len(a) + Len(b)
           IN  /\ a \o b \o c \in Seq(Rows) /\ Len(a \o b \o c) = n + Len(c)
               /\ \A k \in 1..(n + Len(c)) :
                      (a \o b \o c)[k] = IF k <= m THEN a[k]
                                         ELSE IF k <= n THEN b[k - m] ELSE c[k - n]
  <1>0. PICK m \in Nat, n \in Nat : m = Len(a) /\ n = Len(a) + Len(b) /\ n = m + Len(b)
    <2>1. Len(a) \in Nat /\ Len(a) + Len(b) \in Nat BY LenProperties
    <2>. QED BY <2>1
  <1>1. PICK x : x = a \o b OBVIOUS
  <1>2. /\ x \in Seq(Rows) /\ Len(x) = n
        /\ \A k \in 1..n : x[k] = IF k <= m THEN a[k] ELSE b[k - m]
    BY <1>0, <1>1, Joined
  <1>3. PICK y : y = x \o c OBVIOUS
  <1>4. /\ y \in Seq(Rows) /\ Len(y) = n + Len(c)
        /\ \A k \in 1..(n + Len(c)) : y[k] = IF k <= n THEN x[k] ELSE c[k - n]
    <2>1. x \in Seq(Rows) /\ Len(x) = n BY <1>2
    <2>2. /\ x \o c \in Seq(Rows) /\ Len(x \o c) = Len(x) + Len(c)
          /\ \A k \in 1..(Len(x) + Len(c)) : (x \o c)[k] = IF k <= Len(x) THEN x[k] ELSE c[k - Len(x)]
      BY <2>1, Joined
    <2>. QED BY <1>3, <2>1, <2>2
  <1>5. m <= n /\ Len(c) \in Nat BY <1>0, LenProperties
  <1>6. ASSUME NEW k \in 1..(n + Len(c))
        PROVE  y[k] = IF k <= m THEN a[k] ELSE IF k <= n THEN b[k - m] ELSE c[k - n]
    BY <1>2, <1>4, <1>5
  <1>. QED BY <1>0, <1>1, <1>3, <1>4, <1>6

(* Those of four. *)
LEMMA Joined4 ==
    ASSUME NEW a \in Seq(Rows), NEW b \in Seq(Rows), NEW c \in Seq(Rows), NEW d \in Seq(Rows)
    PROVE  LET m == Len(a)
               n == Len(a) + Len(b)
               q == Len(a) + Len(b) + Len(c)
           IN  /\ a \o b \o c \o d \in Seq(Rows) /\ Len(a \o b \o c \o d) = q + Len(d)
               /\ \A k \in 1..(q + Len(d)) :
                      (a \o b \o c \o d)[k] = IF k <= m THEN a[k]
                                              ELSE IF k <= n THEN b[k - m]
                                              ELSE IF k <= q THEN c[k - n] ELSE d[k - q]
  <1>0. PICK m \in Nat, n \in Nat, q \in Nat :
            m = Len(a) /\ n = Len(a) + Len(b) /\ q = Len(a) + Len(b) + Len(c) /\ n = m + Len(b) /\ q = n + Len(c)
    <2>1. Len(a) \in Nat /\ Len(a) + Len(b) \in Nat /\ Len(a) + Len(b) + Len(c) \in Nat BY LenProperties
    <2>. QED BY <2>1
  <1>1. PICK x : x = a \o b \o c OBVIOUS
  <1>2. /\ x \in Seq(Rows) /\ Len(x) = q
        /\ \A k \in 1..q : x[k] = IF k <= m THEN a[k] ELSE IF k <= n THEN b[k - m] ELSE c[k - n]
    BY <1>0, <1>1, Joined3
  <1>3. PICK y : y = x \o d OBVIOUS
  <1>4. /\ y \in Seq(Rows) /\ Len(y) = q + Len(d)
        /\ \A k \in 1..(q + Len(d)) : y[k] = IF k <= q THEN x[k] ELSE d[k - q]
    BY <1>2, <1>3, Joined
  <1>5. m <= n /\ n <= q /\ Len(d) \in Nat BY <1>0, LenProperties
  <1>6. ASSUME NEW k \in 1..(q + Len(d))
        PROVE  y[k] = IF k <= m THEN a[k] ELSE IF k <= n THEN b[k - m]
                      ELSE IF k <= q THEN c[k - n] ELSE d[k - q]
    <2>1. CASE k <= q
      <3>1. k \in 1..q BY <2>1
      <3>. QED BY <1>2, <1>4, <2>1, <3>1
    <2>2. CASE ~(k <= q)
      <3>1. ~(k <= m) /\ ~(k <= n) BY <1>5, <2>2
      <3>. QED BY <1>4, <2>2, <3>1
    <2>. QED BY <2>1, <2>2
  <1>. QED BY <1>0, <1>1, <1>3, <1>4, <1>6

(* The latest n rows of a sequence are its last ones, or all it has. *)
LEMMA LatestRows ==
    ASSUME NEW s \in Seq(Rows), NEW n \in Nat
    PROVE  LET r == Promise!Latest(s, n)
               m == MinOf(Len(s), n)
           IN  /\ r \in Seq(Rows) /\ Len(r) = m
               /\ \A k \in 1..m : r[k] = s[k + (Len(s) - m)]
  <1>. PICK r : r = Promise!Latest(s, n) OBVIOUS
  <1>0. PICK q \in Nat : q = Len(s) BY LenProperties
  <1>1. PICK m \in Nat : m = MinOf(q, n) BY DEF MinOf
  <1>2. CASE q <= n
    <2>1. r = s /\ m = q BY <1>0, <1>1, <1>2 DEF Promise!Latest, MinOf
    <2>2. \A k \in 1..m : k + (q - m) = k BY <2>1
    <2>. QED BY <1>0, <1>1, <2>1, <2>2
  <1>3. CASE ~(q <= n)
    <2>1. m = n BY <1>1, <1>3 DEF MinOf
    <2>2. PICK i \in Nat \ {0} : i = q - n + 1 BY <1>3
    <2>3. r = SubSeq(s, i, q) BY <1>0, <1>1, <1>3, <2>2 DEF Promise!Latest
    <2>4. /\ r \in Seq(Rows) /\ Len(r) = (IF i <= q THEN q - i + 1 ELSE 0)
          /\ \A k \in 1..(q - i + 1) : r[k] = s[i + k - 1]
      BY SMTT(60), <1>0, <1>1, <2>3, PartOf
    <2>5. q - i + 1 = n /\ (IF i <= q THEN q - i + 1 ELSE 0) = n BY <1>3, <2>2
    <2>6. \A k \in 1..n : i + k - 1 = k + (q - n) BY <2>2
    <2>. QED BY ZenonT(60), <1>0, <1>1, <2>1, <2>4, <2>5, <2>6
  <1>. QED BY <1>2, <1>3

(* Rows that leave the screen at the top are the latest of the scrollback. *)
LEMMA PushedRows ==
    ASSUME NEW g, GridOK(g), NEW t, GridOK(t), NEW p \in Nat, p <= g.lines, NEW to \in Int, 0 <= to,
           history_size(t) = history_size(g) + MinOf(p, g.max_scroll_limit - history_size(g)),
           Kept(g, t, -history_size(t), to, p)
    PROVE  Scrolled(t) = Promise!Latest(Scrolled(g) \o SubSeq(Screen(g), 1, p), g.max_scroll_limit)
  <1>1. PICK h \in Nat, k \in Nat, limit \in Nat :
            h = history_size(g) /\ k = history_size(t) /\ limit = g.max_scroll_limit /\ h <= limit
    BY GridFields
  <1>2. k = h + MinOf(p, limit - h) BY <1>1
  <1>3. PICK a : a = Scrolled(g) OBVIOUS
  <1>4. a \in Seq(Rows) /\ Len(a) = h /\ \A j \in 1..h : a[j] = Row(g.raw, j - 1 - h)
    BY <1>1, <1>3, ScrolledSeq
  <1>5. PICK z \in Nat \ {0} : z = 1 OBVIOUS
  <1>6. PICK b : b = SubSeq(Screen(g), z, p) OBVIOUS
  <1>7. b \in Seq(Rows) /\ Len(b) = p /\ \A j \in 1..p : b[j] = Row(g.raw, j - 1)
    <2>1. PICK s \in Seq(Rows) : s = Screen(g) BY ScreenSeq
    <2>2. Len(s) = g.lines /\ p <= Len(s) /\ \A j \in 1..g.lines : s[j] = Row(g.raw, j - 1)
      BY <2>1, ScreenSeq
    <2>3. /\ b \in Seq(Rows) /\ Len(b) = (IF z <= p THEN p - z + 1 ELSE 0)
          /\ \A j \in 1..(p - z + 1) : b[j] = s[z + j - 1]
      BY <1>6, <2>1, <2>2, PartOf
    <2>4. p - z + 1 = p /\ (IF z <= p THEN p - z + 1 ELSE 0) = p /\ \A j \in 1..p : z + j - 1 = j
      BY <1>5
    <2>5. \A j \in 1..p : j \in 1..g.lines BY GridFields
    <2>. QED BY <2>2, <2>3, <2>4, <2>5
  <1>8. PICK c : c = a \o b OBVIOUS
  <1>9. /\ c \in Seq(Rows) /\ Len(c) = h + p
        /\ \A j \in 1..(h + p) : c[j] = IF j <= h THEN a[j] ELSE b[j - h]
    <2>1. /\ a \o b \in Seq(Rows) /\ Len(a \o b) = Len(a) + Len(b)
          /\ \A j \in 1..(Len(a) + Len(b)) : (a \o b)[j] = IF j <= Len(a) THEN a[j] ELSE b[j - Len(a)]
      BY <1>4, <1>7, Joined
    <2>. QED BY <1>4, <1>7, <1>8, <2>1
  <1>10. PICK r : r = Promise!Latest(c, limit) OBVIOUS
  <1>11. MinOf(h + p, limit) = k BY <1>1, <1>2 DEF MinOf
  <1>12. r \in Seq(Rows) /\ Len(r) = k /\ \A j \in 1..k : r[j] = c[j + ((h + p) - k)]
    <2>1. /\ r \in Seq(Rows) /\ Len(r) = MinOf(Len(c), limit)
          /\ \A j \in 1..MinOf(Len(c), limit) : r[j] = c[j + (Len(c) - MinOf(Len(c), limit))]
      BY <1>9, <1>10, LatestRows
    <2>. QED BY <1>9, <1>11, <2>1
  <1>13. PICK s : s = Scrolled(t) OBVIOUS
  <1>14. s \in Seq(Rows) /\ Len(s) = k /\ \A j \in 1..k : s[j] = Row(t.raw, j - 1 - k)
    BY <1>1, <1>13, ScrolledSeq
  <1>15. ASSUME NEW j \in 1..k PROVE s[j] = r[j]
    <2>1. PICK i \in Int : i = j - 1 - k /\ -k <= i /\ i < 0 /\ i < to BY <1>15
    <2>2. s[j] = Row(g.raw, i + p) BY <1>1, <1>14, <2>1 DEF Kept
    <2>3. PICK m \in Int : m = j + ((h + p) - k) /\ m \in 1..(h + p)
      <3>1. k <= h + p BY <1>1, <1>2 DEF MinOf
      <3>. QED BY <3>1
    <2>4. r[j] = IF m <= h THEN a[m] ELSE b[m - h] BY <1>9, <1>12, <2>3
    <2>5. CASE m <= h
      <3>1. m \in 1..h /\ m - 1 - h = i + p BY <2>1, <2>3, <2>5
      <3>. QED BY <1>4, <2>2, <2>4, <2>5, <3>1
    <2>6. CASE ~(m <= h)
      <3>1. m - h \in 1..p /\ (m - h) - 1 = i + p BY <2>1, <2>3, <2>6
      <3>. QED BY <1>7, <2>2, <2>4, <2>6, <3>1
    <2>. QED BY <2>5, <2>6
  <1>16. s = r BY <1>12, <1>14, <1>15, SameRows
  <1>. QED BY <1>1, <1>3, <1>5, <1>6, <1>8, <1>10, <1>13, <1>16

(* A scrollback whose lines stay where they are is the latest part of what it was. *)
LEMMA KeptScrolled ==
    ASSUME NEW g, GridOK(g), NEW t, GridOK(t), NEW to \in Int, 0 <= to,
           history_size(t) <= history_size(g), Kept(g, t, -history_size(t), to, 0)
    PROVE  /\ Scrolled(t) = Promise!Latest(Scrolled(g), history_size(t))
           /\ history_size(t) = history_size(g) => Scrolled(t) = Scrolled(g)
  <1>1. PICK h \in Nat, k \in Nat : h = history_size(g) /\ k = history_size(t) /\ k <= h
    BY GridFields
  <1>2. PICK a, r, s : a = Scrolled(g) /\ r = Promise!Latest(a, k) /\ s = Scrolled(t) OBVIOUS
  <1>3. a \in Seq(Rows) /\ Len(a) = h /\ \A j \in 1..h : a[j] = Row(g.raw, j - 1 - h)
    BY <1>1, <1>2, ScrolledSeq
  <1>4. s \in Seq(Rows) /\ Len(s) = k /\ \A j \in 1..k : s[j] = Row(t.raw, j - 1 - k)
    BY <1>1, <1>2, ScrolledSeq
  <1>5. MinOf(h, k) = k BY <1>1 DEF MinOf
  <1>6. r \in Seq(Rows) /\ Len(r) = k /\ \A j \in 1..k : r[j] = a[j + (h - k)]
    <2>1. /\ r \in Seq(Rows) /\ Len(r) = MinOf(Len(a), k)
          /\ \A j \in 1..MinOf(Len(a), k) : r[j] = a[j + (Len(a) - MinOf(Len(a), k))]
      BY <1>2, <1>3, LatestRows
    <2>. QED BY <1>3, <1>5, <2>1
  <1>7. ASSUME NEW j \in 1..k PROVE s[j] = r[j]
    <2>1. PICK i \in Int : i = j - 1 - k /\ -k <= i /\ i < to /\ i + 0 = i BY <1>7
    <2>2. s[j] = Row(g.raw, i) BY <1>1, <1>4, <2>1 DEF Kept
    <2>3. j + (h - k) \in 1..h /\ (j + (h - k)) - 1 - h = i BY <1>1, <2>1
    <2>. QED BY <1>3, <1>6, <2>2, <2>3
  <1>8. s = r BY <1>4, <1>6, <1>7, SameRows
  <1>9. ASSUME k = h PROVE r = a
    <2>1. \A j \in 1..k : j + (h - k) = j BY <1>9
    <2>. QED BY <1>3, <1>6, <1>9, <2>1, SameRows
  <1>. QED BY <1>1, <1>2, <1>8, <1>9

(* A screen of blank lines. *)
LEMMA ClearedScreen ==
    ASSUME NEW t, GridOK(t), NEW n \in Nat, t.lines = n, Cleared(t, 0, n)
    PROVE  Screen(t) = Promise!Blanks(n)
  <1>1. PICK s, b : s = Screen(t) /\ b = Promise!Blanks(n) OBVIOUS
  <1>2. s \in Seq(Rows) /\ Len(s) = n /\ \A k \in 1..n : s[k] = Row(t.raw, k - 1) BY <1>1, ScreenSeq
  <1>3. b \in Seq(Rows) /\ Len(b) = n /\ \A k \in 1..n : b[k] = Blank BY <1>1, BlanksSeq
  <1>4. ASSUME NEW k \in 1..n PROVE s[k] = b[k]
    <2>1. PICK i \in Int : i = k - 1 /\ 0 <= i /\ i < n OBVIOUS
    <2>. QED BY <1>2, <1>3, <2>1 DEF Cleared
  <1>. QED BY <1>1, <1>2, <1>3, <1>4, SameRows

(* A screen whose lines stay where they are. *)
LEMMA KeptScreen ==
    ASSUME NEW g, GridOK(g), NEW t, GridOK(t), t.lines = g.lines, Kept(g, t, 0, g.lines, 0)
    PROVE  Screen(t) = Screen(g)
  <1>1. PICK n \in Nat : n = g.lines BY GridFields
  <1>2. PICK s, b : s = Screen(t) /\ b = Screen(g) OBVIOUS
  <1>3. s \in Seq(Rows) /\ Len(s) = n /\ \A k \in 1..n : s[k] = Row(t.raw, k - 1)
    BY <1>1, <1>2, ScreenSeq
  <1>4. b \in Seq(Rows) /\ Len(b) = n /\ \A k \in 1..n : b[k] = Row(g.raw, k - 1)
    BY <1>1, <1>2, ScreenSeq
  <1>5. ASSUME NEW k \in 1..n PROVE s[k] = b[k]
    <2>1. PICK i \in Int : i = k - 1 /\ 0 <= i /\ i < n /\ i + 0 = i OBVIOUS
    <2>. QED BY <1>1, <1>3, <1>4, <2>1 DEF Kept
  <1>. QED BY <1>2, <1>3, <1>4, <1>5, SameRows

(* t is g with the lines start..end-1 scrolled up by p. *)
RegionUp(g, t, start, end, p) ==
    /\ GridOK(g) /\ GridOK(t) /\ t.lines = g.lines
    /\ start \in Nat /\ end \in Nat /\ p \in Nat /\ start < end /\ end <= g.lines
    /\ Kept(g, t, 0, start, 0)
    /\ Kept(g, t, start, end - p, p)
    /\ Cleared(t, MaxOf(start, end - p), end)
    /\ Kept(g, t, end, g.lines, 0)

(* t is g with the lines start..end-1 scrolled down by p. *)
RegionDown(g, t, start, end, p) ==
    /\ GridOK(g) /\ GridOK(t) /\ t.lines = g.lines
    /\ start \in Nat /\ end \in Nat /\ p \in Nat /\ start < end /\ end <= g.lines
    /\ Kept(g, t, 0, start, 0)
    /\ Cleared(t, start, MinOf(start + p, end))
    /\ Kept(g, t, start + p, end, -p)
    /\ Kept(g, t, end, g.lines, 0)

(* What Scrollback says of the screen after it scrolls up *)
RegionUpRows(s, start, end, p) ==
    SubSeq(s, 1, start) \o SubSeq(s, start + p + 1, end)
      \o Promise!Blanks(Promise!Least(p, end - start)) \o SubSeq(s, end + 1, Len(s))

(* and down. *)
RegionDownRows(s, start, end, p) ==
    SubSeq(s, 1, start) \o Promise!Blanks(Promise!Least(p, end - start))
      \o SubSeq(s, start + 1, end - p) \o SubSeq(s, end + 1, Len(s))

(* The screen that scroll_up leaves is the one Scrollback promises. *)
LEMMA ScrolledUpScreen ==
    ASSUME NEW g, NEW t, NEW start, NEW end, NEW p, RegionUp(g, t, start, end, p)
    PROVE  Screen(t) = RegionUpRows(Screen(g), start, end, p)
  <1>. USE DEF RegionUp
  <1>1. PICK n \in Nat : n = g.lines /\ end <= n BY GridFields
  <1>2. PICK s \in Seq(Rows) : s = Screen(g) BY ScreenSeq
  <1>3. Len(s) = n /\ \A k \in 1..n : s[k] = Row(g.raw, k - 1) BY <1>1, <1>2, ScreenSeq
  <1>4. PICK y : y = Screen(t) OBVIOUS
  <1>5. y \in Seq(Rows) /\ Len(y) = n /\ \A k \in 1..n : y[k] = Row(t.raw, k - 1)
    BY <1>1, <1>4, ScreenSeq
  <1>6. PICK one \in Nat \ {0}, l \in Nat, from \in Nat \ {0}, rest \in Nat \ {0} :
            one = 1 /\ l = Promise!Least(p, end - start) /\ from = start + p + 1 /\ rest = end + 1
    <2>1. /\ 1 \in Nat \ {0} /\ Promise!Least(p, end - start) \in Nat
          /\ start + p + 1 \in Nat \ {0} /\ end + 1 \in Nat \ {0}
      BY DEF Promise!Least
    <2>. QED BY <2>1
  <1>7. PICK a, b, c, d : /\ a = SubSeq(s, one, start) /\ b = SubSeq(s, from, end)
                          /\ c = Promise!Blanks(l) /\ d = SubSeq(s, rest, n)
    OBVIOUS
  <1>8. a \in Seq(Rows) /\ Len(a) = start /\ \A k \in 1..start : a[k] = s[k]
    <2>1. /\ a \in Seq(Rows) /\ Len(a) = (IF one <= start THEN start - one + 1 ELSE 0)
          /\ \A k \in 1..(start - one + 1) : a[k] = s[one + k - 1]
      <3>1. start <= Len(s) BY <1>1, <1>3
      <3>. QED BY <1>7, <3>1, PartOf
    <2>2. start - one + 1 = start /\ (IF one <= start THEN start - one + 1 ELSE 0) = start
          /\ \A k \in 1..start : one + k - 1 = k
      BY <1>6
    <2>. QED BY <2>1, <2>2
  <1>9. PICK w \in Nat : w = IF from <= end THEN end - from + 1 ELSE 0
    <2>1. (IF from <= end THEN end - from + 1 ELSE 0) \in Nat OBVIOUS
    <2>. QED BY <2>1
  <1>10. b \in Seq(Rows) /\ Len(b) = w /\ \A k \in 1..w : b[k] = s[start + p + k]
    <2>1. /\ b \in Seq(Rows) /\ Len(b) = (IF from <= end THEN end - from + 1 ELSE 0)
          /\ \A k \in 1..(end - from + 1) : b[k] = s[from + k - 1]
      <3>1. end <= Len(s) BY <1>1, <1>3
      <3>. QED BY <1>7, <3>1, PartOf
    <2>2. \A k \in 1..w : k \in 1..(end - from + 1) /\ from + k - 1 = start + p + k
      BY <1>6, <1>9
    <2>. QED BY <1>9, <2>1, <2>2
  <1>11. c \in Seq(Rows) /\ Len(c) = l /\ \A k \in 1..l : c[k] = Blank BY <1>7, BlanksSeq
  <1>12. d \in Seq(Rows) /\ Len(d) = n - end /\ \A k \in 1..(n - end) : d[k] = s[end + k]
    <2>1. /\ d \in Seq(Rows) /\ Len(d) = (IF rest <= n THEN n - rest + 1 ELSE 0)
          /\ \A k \in 1..(n - rest + 1) : d[k] = s[rest + k - 1]
      <3>1. n <= Len(s) BY <1>3
      <3>. QED BY <1>7, <3>1, PartOf
    <2>2. n - rest + 1 = n - end /\ (IF rest <= n THEN n - rest + 1 ELSE 0) = n - end
          /\ \A k \in 1..(n - end) : rest + k - 1 = end + k
      BY <1>1, <1>6
    <2>. QED BY <2>1, <2>2
  <1>13. PICK u \in Nat : u = start + w /\ u + l = end
    <2>1. start + w \in Nat /\ (start + w) + l = end BY <1>6, <1>9 DEF Promise!Least
    <2>. QED BY <2>1
  <1>14. PICK x : x = a \o b \o c \o d OBVIOUS
  <1>15. /\ x \in Seq(Rows) /\ Len(x) = n
         /\ \A k \in 1..n : x[k] = IF k <= start THEN a[k] ELSE IF k <= u THEN b[k - start]
                                   ELSE IF k <= end THEN c[k - u] ELSE d[k - end]
    <2>1. start = Len(a) /\ u = start + Len(b) /\ end = u + Len(c) /\ end + Len(d) = n
      <3>1. Len(a) = start /\ Len(b) = w /\ Len(c) = l /\ Len(d) = n - end
        BY <1>8, <1>10, <1>11, <1>12
      <3>. QED BY <1>1, <1>13, <3>1
    <2>2. /\ a \o b \o c \o d \in Seq(Rows) /\ Len(a \o b \o c \o d) = end + Len(d)
          /\ \A k \in 1..(end + Len(d)) :
                 (a \o b \o c \o d)[k] = IF k <= start THEN a[k] ELSE IF k <= u THEN b[k - start]
                                         ELSE IF k <= end THEN c[k - u] ELSE d[k - end]
      <3>1. a \in Seq(Rows) /\ b \in Seq(Rows) /\ c \in Seq(Rows) /\ d \in Seq(Rows)
        BY <1>8, <1>10, <1>11, <1>12
      <3>2. Len(a) = start /\ Len(a) + Len(b) = u /\ Len(a) + Len(b) + Len(c) = end
        BY <2>1
      <3>3. LET m == Len(a)
                k == Len(a) + Len(b)
                q == Len(a) + Len(b) + Len(c)
            IN  /\ a \o b \o c \o d \in Seq(Rows) /\ Len(a \o b \o c \o d) = q + Len(d)
                /\ \A j \in 1..(q + Len(d)) :
                       (a \o b \o c \o d)[j] = IF j <= m THEN a[j] ELSE IF j <= k THEN b[j - m]
                                               ELSE IF j <= q THEN c[j - k] ELSE d[j - q]
        BY ONLY SMTT(60), <3>1, Joined4
      <3>. QED BY <3>2, <3>3
    <2>. QED BY <1>14, <2>1, <2>2
  <1>16. ASSUME NEW k \in 1..n PROVE y[k] = x[k]
    <2>1. PICK i \in Int : i = k - 1 /\ 0 <= i /\ i < n /\ i + 0 = i OBVIOUS
    <2>2. y[k] = Row(t.raw, i) /\ s[k] = Row(g.raw, i) BY <1>3, <1>5, <2>1
    <2>3. CASE k <= start
      <3>1. Row(t.raw, i) = Row(g.raw, i) BY <2>1, <2>3 DEF Kept
      <3>. QED BY <1>8, <1>15, <2>2, <2>3, <3>1
    <2>4. CASE ~(k <= start) /\ k <= u
      <3>1. w = end - p - start /\ start <= i /\ i < end - p BY <1>6, <1>9, <1>13, <2>1, <2>4
      <3>2. Row(t.raw, i) = Row(g.raw, i + p) BY <3>1 DEF Kept
      <3>3. k - start \in 1..w /\ start + p + (k - start) = k + p BY <1>13, <2>4
      <3>4. x[k] = s[k + p] BY <1>10, <1>15, <2>4, <3>3
      <3>5. k + p \in 1..n /\ (k + p) - 1 = i + p BY <1>1, <2>1, <3>1
      <3>. QED BY <1>3, <2>2, <3>2, <3>4, <3>5
    <2>5. CASE ~(k <= u) /\ k <= end
      <3>1. MaxOf(start, end - p) <= i BY <1>6, <1>9, <1>13, <2>1, <2>5 DEF MaxOf
      <3>2. Row(t.raw, i) = Blank BY <2>1, <2>5, <3>1 DEF Cleared
      <3>3. k - u \in 1..l /\ ~(k <= start) BY <1>13, <2>5
      <3>. QED BY <1>11, <1>15, <2>2, <2>5, <3>2, <3>3
    <2>6. CASE ~(k <= end)
      <3>1. Row(t.raw, i) = Row(g.raw, i) BY <1>1, <2>1, <2>6 DEF Kept
      <3>2. k - end \in 1..(n - end) /\ end + (k - end) = k /\ ~(k <= start) /\ ~(k <= u)
        BY <1>13, <2>6
      <3>. QED BY <1>12, <1>15, <2>2, <2>6, <3>1, <3>2
    <2>. QED BY <2>3, <2>4, <2>5, <2>6
  <1>17. y = x BY <1>5, <1>15, <1>16, SameRows
  <1>. QED BY <1>2, <1>3, <1>4, <1>6, <1>7, <1>14, <1>17 DEF RegionUpRows

(* The screen that scroll_down leaves is the one Scrollback promises. *)
LEMMA ScrolledDownScreen ==
    ASSUME NEW g, NEW t, NEW start, NEW end, NEW p, RegionDown(g, t, start, end, p)
    PROVE  Screen(t) = RegionDownRows(Screen(g), start, end, p)
  <1>. USE DEF RegionDown
  <1>1. PICK n \in Nat : n = g.lines /\ end <= n BY GridFields
  <1>2. PICK s \in Seq(Rows) : s = Screen(g) BY ScreenSeq
  <1>3. Len(s) = n /\ \A k \in 1..n : s[k] = Row(g.raw, k - 1) BY <1>1, <1>2, ScreenSeq
  <1>4. PICK y : y = Screen(t) OBVIOUS
  <1>5. y \in Seq(Rows) /\ Len(y) = n /\ \A k \in 1..n : y[k] = Row(t.raw, k - 1)
    BY <1>1, <1>4, ScreenSeq
  <1>6. PICK one \in Nat \ {0}, l \in Nat, from \in Nat \ {0}, rest \in Nat \ {0}, last \in Int :
            /\ one = 1 /\ l = Promise!Least(p, end - start) /\ from = start + 1 /\ rest = end + 1
            /\ last = end - p
    <2>1. /\ 1 \in Nat \ {0} /\ Promise!Least(p, end - start) \in Nat
          /\ start + 1 \in Nat \ {0} /\ end + 1 \in Nat \ {0} /\ end - p \in Int
      BY DEF Promise!Least
    <2>. QED BY <2>1
  <1>7. PICK a, b, c, d : /\ a = SubSeq(s, one, start) /\ b = Promise!Blanks(l)
                          /\ c = SubSeq(s, from, last) /\ d = SubSeq(s, rest, n)
    OBVIOUS
  <1>8. a \in Seq(Rows) /\ Len(a) = start /\ \A k \in 1..start : a[k] = s[k]
    <2>1. /\ a \in Seq(Rows) /\ Len(a) = (IF one <= start THEN start - one + 1 ELSE 0)
          /\ \A k \in 1..(start - one + 1) : a[k] = s[one + k - 1]
      <3>1. start <= Len(s) BY <1>1, <1>3
      <3>. QED BY <1>7, <3>1, PartOf
    <2>2. start - one + 1 = start /\ (IF one <= start THEN start - one + 1 ELSE 0) = start
          /\ \A k \in 1..start : one + k - 1 = k
      BY <1>6
    <2>. QED BY <2>1, <2>2
  <1>9. b \in Seq(Rows) /\ Len(b) = l /\ \A k \in 1..l : b[k] = Blank BY <1>7, BlanksSeq
  <1>10. PICK w \in Nat : w = IF from <= last THEN last - from + 1 ELSE 0
    <2>1. (IF from <= last THEN last - from + 1 ELSE 0) \in Nat OBVIOUS
    <2>. QED BY <2>1
  <1>11. c \in Seq(Rows) /\ Len(c) = w /\ \A k \in 1..w : c[k] = s[start + k]
    <2>1. /\ c \in Seq(Rows) /\ Len(c) = (IF from <= last THEN last - from + 1 ELSE 0)
          /\ \A k \in 1..(last - from + 1) : c[k] = s[from + k - 1]
      <3>1. last <= Len(s) BY <1>1, <1>3, <1>6
      <3>. QED BY <1>7, <3>1, PartOf
    <2>2. \A k \in 1..w : k \in 1..(last - from + 1) /\ from + k - 1 = start + k
      BY <1>6, <1>10
    <2>. QED BY <1>10, <2>1, <2>2
  <1>12. d \in Seq(Rows) /\ Len(d) = n - end /\ \A k \in 1..(n - end) : d[k] = s[end + k]
    <2>1. /\ d \in Seq(Rows) /\ Len(d) = (IF rest <= n THEN n - rest + 1 ELSE 0)
          /\ \A k \in 1..(n - rest + 1) : d[k] = s[rest + k - 1]
      <3>1. n <= Len(s) BY <1>3
      <3>. QED BY <1>7, <3>1, PartOf
    <2>2. n - rest + 1 = n - end /\ (IF rest <= n THEN n - rest + 1 ELSE 0) = n - end
          /\ \A k \in 1..(n - end) : rest + k - 1 = end + k
      BY <1>1, <1>6
    <2>. QED BY <2>1, <2>2
  <1>13. PICK u \in Nat : u = start + l /\ u + w = end
    <2>1. start + l \in Nat /\ (start + l) + w = end BY <1>6, <1>10 DEF Promise!Least
    <2>. QED BY <2>1
  <1>14. PICK x : x = a \o b \o c \o d OBVIOUS
  <1>15. /\ x \in Seq(Rows) /\ Len(x) = n
         /\ \A k \in 1..n : x[k] = IF k <= start THEN a[k] ELSE IF k <= u THEN b[k - start]
                                   ELSE IF k <= end THEN c[k - u] ELSE d[k - end]
    <2>1. start = Len(a) /\ u = start + Len(b) /\ end = u + Len(c) /\ end + Len(d) = n
      <3>1. Len(a) = start /\ Len(b) = l /\ Len(c) = w /\ Len(d) = n - end
        BY <1>8, <1>9, <1>11, <1>12
      <3>. QED BY <1>1, <1>13, <3>1
    <2>2. a \in Seq(Rows) /\ b \in Seq(Rows) /\ c \in Seq(Rows) /\ d \in Seq(Rows)
      BY <1>8, <1>9, <1>11, <1>12
    <2>3. Len(a) = start /\ Len(a) + Len(b) = u /\ Len(a) + Len(b) + Len(c) = end
      BY <2>1
    <2>4. LET m == Len(a)
              k == Len(a) + Len(b)
              q == Len(a) + Len(b) + Len(c)
          IN  /\ a \o b \o c \o d \in Seq(Rows) /\ Len(a \o b \o c \o d) = q + Len(d)
              /\ \A j \in 1..(q + Len(d)) :
                     (a \o b \o c \o d)[j] = IF j <= m THEN a[j] ELSE IF j <= k THEN b[j - m]
                                             ELSE IF j <= q THEN c[j - k] ELSE d[j - q]
      BY ONLY SMTT(60), <2>2, Joined4
    <2>. QED BY <1>14, <2>1, <2>3, <2>4
  <1>16. ASSUME NEW k \in 1..n PROVE y[k] = x[k]
    <2>1. PICK i \in Int : i = k - 1 /\ 0 <= i /\ i < n /\ i + 0 = i OBVIOUS
    <2>2. y[k] = Row(t.raw, i) /\ s[k] = Row(g.raw, i) BY <1>3, <1>5, <2>1
    <2>3. CASE k <= start
      <3>1. Row(t.raw, i) = Row(g.raw, i) BY <2>1, <2>3 DEF Kept
      <3>. QED BY <1>8, <1>15, <2>2, <2>3, <3>1
    <2>4. CASE ~(k <= start) /\ k <= u
      <3>1. start <= i /\ i < MinOf(start + p, end) BY <1>6, <1>13, <2>1, <2>4 DEF MinOf, Promise!Least
      <3>2. Row(t.raw, i) = Blank BY <3>1 DEF Cleared
      <3>3. k - start \in 1..l BY <1>13, <2>4
      <3>. QED BY <1>9, <1>15, <2>2, <2>4, <3>2, <3>3
    <2>5. CASE ~(k <= u) /\ k <= end
      <3>1. l = p /\ w = end - p - start /\ start + p <= i /\ i < end
        BY <1>6, <1>10, <1>13, <2>1, <2>5 DEF Promise!Least
      <3>2. Row(t.raw, i) = Row(g.raw, i + (-p)) BY <3>1 DEF Kept
      <3>3. k - u \in 1..w /\ start + (k - u) = k - p /\ ~(k <= start) BY <1>13, <2>5, <3>1
      <3>4. x[k] = s[k - p] BY <1>11, <1>15, <2>5, <3>3
      <3>5. k - p \in 1..n /\ (k - p) - 1 = i + (-p) BY <1>1, <2>1, <3>1
      <3>. QED BY <1>3, <2>2, <3>2, <3>4, <3>5
    <2>6. CASE ~(k <= end)
      <3>1. Row(t.raw, i) = Row(g.raw, i) BY <1>1, <2>1, <2>6 DEF Kept
      <3>2. k - end \in 1..(n - end) /\ end + (k - end) = k /\ ~(k <= start) /\ ~(k <= u)
        BY <1>13, <2>6
      <3>. QED BY <1>12, <1>15, <2>2, <2>6, <3>1, <3>2
    <2>. QED BY <2>3, <2>4, <2>5, <2>6
  <1>17. y = x BY <1>5, <1>15, <1>16, SameRows
  <1>. QED BY <1>2, <1>3, <1>4, <1>6, <1>7, <1>14, <1>17 DEF RegionDownRows

(* The lines of a lower screen were lines of the screen. *)
LEMMA ShrunkScreen ==
    ASSUME NEW g, GridOK(g), NEW t, GridOK(t), NEW n \in Nat, n + t.lines <= g.lines,
           Kept(g, t, 0, t.lines, n)
    PROVE  Screen(t) = SubSeq(Screen(g), n + 1, n + t.lines)
  <1>1. PICK l \in Nat : l = t.lines /\ n + l <= g.lines BY GridFields
  <1>2. PICK s \in Seq(Rows) : s = Screen(g) BY ScreenSeq
  <1>3. Len(s) = g.lines /\ \A k \in 1..g.lines : s[k] = Row(g.raw, k - 1) BY <1>2, ScreenSeq
  <1>4. PICK y : y = Screen(t) OBVIOUS
  <1>5. y \in Seq(Rows) /\ Len(y) = l /\ \A k \in 1..l : y[k] = Row(t.raw, k - 1)
    BY <1>1, <1>4, ScreenSeq
  <1>6. PICK m \in Nat \ {0}, last \in Nat : m = n + 1 /\ last = n + l
    <2>1. n + 1 \in Nat \ {0} /\ n + l \in Nat OBVIOUS
    <2>. QED BY <2>1
  <1>7. PICK x : x = SubSeq(s, m, last) OBVIOUS
  <1>8. x \in Seq(Rows) /\ Len(x) = l /\ \A k \in 1..l : x[k] = s[n + k]
    <2>1. /\ x \in Seq(Rows) /\ Len(x) = (IF m <= last THEN last - m + 1 ELSE 0)
          /\ \A k \in 1..(last - m + 1) : x[k] = s[m + k - 1]
      <3>1. last <= Len(s) /\ last \in Int BY <1>1, <1>3, <1>6
      <3>. QED BY <1>7, <3>1, PartOf
    <2>2. last - m + 1 = l /\ (IF m <= last THEN last - m + 1 ELSE 0) = l
          /\ \A k \in 1..l : m + k - 1 = n + k
      BY <1>6
    <2>. QED BY <2>1, <2>2
  <1>9. ASSUME NEW k \in 1..l PROVE y[k] = x[k]
    <2>1. PICK i \in Int : i = k - 1 /\ 0 <= i /\ i < l OBVIOUS
    <2>2. Row(t.raw, i) = Row(g.raw, i + n) BY <1>1, <2>1 DEF Kept
    <2>3. n + k \in 1..g.lines /\ (n + k) - 1 = i + n BY <1>1, <2>1, GridFields
    <2>. QED BY <1>3, <1>5, <1>8, <2>1, <2>2, <2>3
  <1>10. y = x BY <1>5, <1>8, <1>9, SameRows
  <1>. QED BY <1>1, <1>2, <1>4, <1>6, <1>7, <1>10

(* t is g with n lines more at the top, from its scrollback, and m blank ones at the
   bottom. *)
GrownBy(g, t, n, m) ==
    /\ n <= history_size(g) /\ t.lines = n + g.lines + m
    /\ Kept(g, t, 0, g.lines + n, -n) /\ Cleared(t, g.lines + n, t.lines)

(* The screen that grow_lines leaves is the one Scrollback promises. *)
LEMMA GrownScreen ==
    ASSUME NEW g, GridOK(g), NEW t, GridOK(t), NEW n \in Nat, NEW m \in Nat, GrownBy(g, t, n, m)
    PROVE  Screen(t) = Promise!Latest(Scrolled(g), n) \o Screen(g) \o Promise!Blanks(m)
  <1>. USE DEF GrownBy
  <1>1. PICK l \in Nat, h \in Nat : l = g.lines /\ h = history_size(g) /\ n <= h BY GridFields
  <1>2. PICK a, b, c : a = Promise!Latest(Scrolled(g), n) /\ b = Screen(g) /\ c = Promise!Blanks(m)
    OBVIOUS
  <1>3. a \in Seq(Rows) /\ Len(a) = n /\ \A k \in 1..n : a[k] = Row(g.raw, k - 1 - n)
    <2>1. PICK s : s = Scrolled(g) OBVIOUS
    <2>2. s \in Seq(Rows) /\ Len(s) = h /\ \A k \in 1..h : s[k] = Row(g.raw, k - 1 - h)
      BY <1>1, <2>1, ScrolledSeq
    <2>3. /\ a \in Seq(Rows) /\ Len(a) = MinOf(Len(s), n)
          /\ \A k \in 1..MinOf(Len(s), n) : a[k] = s[k + (Len(s) - MinOf(Len(s), n))]
      BY <1>2, <2>1, <2>2, LatestRows
    <2>4. MinOf(h, n) = n BY <1>1 DEF MinOf
    <2>5. \A k \in 1..n : k + (h - n) \in 1..h /\ (k + (h - n)) - 1 - h = k - 1 - n BY <1>1
    <2>. QED BY <2>2, <2>3, <2>4, <2>5
  <1>4. b \in Seq(Rows) /\ Len(b) = l /\ \A k \in 1..l : b[k] = Row(g.raw, k - 1)
    BY <1>1, <1>2, ScreenSeq
  <1>5. c \in Seq(Rows) /\ Len(c) = m /\ \A k \in 1..m : c[k] = Blank BY <1>2, BlanksSeq
  <1>6. PICK x : x = a \o b \o c OBVIOUS
  <1>7. /\ x \in Seq(Rows) /\ Len(x) = n + l + m
        /\ \A k \in 1..(n + l + m) : x[k] = IF k <= n THEN a[k] ELSE IF k <= n + l THEN b[k - n]
                                            ELSE c[k - (n + l)]
    <2>1. a \in Seq(Rows) /\ b \in Seq(Rows) /\ c \in Seq(Rows) BY <1>3, <1>4, <1>5
    <2>2. LET i == Len(a)
              j == Len(a) + Len(b)
          IN  /\ a \o b \o c \in Seq(Rows) /\ Len(a \o b \o c) = j + Len(c)
              /\ \A k \in 1..(j + Len(c)) :
                     (a \o b \o c)[k] = IF k <= i THEN a[k] ELSE IF k <= j THEN b[k - i] ELSE c[k - j]
      BY ONLY <2>1, Joined3
    <2>3. Len(a) = n /\ Len(a) + Len(b) = n + l /\ n + l + Len(c) = n + l + m BY <1>3, <1>4, <1>5
    <2>. QED BY <1>6, <2>2, <2>3
  <1>8. PICK y : y = Screen(t) OBVIOUS
  <1>9. /\ y \in Seq(Rows) /\ Len(y) = n + l + m
        /\ \A k \in 1..(n + l + m) : y[k] = Row(t.raw, k - 1)
    BY <1>1, <1>8, ScreenSeq
  <1>10. ASSUME NEW k \in 1..(n + l + m) PROVE y[k] = x[k]
    <2>1. PICK i \in Int : i = k - 1 /\ 0 <= i /\ i < n + l + m OBVIOUS
    <2>2. CASE k <= n + l
      <3>1. Row(t.raw, i) = Row(g.raw, i + (-n)) BY <1>1, <2>1, <2>2 DEF Kept
      <3>2. CASE k <= n
        <4>1. k - 1 - n = i + (-n) BY <2>1
        <4>. QED BY <1>3, <1>7, <1>9, <2>1, <3>1, <3>2, <4>1
      <3>3. CASE ~(k <= n)
        <4>1. k - n \in 1..l /\ (k - n) - 1 = i + (-n) BY <2>1, <2>2, <3>3
        <4>. QED BY <1>4, <1>7, <1>9, <2>1, <2>2, <3>1, <3>3, <4>1
      <3>. QED BY <3>2, <3>3
    <2>3. CASE ~(k <= n + l)
      <3>1. Row(t.raw, i) = Blank BY <1>1, <2>1, <2>3 DEF Cleared
      <3>2. k - (n + l) \in 1..m /\ ~(k <= n) BY <2>3
      <3>. QED BY <1>5, <1>7, <1>9, <2>1, <2>3, <3>1, <3>2
    <2>. QED BY <2>2, <2>3
  <1>11. y = x BY <1>7, <1>9, <1>10, SameRows
  <1>. QED BY <1>2, <1>6, <1>8, <1>11

(* What grow_lines takes from the scrollback are its latest rows. *)
LEMMA ShortenedScrolled ==
    ASSUME NEW g, GridOK(g), NEW t, GridOK(t), NEW n \in Nat,
           history_size(t) = history_size(g) - n, NEW to \in Int, 0 <= to,
           Kept(g, t, -history_size(t), to, -n)
    PROVE  Scrolled(t) = SubSeq(Scrolled(g), 1, Len(Scrolled(g)) - n)
  <1>1. PICK h \in Nat, k \in Nat : h = history_size(g) /\ k = history_size(t) /\ k = h - n
    BY GridFields
  <1>2. PICK s \in Seq(Rows) : s = Scrolled(g) BY ScrolledSeq
  <1>3. Len(s) = h /\ \A j \in 1..h : s[j] = Row(g.raw, j - 1 - h) BY <1>1, <1>2, ScrolledSeq
  <1>4. PICK y : y = Scrolled(t) OBVIOUS
  <1>5. y \in Seq(Rows) /\ Len(y) = k /\ \A j \in 1..k : y[j] = Row(t.raw, j - 1 - k)
    BY <1>1, <1>4, ScrolledSeq
  <1>6. PICK one \in Nat \ {0} : one = 1 OBVIOUS
  <1>7. PICK x : x = SubSeq(s, one, k) OBVIOUS
  <1>8. x \in Seq(Rows) /\ Len(x) = k /\ \A j \in 1..k : x[j] = s[j]
    <2>1. /\ x \in Seq(Rows) /\ Len(x) = (IF one <= k THEN k - one + 1 ELSE 0)
          /\ \A j \in 1..(k - one + 1) : x[j] = s[one + j - 1]
      <3>1. k <= Len(s) /\ k \in Int BY <1>1, <1>3
      <3>. QED BY <1>7, <3>1, PartOf
    <2>2. k - one + 1 = k /\ (IF one <= k THEN k - one + 1 ELSE 0) = k
          /\ \A j \in 1..k : one + j - 1 = j
      BY <1>6
    <2>. QED BY <2>1, <2>2
  <1>9. ASSUME NEW j \in 1..k PROVE y[j] = x[j]
    <2>1. PICK i \in Int : i = j - 1 - k /\ -k <= i /\ i < to BY <1>9
    <2>2. Row(t.raw, i) = Row(g.raw, i + (-n)) BY <1>1, <2>1 DEF Kept
    <2>3. j \in 1..h /\ j - 1 - h = i + (-n) BY SMTT(60), <1>1, <2>1
    <2>. QED BY <1>3, <1>5, <1>8, <2>1, <2>2, <2>3
  <1>10. y = x BY <1>5, <1>8, <1>9, SameRows
  <1>. QED BY <1>1, <1>2, <1>3, <1>4, <1>6, <1>7, <1>10

-----------------------------------------------------------------------------
(* Each action of Grid is an action of Scrollback, or a stuttering step of it *)

(* A call that changes nothing Scrollback knows is a stutter of it. *)
LEMMA StutterStep ==
    ASSUME Screen(grid') = Screen(grid), Scrolled(grid') = Scrolled(grid),
           grid'.max_scroll_limit = grid.max_scroll_limit, grid'.cursor = grid.cursor
    PROVE  UNCHANGED Promise!vars
  BY DEF Screen, Scrolled, Promise!vars

(* The screen and the scrollback are those of the buffer and the number of lines. *)
LEMMA SameRawStep ==
    ASSUME grid'.raw = grid.raw, grid'.lines = grid.lines
    PROVE  Screen(grid') = Screen(grid) /\ Scrolled(grid') = Scrolled(grid)
  BY DEF Screen, Scrolled, RowsOf, history_size

(* A new grid is a new scrollback. *)
LEMMA InitStep == Init => Promise!Init
  <1>. SUFFICES ASSUME Init PROVE Promise!Init OBVIOUS
  <1>1. PICK lines \in 1..MaxLines, limit \in 0..MaxScrollLimit : grid = new(lines, limit) BY DEF Init
  <1>2. lines \in Nat /\ limit \in Nat /\ 1 <= lines BY GridAssumption
  <1>3. GridOK(grid) BY <1>1, <1>2, NewOK
  <1>4. /\ grid.raw = with_capacity(lines) /\ grid.lines = lines /\ grid.cursor = 0
        /\ grid.max_scroll_limit = limit
    BY <1>1 DEF new
  <1>5. /\ grid.raw.inner = BlankRows(lines) /\ grid.raw.zero = 0
        /\ grid.raw.visible_lines = lines /\ grid.raw.len = lines
    BY <1>4 DEF with_capacity
  <1>6. history_size(grid) = 0 BY <1>2, <1>4, <1>5 DEF history_size, SaturatingSub
  <1>7. Len(grid.raw.inner) = lines /\ \A k \in 1..lines : grid.raw.inner[k] = Blank
    <2>1. BlankRows(lines) \in [1..lines -> Rows] BY StorageAssumption DEF BlankRows
    <2>2. Len(BlankRows(lines)) = lines BY <1>2, <2>1, SeqDef
    <2>. QED BY <1>5, <2>2 DEF BlankRows
  <1>8. Cleared(grid, 0, lines)
    <2>. SUFFICES ASSUME NEW i \in Int, 0 <= i, i < lines PROVE Row(grid.raw, i) = Blank
      BY DEF Cleared
    <2>1. compute_index(grid.raw, i) = lines - 1 - i BY <1>2, <1>5, <1>7 DEF compute_index
    <2>2. compute_index(grid.raw, i) + 1 \in 1..lines BY <1>2, <2>1
    <2>. QED BY <1>7, <2>2 DEF Row
  <1>9. Screen(grid) = Promise!Blanks(lines) BY <1>2, <1>3, <1>4, <1>8, ClearedScreen
  <1>10. Scrolled(grid) = <<>>
    <2>1. PICK s : s = Scrolled(grid) OBVIOUS
    <2>2. s \in Seq(Rows) /\ Len(s) = 0 BY <1>3, <1>6, <2>1, ScrolledSeq
    <2>3. s = <<>> BY <2>2, EmptySeq
    <2>. QED BY <2>1, <2>3
  <1>. QED BY <1>1, <1>4, <1>9, <1>10 DEF Promise!Init, Screen, Scrolled

(* Each call is the one of Scrollback that bears its name: writing to a line, *)
LEMMA WriteStep ==
    ASSUME InBounds, InBounds', NEW line \in Lines(grid), NEW row \in Rows, Write(line, row)
    PROVE  Promise!Next
  <1>. PICK g, t : g = grid /\ t = grid' OBVIOUS
  <1>1. GridOK(g) /\ GridOK(t) BY DEF InBounds
  <1>2. PICK n \in Nat, h \in Nat : n = g.lines /\ h = history_size(g) BY <1>1, GridFields
  <1>3. line \in Int /\ 0 <= line /\ line < n BY <1>2 DEF Lines
  <1>4. /\ t.lines = n /\ t.cursor = g.cursor /\ t.max_scroll_limit = g.max_scroll_limit
        /\ history_size(t) = h
        /\ \A i \in Int : -h <= i /\ i < n => Row(t.raw, i) = IF i = line THEN row ELSE Row(g.raw, i)
    BY <1>2, WriteLaw
  <1>5. Kept(g, t, -h, 0, 0)
    <2>. SUFFICES ASSUME NEW i \in Int, -h <= i, i < 0 PROVE Row(t.raw, i) = Row(g.raw, i + 0)
      BY DEF Kept
    <2>1. i < n /\ i # line /\ i + 0 = i BY <1>2, <1>3
    <2>. QED BY <1>4, <2>1
  <1>6. Scrolled(t) = Scrolled(g)
    <2>1. 0 \in Int /\ 0 <= 0 /\ history_size(t) <= history_size(g) /\ history_size(t) = history_size(g)
      BY <1>2, <1>4
    <2>. QED BY <1>1, <1>2, <1>4, <1>5, <2>1, KeptScrolled
  <1>7. PICK k \in 1..n : k = line + 1 /\ k - 1 = line
    <2>1. line + 1 \in 1..n /\ (line + 1) - 1 = line BY <1>3
    <2>. QED BY <2>1
  <1>8. PICK s \in Seq(Rows) : s = Screen(g) BY <1>1, ScreenSeq
  <1>9. Len(s) = n /\ \A j \in 1..n : s[j] = Row(g.raw, j - 1) BY <1>1, <1>2, <1>8, ScreenSeq
  <1>10. PICK y : y = Screen(t) OBVIOUS
  <1>11. y \in Seq(Rows) /\ Len(y) = n /\ \A j \in 1..n : y[j] = Row(t.raw, j - 1)
    BY <1>1, <1>2, <1>4, <1>10, ScreenSeq
  <1>12. PICK x : x = [s EXCEPT ![k] = row] OBVIOUS
  <1>13. x \in Seq(Rows) /\ Len(x) = n /\ \A j \in 1..n : x[j] = IF j = k THEN row ELSE s[j]
    <2>1. s \in [1..n -> Rows] BY <1>9, LenProperties
    <2>2. x \in [1..n -> Rows] BY <1>12, <2>1
    <2>3. x \in Seq(Rows) /\ Len(x) = n BY <2>2, SeqDef
    <2>. QED BY <1>12, <2>1, <2>3
  <1>14. ASSUME NEW j \in 1..n PROVE y[j] = x[j]
    <2>1. PICK i \in Int : i = j - 1 /\ -h <= i /\ i < n /\ (i = line <=> j = k) BY <1>2, <1>7
    <2>. QED BY <1>4, <1>9, <1>11, <1>13, <2>1
  <1>15. y = x BY <1>11, <1>13, <1>14, SameRows
  <1>16. Screen(t) = [Screen(g) EXCEPT ![k] = row] BY <1>8, <1>10, <1>12, <1>15
  <1>17. Promise!Write(k, row) BY <1>4, <1>6, <1>16 DEF Promise!Write, Screen, Scrolled
  <1>18. k \in 1..Len(Screen(grid)) BY <1>8, <1>9
  <1>. QED BY <1>17, <1>18 DEF Promise!Next, Screen

(* scroll_up and scroll_down, *)
LEMMA ScrollStep ==
    ASSUME InBounds, InBounds', Scroll
    PROVE  Promise!Next
  <1>. PICK g, t : g = grid /\ t = grid' OBVIOUS
  <1>1. GridOK(g) /\ GridOK(t) BY DEF InBounds
  <1>2. PICK start \in RegionStarts, end \in 1..g.lines, p \in 1..g.lines :
            /\ start < end
            /\ \/ (start = 0 => p <= end) /\ ScrollUp(start, end, p)
               \/ ScrollDown(start, end, p)
    BY DEF Scroll
  <1>3. PICK n \in Nat, h \in Nat : n = g.lines /\ h = history_size(g) BY <1>1, GridFields
  <1>4. /\ start \in Nat /\ end \in Nat /\ 0 < end /\ end <= g.lines
        /\ p \in Nat \ {0} /\ p \in Nat /\ p <= g.lines
    BY <1>2, <1>3, GridAssumption
  <1>5. end \in 1..Len(Screen(grid)) /\ p \in 1..Len(Screen(grid)) BY <1>1, <1>2, ScreenSeq
  <1>6. SUFFICES Promise!ScrollUp(start, end, p) \/ Promise!ScrollDown(start, end, p)
    BY <1>2, <1>5 DEF Promise!Next, Screen
  <1>7. CASE ScrollDown(start, end, p)
    <2>1. t = scroll_down(g, start, end, p) BY <1>7 DEF ScrollDown
    <2>2. t.lines = g.lines /\ t.cursor = g.cursor /\ t.max_scroll_limit = g.max_scroll_limit
      BY <1>1, <2>1, GridFields DEF scroll_down, GridType
    <2>3. /\ history_size(t) = h
          /\ Kept(g, t, -h, start, 0)
          /\ Cleared(t, start, MinOf(start + p, end))
          /\ Kept(g, t, start + p, end, -p)
          /\ Kept(g, t, end, g.lines, 0)
      BY <1>1, <1>2, <1>3, <1>4, <2>1, ScrollDownRows
    <2>4. Kept(g, t, 0, start, 0) BY <1>3, <2>3 DEF Kept
    <2>5. Scrolled(t) = Scrolled(g)
      <3>1. start \in Int /\ 0 <= start /\ history_size(t) <= history_size(g) /\ history_size(t) = history_size(g)
        BY <1>3, <1>4, <2>3
      <3>. QED BY <1>1, <1>3, <2>3, <3>1, KeptScrolled
    <2>6. Screen(t) = RegionDownRows(Screen(g), start, end, p)
      <3>1. RegionDown(g, t, start, end, p)
        BY <1>1, <1>2, <1>4, <2>2, <2>3, <2>4 DEF RegionDown
      <3>. QED BY <3>1, ScrolledDownScreen
    <2>7. Promise!ScrollDown(start, end, p)
      BY <2>2, <2>5, <2>6 DEF Promise!ScrollDown, RegionDownRows, Screen, Scrolled
    <2>. QED BY <2>7
  <1>8. CASE ScrollUp(start, end, p) /\ (start = 0 => p <= end)
    <2>1. t = scroll_up(g, start, end, p) BY <1>8 DEF ScrollUp
    <2>2. t.lines = g.lines /\ t.cursor = g.cursor /\ t.max_scroll_limit = g.max_scroll_limit
      BY <1>1, <1>2, <1>4, <1>8, <2>1, ScrollUpOK
    <2>3. /\ Kept(g, t, 0, start, 0) /\ Kept(g, t, start, end - p, p)
          /\ Cleared(t, MaxOf(start, end - p), end) /\ Kept(g, t, end, g.lines, 0)
          /\ Scrolled(t) = IF start = 0
                           THEN Promise!Latest(Scrolled(g) \o SubSeq(Screen(g), 1, p), g.max_scroll_limit)
                           ELSE Scrolled(g)
      <3>1. CASE start = 0
        <4>1. t = scroll_up(g, 0, end, p) /\ p <= end BY <1>8, <2>1, <3>1
        <4>2. /\ history_size(t) = history_size(g) + MinOf(p, g.max_scroll_limit - history_size(g))
              /\ Kept(g, t, -history_size(t), end - p, p)
              /\ Cleared(t, end - p, end)
              /\ Kept(g, t, end, g.lines, 0)
          BY <1>1, <1>4, <4>1, ScrollUpTopRows
        <4>3. end - p \in Int /\ 0 <= end - p /\ MaxOf(start, end - p) = end - p
          BY <1>4, <3>1, <4>1 DEF MaxOf
        <4>4. Scrolled(t) = Promise!Latest(Scrolled(g) \o SubSeq(Screen(g), 1, p), g.max_scroll_limit)
          BY <1>1, <1>4, <4>2, <4>3, PushedRows
        <4>5. Kept(g, t, 0, end - p, p)
          <5>1. history_size(t) \in Nat BY <1>1, GridFields
          <5>. QED BY <4>2, <5>1 DEF Kept
        <4>6. Kept(g, t, 0, start, 0) BY <3>1 DEF Kept
        <4>. QED BY <3>1, <4>2, <4>3, <4>4, <4>5, <4>6
      <3>2. CASE start # 0
        <4>1. 0 < start BY <1>4, <3>2
        <4>2. /\ history_size(t) = h
              /\ Kept(g, t, -h, start, 0) /\ Kept(g, t, start, end - p, p)
              /\ Cleared(t, MaxOf(start, end - p), end) /\ Kept(g, t, end, g.lines, 0)
          BY <1>1, <1>2, <1>3, <1>4, <2>1, <4>1, ScrollUpRegionRows
        <4>3. Kept(g, t, 0, start, 0) BY <1>3, <4>2 DEF Kept
        <4>4. Scrolled(t) = Scrolled(g)
          <5>1. /\ start \in Int /\ 0 <= start /\ history_size(t) <= history_size(g)
                /\ history_size(t) = history_size(g)
            BY <1>3, <1>4, <4>2
          <5>. QED BY <1>1, <1>3, <4>2, <5>1, KeptScrolled
        <4>. QED BY <3>2, <4>2, <4>3, <4>4
      <3>. QED BY <3>1, <3>2
    <2>4. Screen(t) = RegionUpRows(Screen(g), start, end, p)
      <3>1. RegionUp(g, t, start, end, p)
        BY <1>1, <1>2, <1>4, <2>2, <2>3 DEF RegionUp
      <3>. QED BY <3>1, ScrolledUpScreen
    <2>5. Promise!ScrollUp(start, end, p)
      BY <2>2, <2>3, <2>4 DEF Promise!ScrollUp, Promise!Pushed, RegionUpRows, Screen, Scrolled
    <2>. QED BY <2>5
  <1>. QED BY <1>2, <1>7, <1>8

(* clear_viewport, *)
LEMMA ClearViewportStep ==
    ASSUME InBounds, InBounds', ClearViewport
    PROVE  Promise!Next
  <1>. PICK g, t : g = grid /\ t = grid' OBVIOUS
  <1>1. GridOK(g) /\ GridOK(t) /\ t = clear_viewport(g) BY DEF InBounds, ClearViewport
  <1>2. PICK l \in Nat : l = g.lines BY <1>1, GridFields
  <1>3. PICK n \in Nat : n = viewport_end(g) /\ n <= l BY <1>1, <1>2, ViewportEnd
  <1>4. /\ t.lines = l /\ t.cursor = g.cursor /\ t.max_scroll_limit = g.max_scroll_limit
        /\ history_size(t) = history_size(g) + MinOf(n, g.max_scroll_limit - history_size(g))
        /\ Kept(g, t, -history_size(t), 0, n)
        /\ Cleared(t, 0, l)
    BY <1>1, <1>2, <1>3, ClearViewportRows
  <1>5. Scrolled(t) = Promise!Latest(Scrolled(g) \o SubSeq(Screen(g), 1, n), g.max_scroll_limit)
    <2>1. PICK z \in Int : z = 0 /\ 0 <= z /\ Kept(g, t, -history_size(t), z, n) BY <1>4
    <2>. QED BY <1>1, <1>2, <1>3, <1>4, <2>1, PushedRows
  <1>6. PICK s : s = Screen(g) OBVIOUS
  <1>7. Len(s) = l /\ \A k \in 1..l : s[k] = Row(g.raw, k - 1) BY <1>1, <1>2, <1>6, ScreenSeq
  <1>8. Screen(t) = Promise!Blanks(Len(Screen(g))) BY <1>1, <1>4, <1>6, <1>7, ClearedScreen
  <1>9. \A k \in n + 1 .. Len(Screen(g)) : Screen(g)[k] = Blank
    <2>. SUFFICES ASSUME NEW k \in n + 1 .. l PROVE s[k] = Blank BY <1>6, <1>7
    <2>1. PICK i \in Int : i = k - 1 /\ n <= i /\ i < l OBVIOUS
    <2>2. Row(g.raw, i) = Blank BY <1>1, <1>2, <1>3, <2>1, ViewportEnd
    <2>3. k \in 1..l OBVIOUS
    <2>. QED BY <1>7, <2>1, <2>2, <2>3
  <1>10. n = 0 \/ n = 1 \/ Screen(g)[n] # Blank
    <2>1. n = 0 \/ n = 1 \/ Row(g.raw, n - 1) # Blank BY <1>1, <1>3, ViewportEnd
    <2>2. n # 0 => n \in 1..l BY <1>3
    <2>. QED BY <1>6, <1>7, <2>1, <2>2
  <1>11. Promise!ClearViewport(n)
    BY <1>4, <1>5, <1>8, <1>9, <1>10 DEF Promise!ClearViewport, Promise!Pushed, Screen, Scrolled
  <1>12. n \in 0..Len(Screen(grid)) BY <1>3, <1>6, <1>7
  <1>. QED BY <1>11, <1>12 DEF Promise!Next, Screen

(* clear_history, *)
LEMMA ClearHistoryStep ==
    ASSUME InBounds, InBounds', ClearHistory
    PROVE  Promise!Next
  <1>. PICK g, t : g = grid /\ t = grid' OBVIOUS
  <1>1. GridOK(g) /\ GridOK(t) /\ t = clear_history(g) BY DEF InBounds, ClearHistory
  <1>2. /\ t.lines = g.lines /\ t.cursor = g.cursor /\ t.max_scroll_limit = g.max_scroll_limit
        /\ history_size(t) = 0 /\ Kept(g, t, 0, g.lines, 0)
    BY <1>1, ClearHistoryRows
  <1>3. Screen(t) = Screen(g) BY <1>1, <1>2, KeptScreen
  <1>4. Scrolled(t) = <<>>
    <2>1. PICK s : s = Scrolled(t) OBVIOUS
    <2>2. s \in Seq(Rows) /\ Len(s) = 0 BY <1>1, <1>2, <2>1, ScrolledSeq
    <2>3. s = <<>> BY <2>2, EmptySeq
    <2>. QED BY <2>1, <2>3
  <1>5. Promise!ClearHistory BY <1>2, <1>3, <1>4 DEF Promise!ClearHistory, Screen, Scrolled
  <1>. QED BY <1>5 DEF Promise!Next

(* reset, *)
LEMMA ResetStep ==
    ASSUME InBounds, InBounds', Reset
    PROVE  Promise!Next
  <1>. PICK g, t : g = grid /\ t = grid' OBVIOUS
  <1>1. GridOK(g) /\ GridOK(t) /\ t = reset(g) BY DEF InBounds, Reset
  <1>2. PICK l \in Nat : l = g.lines BY <1>1, GridFields
  <1>3. /\ t.lines = l /\ t.cursor = 0 /\ t.max_scroll_limit = g.max_scroll_limit
        /\ history_size(t) = 0 /\ Cleared(t, 0, l)
    BY <1>1, <1>2, ResetRowsOfAll
  <1>4. Len(Screen(g)) = l BY <1>1, <1>2, ScreenSeq
  <1>5. Screen(t) = Promise!Blanks(Len(Screen(g))) BY <1>1, <1>3, <1>4, ClearedScreen
  <1>6. Scrolled(t) = <<>>
    <2>1. PICK s : s = Scrolled(t) OBVIOUS
    <2>2. s \in Seq(Rows) /\ Len(s) = 0 BY <1>1, <1>3, <2>1, ScrolledSeq
    <2>3. s = <<>> BY <2>2, EmptySeq
    <2>. QED BY <2>1, <2>3
  <1>7. Promise!Reset BY <1>3, <1>5, <1>6 DEF Promise!Reset, Screen, Scrolled
  <1>. QED BY <1>7 DEF Promise!Next

(* reset_region, *)
LEMMA ResetRegionStep ==
    ASSUME InBounds, InBounds', NEW start \in Lines(grid), NEW end \in 1..grid.lines,
           ResetRegion(start, end)
    PROVE  Promise!Next
  <1>. PICK g, t : g = grid /\ t = grid' OBVIOUS
  <1>1. GridOK(g) /\ GridOK(t) BY DEF InBounds
  <1>2. PICK n \in Nat, h \in Nat : n = g.lines /\ h = history_size(g) BY <1>1, GridFields
  <1>3. start \in Int /\ 0 <= start /\ start < n /\ end \in Int /\ 1 <= end /\ end <= n
    BY <1>2 DEF Lines
  <1>4. /\ t.lines = n /\ t.cursor = g.cursor /\ t.max_scroll_limit = g.max_scroll_limit
        /\ history_size(t) = h
        /\ \A i \in Int : -h <= i /\ i < n =>
               Row(t.raw, i) = IF start <= i /\ i < end THEN Blank ELSE Row(g.raw, i)
    BY <1>2, <1>3, ResetRegionLaw
  <1>5. Scrolled(t) = Scrolled(g)
    <2>1. PICK z \in Int : z = 0 /\ 0 <= z OBVIOUS
    <2>2. Kept(g, t, -h, z, 0)
      <3>. SUFFICES ASSUME NEW i \in Int, -h <= i, i < 0 PROVE Row(t.raw, i) = Row(g.raw, i + 0)
        BY <2>1 DEF Kept
      <3>1. i < n /\ ~(start <= i) /\ i + 0 = i BY <1>2, <1>3
      <3>. QED BY <1>4, <3>1
    <2>3. history_size(t) <= history_size(g) /\ history_size(t) = history_size(g) BY <1>2, <1>4
    <2>. QED BY <1>1, <1>2, <1>4, <2>1, <2>2, <2>3, KeptScrolled
  <1>6. PICK s, y : s = Screen(g) /\ y = Screen(t) OBVIOUS
  <1>7. s \in Seq(Rows) /\ Len(s) = n /\ \A j \in 1..n : s[j] = Row(g.raw, j - 1)
    BY <1>1, <1>2, <1>6, ScreenSeq
  <1>8. y \in Seq(Rows) /\ Len(y) = n /\ \A j \in 1..n : y[j] = Row(t.raw, j - 1)
    BY <1>1, <1>2, <1>4, <1>6, ScreenSeq
  <1>9. PICK x : x = [k \in 1..Len(s) |-> IF start < k /\ k <= end THEN Blank ELSE s[k]] OBVIOUS
  <1>10. x \in Seq(Rows) /\ Len(x) = n
         /\ \A j \in 1..n : x[j] = IF start < j /\ j <= end THEN Blank ELSE s[j]
    <2>1. \A j \in 1..n : s[j] \in Rows BY <1>7, ElementOfSeq
    <2>2. x \in [1..n -> Rows] BY <1>7, <1>9, <2>1, StorageAssumption
    <2>3. x \in Seq(Rows) /\ Len(x) = n BY <2>2, SeqDef
    <2>. QED BY <1>7, <1>9, <2>3
  <1>11. ASSUME NEW j \in 1..n PROVE y[j] = x[j]
    <2>1. PICK i \in Int : /\ i = j - 1 /\ -h <= i /\ i < n
                           /\ start <= i <=> start < j
                           /\ i < end <=> j <= end
      <3>1. /\ -h <= j - 1 /\ j - 1 < n /\ (start <= j - 1 <=> start < j) /\ (j - 1 < end <=> j <= end)
            /\ j - 1 \in Int
        BY <1>2, <1>3
      <3>. QED BY <3>1
    <2>. QED BY <1>4, <1>7, <1>8, <1>10, <2>1
  <1>12. y = x BY <1>8, <1>10, <1>11, SameRows
  <1>13. Screen(t) = [k \in 1..Len(Screen(g)) |->
                        IF start < k /\ k <= end THEN Blank ELSE Screen(g)[k]]
    BY <1>6, <1>9, <1>12
  <1>14. Promise!ResetRegion(start, end)
    BY <1>4, <1>5, <1>13 DEF Promise!ResetRegion, Screen, Scrolled
  <1>15. start \in 0..Len(Screen(grid)) /\ end \in 1..Len(Screen(grid)) BY <1>3, <1>6, <1>7
  <1>. QED BY <1>14, <1>15 DEF Promise!Next, Screen

(* update_history, *)
LEMMA UpdateHistoryStep ==
    ASSUME InBounds, InBounds', NEW size \in 0..MaxScrollLimit, UpdateHistory(size)
    PROVE  Promise!Next
  <1>. PICK g, t : g = grid /\ t = grid' OBVIOUS
  <1>1. GridOK(g) /\ GridOK(t) /\ t = update_history(g, size) BY DEF InBounds, UpdateHistory
  <1>2. size \in Nat BY GridAssumption
  <1>3. PICK h \in Nat, k \in Nat : h = history_size(g) /\ k = history_size(t) BY <1>1, GridFields
  <1>4. /\ t.lines = g.lines /\ t.cursor = g.cursor /\ t.max_scroll_limit = size
        /\ k = MinOf(h, size) /\ Kept(g, t, -k, g.lines, 0)
    BY <1>1, <1>2, <1>3, UpdateHistoryRows
  <1>5. k <= h /\ g.lines \in Int /\ 0 <= g.lines BY <1>1, <1>2, <1>3, <1>4, GridFields DEF MinOf
  <1>6. Screen(t) = Screen(g)
    <2>1. Kept(g, t, 0, g.lines, 0) BY <1>3, <1>4 DEF Kept
    <2>. QED BY <1>1, <1>4, <2>1, KeptScreen
  <1>7. Scrolled(t) = Promise!Latest(Scrolled(g), k)
    <2>1. PICK to \in Int : to = g.lines /\ 0 <= to /\ Kept(g, t, -history_size(t), to, 0)
      BY <1>3, <1>4, <1>5
    <2>2. history_size(t) <= history_size(g) BY <1>3, <1>5
    <2>3. Scrolled(t) = Promise!Latest(Scrolled(g), history_size(t))
      BY <1>1, <2>1, <2>2, KeptScrolled
    <2>. QED BY <1>3, <2>3
  <1>8. Promise!Latest(Scrolled(g), k) = Promise!Latest(Scrolled(g), size)
    <2>1. PICK s : s = Scrolled(g) OBVIOUS
    <2>2. s \in Seq(Rows) /\ Len(s) = h BY <1>1, <1>3, <2>1, ScrolledSeq
    <2>3. Promise!Latest(s, k) = Promise!Latest(s, size)
      <3>1. CASE h <= size
        <4>1. k = h /\ Len(s) <= k /\ Len(s) <= size BY <1>2, <1>4, <2>2, <3>1 DEF MinOf
        <4>. QED BY <4>1 DEF Promise!Latest
      <3>2. CASE ~(h <= size)
        <4>1. k = size BY <1>2, <1>4, <3>2 DEF MinOf
        <4>. QED BY <4>1
      <3>. QED BY <3>1, <3>2
    <2>. QED BY <2>1, <2>3
  <1>9. Promise!UpdateHistory(size)
    BY <1>4, <1>6, <1>7, <1>8 DEF Promise!UpdateHistory, Screen, Scrolled
  <1>. QED BY <1>9 DEF Promise!Next

(* resize to a higher screen *)
LEMMA GrowStep ==
    ASSUME InBounds, InBounds', NEW lines \in 1..MaxLines, grid.lines < lines, Resize(lines)
    PROVE  Promise!Grow(lines)
  <1>. PICK g, t : g = grid /\ t = grid' OBVIOUS
  <1>1. lines \in Nat /\ g.lines < lines BY GridAssumption
  <1>2. GridOK(g) /\ GridOK(t) /\ t = grow_lines(g, lines) BY <1>1 DEF InBounds, Resize, resize
  <1>3. PICK l \in Nat, h \in Nat : l = g.lines /\ h = history_size(g) BY <1>2, GridFields
  <1>4. PICK n \in Nat, m \in Nat : n = MinOf(h, lines - l) /\ m = (lines - l) - n /\ n <= h
    <2>1. /\ MinOf(h, lines - l) \in Nat /\ (lines - l) - MinOf(h, lines - l) \in Nat
          /\ MinOf(h, lines - l) <= h
      BY <1>1, <1>3 DEF MinOf
    <2>. QED BY <2>1
  <1>5. /\ t.lines = lines /\ t.max_scroll_limit = g.max_scroll_limit
        /\ t.cursor = g.cursor + n
        /\ history_size(t) = h - n
        /\ Kept(g, t, -history_size(t), l + n, -n)
        /\ Cleared(t, l + n, lines)
    BY <1>1, <1>2, <1>3, <1>4, GrowRows
  <1>6. Screen(t) = Promise!Latest(Scrolled(g), n) \o Screen(g) \o Promise!Blanks(m)
    <2>1. Kept(g, t, 0, g.lines + n, -n)
      <3>1. history_size(t) \in Nat BY <1>2, GridFields
      <3>. QED BY <1>3, <1>5, <3>1 DEF Kept
    <2>2. t.lines = n + g.lines + m BY <1>1, <1>3, <1>4, <1>5
    <2>3. Cleared(t, g.lines + n, t.lines) BY <1>3, <1>5
    <2>4. GrownBy(g, t, n, m) BY <1>3, <1>4, <2>1, <2>2, <2>3 DEF GrownBy
    <2>. QED BY <1>2, <2>4, GrownScreen
  <1>7. Scrolled(t) = SubSeq(Scrolled(g), 1, Len(Scrolled(g)) - n)
    <2>1. PICK to \in Int : to = l + n /\ 0 <= to /\ Kept(g, t, -history_size(t), to, -n) BY <1>5
    <2>. QED BY <1>2, <1>3, <1>5, <2>1, ShortenedScrolled
  <1>8. Len(Screen(grid)) = l /\ Len(Scrolled(grid)) = h BY <1>2, <1>3, ScreenSeq, ScrolledSeq
  <1>9. Promise!Least(lines - Len(Screen(grid)), Len(Scrolled(grid))) = n
    BY <1>1, <1>3, <1>4, <1>8 DEF Promise!Least, MinOf
  <1>10. lines - Len(Screen(grid)) > 0 /\ (lines - Len(Screen(grid))) - n = m BY <1>1, <1>3, <1>4, <1>8
  <1>. QED BY <1>5, <1>6, <1>7, <1>9, <1>10 DEF Promise!Grow, Screen, Scrolled

(* and to a lower one, *)
LEMMA ShrinkStep ==
    ASSUME InBounds, InBounds', NEW lines \in 1..MaxLines, lines < grid.lines, Resize(lines)
    PROVE  Promise!Shrink(lines)
  <1>. PICK g, t : g = grid /\ t = grid' OBVIOUS
  <1>1. lines \in Nat /\ 1 <= lines /\ lines < g.lines BY GridAssumption
  <1>2. GridOK(g) /\ GridOK(t) BY DEF InBounds
  <1>3. PICK l \in Nat, h \in Nat : l = g.lines /\ h = history_size(g) BY <1>2, GridFields
  <1>4. t = shrink_grid_lines(g, lines) BY <1>1, <1>3 DEF Resize, resize
  <1>5. PICK n \in Nat : n = Required(g, lines) /\ n + lines <= l
    <2>1. Required(g, lines) \in Nat /\ Required(g, lines) + lines <= l
      BY <1>1, <1>2, <1>3, GridFields DEF Required
    <2>. QED BY <2>1
  <1>6. /\ t.lines = lines /\ t.max_scroll_limit = g.max_scroll_limit
        /\ t.cursor = g.cursor - n
        /\ history_size(t) = history_size(g) + MinOf(n, g.max_scroll_limit - history_size(g))
        /\ Kept(g, t, -history_size(t), lines, n)
    BY <1>1, <1>2, <1>4, <1>5, ShrinkRows
  <1>7. Screen(t) = SubSeq(Screen(g), n + 1, n + lines)
    <2>1. Kept(g, t, 0, t.lines, n)
      <3>1. history_size(t) \in Nat BY <1>2, GridFields
      <3>. QED BY <1>6, <3>1 DEF Kept
    <2>2. n + t.lines <= g.lines BY <1>3, <1>5, <1>6
    <2>3. Screen(t) = SubSeq(Screen(g), n + 1, n + t.lines) BY <1>2, <2>1, <2>2, ShrunkScreen
    <2>. QED BY <1>6, <2>3
  <1>8. Scrolled(t) = Promise!Latest(Scrolled(g) \o SubSeq(Screen(g), 1, n), g.max_scroll_limit)
    <2>1. n <= g.lines /\ lines \in Int /\ 0 <= lines BY <1>1, <1>3, <1>5
    <2>. QED BY <1>2, <1>6, <2>1, PushedRows
  <1>9. lines < Len(Screen(grid)) BY <1>1, <1>2, ScreenSeq
  <1>. QED BY <1>5, <1>6, <1>7, <1>8, <1>9
         DEF Promise!Shrink, Promise!Pushed, Required, Screen, Scrolled

(* so to any, *)
LEMMA ResizeStep ==
    ASSUME InBounds, InBounds', NEW lines \in 1..MaxLines, Resize(lines)
    PROVE  [Promise!Next]_(Promise!vars)
  <1>1. grid.lines \in Nat /\ lines \in Nat BY GridFields, GridAssumption DEF InBounds
  <1>2. CASE grid.lines < lines BY <1>2, GrowStep DEF Promise!Next
  <1>3. CASE lines < grid.lines BY <1>3, ShrinkStep DEF Promise!Next
  <1>4. CASE lines = grid.lines
    <2>1. grid' = grid BY <1>4 DEF Resize, resize
    <2>. QED BY <2>1, SameRawStep, StutterStep
  <1>. QED BY <1>1, <1>2, <1>3, <1>4

(* and placing the cursor. *)
LEMMA MoveCursorStep ==
    ASSUME InBounds, NEW line \in Lines(grid), MoveCursor(line)
    PROVE  Promise!Next
  <1>1. /\ grid'.raw = grid.raw /\ grid'.lines = grid.lines
        /\ grid'.max_scroll_limit = grid.max_scroll_limit /\ grid'.cursor = line
    BY OtherFields
  <1>2. Screen(grid') = Screen(grid) /\ Scrolled(grid') = Scrolled(grid) BY <1>1, SameRawStep
  <1>3. Promise!MoveCursor(line) BY <1>1, <1>2 DEF Promise!MoveCursor, Screen, Scrolled
  <1>4. line \in 0 .. Len(Screen(grid)) - 1 BY ScreenSeq DEF InBounds, Lines
  <1>. QED BY <1>3, <1>4 DEF Promise!Next, Screen

(* Every step of the grid is a step of Scrollback or a stutter. *)
LEMMA NextStep ==
    ASSUME InBounds, InBounds', [Next]_grid
    PROVE  [Promise!Next]_(Promise!vars)
  <1>1. ASSUME NEW line \in Lines(grid), NEW row \in Rows, Write(line, row) PROVE Promise!Next
    BY <1>1, WriteStep
  <1>2. CASE Scroll BY <1>2, ScrollStep
  <1>3. CASE ScrollDisplay BY <1>3, ScrollDisplayLaw, SameRawStep, StutterStep
  <1>4. CASE ClearViewport BY <1>4, ClearViewportStep
  <1>5. CASE ClearHistory BY <1>5, ClearHistoryStep
  <1>6. CASE Reset BY <1>6, ResetStep
  <1>7. ASSUME NEW start \in Lines(grid), NEW end \in 1..grid.lines, ResetRegion(start, end)
        PROVE  Promise!Next
    BY <1>7, ResetRegionStep
  <1>8. ASSUME NEW size \in 0..MaxScrollLimit, UpdateHistory(size) PROVE Promise!Next
    BY <1>8, UpdateHistoryStep
  <1>9. ASSUME NEW lines \in 1..MaxLines, Resize(lines) PROVE [Promise!Next]_(Promise!vars)
    BY <1>9, ResizeStep
  <1>10. ASSUME NEW enabled \in BOOLEAN, SetAutoScroll(enabled) PROVE UNCHANGED Promise!vars
    <2>1. /\ grid'.raw = grid.raw /\ grid'.lines = grid.lines /\ grid'.cursor = grid.cursor
          /\ grid'.max_scroll_limit = grid.max_scroll_limit
      BY <1>10, GridFields DEF InBounds, SetAutoScroll, GridType
    <2>. QED BY <2>1, SameRawStep, StutterStep
  <1>11. ASSUME NEW line \in Lines(grid), MoveCursor(line) PROVE Promise!Next
    BY <1>11, MoveCursorStep
  <1>12. ASSUME SaveCursor PROVE UNCHANGED Promise!vars
    <2>1. /\ grid'.raw = grid.raw /\ grid'.lines = grid.lines /\ grid'.cursor = grid.cursor
          /\ grid'.max_scroll_limit = grid.max_scroll_limit
      BY <1>12, GridFields DEF InBounds, SaveCursor, GridType
    <2>. QED BY <2>1, SameRawStep, StutterStep
  <1>13. CASE UNCHANGED grid BY <1>13, SameRawStep, StutterStep
  <1>. QED BY <1>1, <1>2, <1>3, <1>4, <1>5, <1>6, <1>7, <1>8, <1>9, <1>10, <1>11, <1>12, <1>13
         DEF Next

(* The ring buffer, with its zero, its cache of dropped rows, its rotation and its row
   swaps, implements two plain sequences of rows (Storage, Grid): every call has the
   effect on the screen and the scrollback that Scrollback describes, and no dropped
   row becomes visible again. *)
THEOREM RefinesPlainScrollback == Spec => RefinesScrollback
  <1>1. InBounds /\ InBounds' /\ [Next]_grid => [Promise!Next]_(Promise!vars) BY NextStep
  <1>2. Spec => []InBounds BY GridInBounds
  <1>. QED BY <1>1, <1>2, InitStep, PTL DEF Spec, RefinesScrollback, Promise!Spec

=============================================================================
