------------------------------- MODULE Storage -------------------------------
(***************************************************************************)
(* The ring buffer of rows behind a terminal grid                          *)
(* (velacritty_terminal/src/grid/storage.rs).                              *)
(*                                                                         *)
(* A storage is a record of the four fields of `struct Storage`:           *)
(*   inner          the raw vector of rows (slot k of the code is inner    *)
(*                  element k + 1 here),                                   *)
(*   zero           the slot of the bottommost line,                       *)
(*   visible_lines  the number of lines on the screen,                     *)
(*   len            the number of active lines, screen and scrollback.     *)
(* Line 0 is the top of the screen, negative lines are scrollback.  The    *)
(* slots that are not active are a cache of rows that still hold whatever  *)
(* they held when they were dropped.  A row is an opaque value.            *)
(***************************************************************************)
EXTENDS Arith, Sequences

CONSTANTS
    Rows,            \* what a row may hold
    Blank,           \* the row that Row::new and Row::reset produce
    MAX_CACHE_SIZE   \* inactive rows kept before the vector is truncated

ASSUME StorageAssumption ==
    /\ Blank \in Rows
    /\ MAX_CACHE_SIZE \in Nat

BlankRows(n) == [k \in 1..n |-> Blank]

with_capacity(lines) ==
    [inner |-> BlankRows(lines), zero |-> 0, visible_lines |-> lines, len |-> lines]

-----------------------------------------------------------------------------
(* Indexing *)

compute_index(s, requested) ==
    LET positive == s.visible_lines - requested - 1
        zeroed   == s.zero + positive
    IN  IF zeroed >= Len(s.inner) THEN zeroed - Len(s.inner) ELSE zeroed

Row(s, line) == s.inner[compute_index(s, line) + 1]

SetRow(s, line, row) == [s EXCEPT !.inner[compute_index(s, line) + 1] = row]

(* The line held by a slot: the inverse of compute_index. *)
LineAt(s, slot) ==
    LET positive == IF slot >= s.zero THEN slot - s.zero
                                      ELSE slot - s.zero + Len(s.inner)
    IN  s.visible_lines - 1 - positive

(* Write row F(i) to every line i of from..to-1, all reads before all writes. *)
SetRows(s, from, to, F(_)) ==
    [s EXCEPT !.inner = [k \in 1..Len(s.inner) |->
        LET i == LineAt(s, k - 1)
        IN  IF from <= i /\ i < to THEN F(i) ELSE s.inner[k]]]

ResetRows(s, from, to) == SetRows(s, from, to, LAMBDA i : Blank)

(* Faulty variant: the displaced rows are moved as one block. *)
SwapUpwards_AsBlock(s, from, to, by) ==
    IF from >= to \/ by = 0 THEN s
    ELSE SetRows(s, from, to + by, LAMBDA i : Row(s, IF i < to THEN i + by ELSE from + (i - to)))

(* for i in from..to { swap(i, i + by) }: every line of from..to-1 receives
   the row `by` below it, and the `by` rows that were at the top end up,
   in turn, below them. *)
SwapUpwards(s, from, to, by) ==
    IF from >= to \/ by = 0 THEN s
    ELSE SetRows(s, from, to + by, LAMBDA i :
            Row(s, IF i < to THEN i + by ELSE from + ((i - from) % by)))

(* for i in (from..to).rev() { swap(i, i - by) }: the mirror image. *)
SwapDownwards(s, from, to, by) ==
    IF from >= to \/ by = 0 THEN s
    ELSE SetRows(s, from - by, to, LAMBDA i :
            Row(s, IF i >= from THEN i - by
                                ELSE (to - 1) - ((to - 1 - i) % by)))

-----------------------------------------------------------------------------
(* Rotation and length *)

rotate(s, count) ==
    [s EXCEPT !.zero = (s.zero + count + Len(s.inner)) % Len(s.inner)]

rotate_down(s, count) == [s EXCEPT !.zero = (s.zero + count) % Len(s.inner)]

rezero(s) ==
    IF s.zero = 0 THEN s
    ELSE [s EXCEPT !.inner = SubSeq(s.inner, s.zero + 1, Len(s.inner))
                               \o SubSeq(s.inner, 1, s.zero),
                   !.zero = 0]

truncate(s) == [rezero(s) EXCEPT !.inner = SubSeq(rezero(s).inner, 1, s.len)]

shrink_lines(s, shrinkage) ==
    LET t == [s EXCEPT !.len = s.len - shrinkage]
    IN  IF Len(t.inner) > t.len + MAX_CACHE_SIZE THEN truncate(t) ELSE t

(* Rows that are already allocated are handed out as they are. *)
initialize(s, additional) ==
    LET t == IF s.len + additional > Len(s.inner)
             THEN [rezero(s) EXCEPT !.inner =
                     rezero(s).inner \o BlankRows(MaxOf(additional, MAX_CACHE_SIZE))]
             ELSE s
    IN  [t EXCEPT !.len = s.len + additional]

grow_visible_lines(s, next) ==
    [initialize(s, next - s.visible_lines) EXCEPT !.visible_lines = next]

shrink_visible_lines(s, next) ==
    [shrink_lines(s, s.visible_lines - next) EXCEPT !.visible_lines = next]

=============================================================================
