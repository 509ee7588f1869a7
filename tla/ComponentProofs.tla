--------------------------- MODULE ComponentProofs ---------------------------
(***************************************************************************)
(* Three components on their own, for every value of their constants: the  *)
(* occ of a row is a bound on its modified cells, on Windows no output in  *)
(* the pipe is forgotten by the event loop, and the damage of a frame has  *)
(* all that the frame draws differently.                                   *)
(***************************************************************************)
EXTENDS Row, Conpty, MCInterface, SequenceLaws

(* A cell, as a row may hold one: also the default one. *)
Cell == [bg : Backgrounds \cup {Default}, modified : BOOLEAN]
(* Inductive invariant of a row: its type, and what occ means. *)
RowOK(r) ==
    /\ r = [inner |-> r.inner, occ |-> r.occ]
    /\ r.inner \in Seq(Cell) /\ Len(r.inner) \in Nat \ {0}
    /\ r.occ \in 0..Len(r.inner)
    /\ \A i \in 1..Len(r.inner) : r.inner[i].modified => i <= r.occ

(* A row with cells that are modified only up to o. *)
LEMMA RowMade ==
    ASSUME NEW s \in Seq(Cell), NEW n \in Nat \ {0}, Len(s) = n, NEW o \in 0..n,
           \A i \in 1..n : s[i].modified => i <= o
    PROVE  RowOK([inner |-> s, occ |-> o])
  BY DEF RowOK

(* The parts of a row. *)
LEMMA RowParts ==
    ASSUME RowOK(row)
    PROVE  /\ row.inner \in Seq(Cell) /\ Len(row.inner) \in Nat \ {0} /\ row.occ \in 0..Len(row.inner)
           /\ row.inner \in [1..Len(row.inner) -> Cell]
           /\ \A i \in 1..Len(row.inner) : row.inner[i] \in Cell
           /\ \A i \in 1..Len(row.inner) : row.inner[i].modified => i <= row.occ
  <1>1. /\ row.inner \in Seq(Cell) /\ Len(row.inner) \in Nat \ {0} /\ row.occ \in 0..Len(row.inner)
        /\ \A i \in 1..Len(row.inner) : row.inner[i].modified => i <= row.occ
    BY DEF RowOK
  <1>2. row.inner \in [1..Len(row.inner) -> Cell] BY <1>1, LenProperties
  <1>. QED BY <1>1, <1>2

(* A run of blank cells. *)
LEMMA BlankRow ==
    ASSUME NEW n \in Nat, NEW b \in Backgrounds \cup {Default}
    PROVE  /\ Repeated(Blank(b), n) \in Seq(Cell) /\ Len(Repeated(Blank(b), n)) = n
           /\ \A i \in 1..n : ~Repeated(Blank(b), n)[i].modified
  <1>0. Blank(b) \in Cell /\ ~Blank(b).modified BY DEF Cell, Blank
  <1>1. PICK c \in Cell : c = Blank(b) /\ ~c.modified BY <1>0
  <1>2. PICK s : s = Repeated(c, n) OBVIOUS
  <1>3. s \in [1..n -> Cell] BY <1>2 DEF Repeated
  <1>4. s \in Seq(Cell) /\ Len(s) = n
    <2>. HIDE DEF Cell
    <2>. QED BY <1>3
  <1>5. \A i \in 1..n : s[i] = c BY <1>2 DEF Repeated
  <1>. QED BY <1>1, <1>2, <1>4, <1>5, Zenon

(* A new row is blank. *)
LEMMA RowStart == ASSUME MaxColumns \in Nat, RowInit PROVE RowOK(row)
  <1>1. PICK n \in 1..MaxColumns : row = NewRow(n) BY DEF RowInit
  <1>2. PICK s : s = Repeated(Blank(Default), n) OBVIOUS
  <1>3. s \in Seq(Cell) /\ Len(s) = n /\ \A i \in 1..n : ~s[i].modified
    BY <1>2, BlankRow
  <1>4. row = [inner |-> s, occ |-> 0] BY <1>1, <1>2 DEF NewRow
  <1>5. RowOK([inner |-> s, occ |-> 0]) BY <1>3, RowMade
  <1>. QED BY <1>4, <1>5

(* One cell is written, and occ is at least its position. *)
LEMMA OneWritten ==
    ASSUME RowOK(row), NEW i \in 1..Length, NEW bg \in Backgrounds, NEW o \in 0..Length,
           row.occ <= o, i <= o,
           row' = [inner |-> [row.inner EXCEPT ![i] = [bg |-> bg, modified |-> TRUE]], occ |-> o]
    PROVE  RowOK(row')
  <1>1. /\ row.inner \in Seq(Cell) /\ Len(row.inner) \in Nat \ {0} /\ row.occ \in 0..Len(row.inner)
        /\ \A j \in 1..Len(row.inner) : row.inner[j].modified => j <= row.occ
    BY RowParts
  <1>2. PICK n \in Nat \ {0} : n = Len(row.inner) BY <1>1
  <1>3. PICK c \in Cell : c = [bg |-> bg, modified |-> TRUE] BY DEF Cell
  <1>4. PICK s : s = [row.inner EXCEPT ![i] = c] OBVIOUS
  <1>5. s \in Seq(Cell) /\ Len(s) = n /\ \A j \in 1..n : s[j] = IF j = i THEN c ELSE row.inner[j]
    <2>. HIDE DEF Cell
    <2>. QED BY <1>1, <1>2, <1>4, ExceptSeq DEF Length
  <1>6. \A j \in 1..n : s[j].modified => j <= o BY <1>1, <1>2, <1>5
  <1>7. o \in 0..n BY <1>2 DEF Length
  <1>8. RowOK([inner |-> s, occ |-> o]) BY <1>5, <1>6, <1>7, RowMade
  <1>9. row' = [inner |-> s, occ |-> o] BY <1>3, <1>4, Zenon
  <1>. QED BY <1>8, <1>9

(* IndexMut. *)
LEMMA CellWritten ==
    ASSUME RowOK(row), NEW i \in 1..Length, NEW bg \in Backgrounds, WriteCell(i, bg)
    PROVE  RowOK(row')
  <1>1. PICK o : o = IF row.occ > i THEN row.occ ELSE i OBVIOUS
  <1>2. o \in 0..Length /\ row.occ <= o /\ i <= o BY <1>1, RowParts DEF Length
  <1>3. row' = [inner |-> [row.inner EXCEPT ![i] = [bg |-> bg, modified |-> TRUE]], occ |-> o]
    BY <1>1, Zenon DEF WriteCell
  <1>. QED BY <1>2, <1>3, OneWritten

(* last_mut and the mutable iterator. *)
LEMMA LastWritten ==
    ASSUME RowOK(row), NEW bg \in Backgrounds, WriteLast(bg)
    PROVE  RowOK(row')
  <1>1. Length \in 1..Length /\ Length \in 0..Length /\ row.occ <= Length BY RowParts DEF Length
  <1>2. PICK i \in 1..Length : i = Length BY <1>1
  <1>3. row' = [inner |-> [row.inner EXCEPT ![i] = [bg |-> bg, modified |-> TRUE]], occ |-> i]
    BY <1>2, Zenon DEF WriteLast
  <1>4. i \in 0..Length /\ row.occ <= i /\ i <= i BY <1>1, <1>2
  <1>. QED BY <1>3, <1>4, OneWritten

(* Row::reset: the cells past occ are not modified, whether they are touched or not. *)
LEMMA RowReset ==
    ASSUME RowOK(row), NEW bg \in Backgrounds, Reset(bg)
    PROVE  RowOK(row')
  <1>1. /\ row.inner \in Seq(Cell) /\ Len(row.inner) \in Nat \ {0} /\ row.occ \in 0..Len(row.inner)
        /\ \A j \in 1..Len(row.inner) : row.inner[j] \in Cell
        /\ \A j \in 1..Len(row.inner) : row.inner[j].modified => j <= row.occ
    BY RowParts
  <1>2. PICK n \in Nat \ {0} : n = Len(row.inner) BY <1>1
  <1>3. PICK o : o = IF row.inner[Length].bg # bg THEN Length ELSE row.occ OBVIOUS
  <1>4. PICK s : s = [i \in 1..n |-> IF i <= o THEN Blank(bg)
                                     ELSE [row.inner[i] EXCEPT !.modified = FALSE]] OBVIOUS
  <1>5. ASSUME NEW i \in 1..n PROVE s[i] \in Cell /\ ~s[i].modified
    <2>1. CASE i <= o
      <3>1. s[i] = Blank(bg) BY <1>4, <2>1
      <3>. QED BY <3>1 DEF Blank, Cell
    <2>2. CASE ~(i <= o)
      <3>1. s[i] = [row.inner[i] EXCEPT !.modified = FALSE] BY <1>4, <2>2
      <3>2. row.inner[i] \in Cell BY <1>1, <1>2
      <3>. QED BY <3>1, <3>2 DEF Cell
    <2>. QED BY <2>1, <2>2
  <1>6. s \in [1..n -> Cell] BY <1>4, <1>5
  <1>7. s \in Seq(Cell) /\ Len(s) = n
    <2>. HIDE DEF Cell
    <2>. QED BY <1>6
  <1>8. row' = [inner |-> s, occ |-> 0] BY <1>2, <1>3, <1>4 DEF Reset, Length
  <1>9. RowOK([inner |-> s, occ |-> 0]) BY <1>5, <1>7, RowMade
  <1>. QED BY <1>8, <1>9

(* The elements of two sequences one behind the other. *)
LEMMA Joined ==
    \A a, b \in Seq(Cell) : \A m, n \in Nat : \A s :
      m = Len(a) /\ n = Len(b) /\ s = a \o b
        => /\ s \in Seq(Cell) /\ Len(s) = m + n
           /\ \A i \in 1..(m + n) : s[i] = IF i <= m THEN a[i] ELSE b[i - m]
  <1>. HIDE DEF Cell
  <1>. QED BY ConcatProperties

(* Row::grow adds unmodified cells at the end. *)
LEMMA RowGrown ==
    ASSUME RowOK(row), NEW columns \in Nat, Grow(columns)
    PROVE  RowOK(row')
  <1>1. /\ row.inner \in Seq(Cell) /\ Len(row.inner) \in Nat \ {0} /\ row.occ \in 0..Len(row.inner)
        /\ \A j \in 1..Len(row.inner) : row.inner[j].modified => j <= row.occ
    BY RowParts
  <1>2. PICK n \in Nat \ {0} : n = Len(row.inner) BY <1>1
  <1>3. PICK k \in Nat : k = columns - n BY <1>2 DEF Grow, Length
  <1>4. PICK b : b = Repeated(Blank(Default), k) OBVIOUS
  <1>5. b \in Seq(Cell) /\ Len(b) = k /\ \A i \in 1..k : ~b[i].modified BY <1>4, BlankRow
  <1>6. PICK s : s = row.inner \o b OBVIOUS
  <1>7. /\ s \in Seq(Cell) /\ Len(s) = n + k
        /\ \A i \in 1..(n + k) : s[i] = IF i <= n THEN row.inner[i] ELSE b[i - n]
    <2>1. PICK t \in Seq(Cell) : t = row.inner BY <1>1
    <2>2. s = t \o b BY <1>6, <2>1, Zenon
    <2>3. n = Len(t) BY <1>2, <2>1
    <2>4. n \in Nat BY <1>2
    <2>. HIDE DEF Cell
    <2>5. t \in Seq(Cell) /\ b \in Seq(Cell) /\ n \in Nat /\ k \in Nat BY <1>2, <1>3, <1>5
    <2>6. k = Len(b) BY <1>5
    <2>7. /\ s \in Seq(Cell) /\ Len(s) = n + k
          /\ \A i \in 1..(n + k) : s[i] = IF i <= n THEN t[i] ELSE b[i - n]
      BY ONLY <2>2, <2>3, <2>5, <2>6, Joined
    <2>. QED BY <2>1, <2>7, Zenon
  <1>8. ASSUME NEW i \in 1..(n + k), s[i].modified PROVE i <= row.occ
    <2>1. CASE i <= n BY <1>1, <1>2, <1>7, <1>8, <2>1
    <2>2. CASE ~(i <= n)
      <3>1. i - n \in 1..k BY <2>2
      <3>. QED BY <1>5, <1>7, <1>8, <2>2, <3>1
    <2>. QED BY <2>1, <2>2
  <1>9. row' = [row EXCEPT !.inner = s] BY <1>2, <1>3, <1>4, <1>6 DEF Grow, Length
  <1>10. row' = [inner |-> s, occ |-> row.occ] BY <1>9 DEF RowOK
  <1>11. n + k \in Nat \ {0} /\ row.occ \in 0..(n + k) BY <1>1, <1>2
  <1>12. RowOK([inner |-> s, occ |-> row.occ]) BY <1>7, <1>8, <1>11, RowMade
  <1>. QED BY <1>10, <1>12

(* The cells m+1 to n of a row, with occ moved along. *)
LEMMA RowCut ==
    ASSUME RowOK(row), NEW m \in Nat, NEW n \in Nat, m < n, n <= Length, NEW o \in 0..(n - m),
           o = IF row.occ > m THEN (IF row.occ < n THEN row.occ ELSE n) - m ELSE 0,
           row' = [inner |-> SubSeq(row.inner, m + 1, n), occ |-> o]
    PROVE  RowOK(row')
  <1>1. /\ row.inner \in Seq(Cell) /\ Len(row.inner) \in Nat \ {0} /\ row.occ \in 0..Len(row.inner)
        /\ \A j \in 1..Len(row.inner) : row.inner[j] \in Cell
        /\ \A j \in 1..Len(row.inner) : row.inner[j].modified => j <= row.occ
    BY RowParts
  <1>2. PICK t, s : t = row.inner /\ s = SubSeq(t, m + 1, n) OBVIOUS
  <1>3. PICK a \in Int, k \in Nat \ {0} : a = m + 1 /\ k = n - m OBVIOUS
  <1>4. \A i \in a..n : t[i] \in Cell /\ (t[i].modified => i <= row.occ)
    BY <1>1, <1>2, <1>3 DEF Length
  <1>5. s \in Seq(Cell) /\ Len(s) = k /\ \A i \in 1..k : s[i] = t[m + i]
    <2>1. n \in Int /\ \A i \in a..n : t[i] \in Cell BY <1>4
    <2>2. s = SubSeq(t, a, n) BY <1>2, <1>3
    <2>3. /\ s \in Seq(Cell) /\ Len(s) = (IF a <= n THEN n - a + 1 ELSE 0)
          /\ \A i \in 1..(n - a + 1) : s[i] = t[a + i - 1]
      BY ONLY <2>1, <2>2, a \in Int, SubSeqProperties
    <2>4. a <= n /\ n - a + 1 = k /\ \A i \in 1..k : a + i - 1 = m + i BY <1>3
    <2>. HIDE DEF Cell
    <2>. QED BY <2>3, <2>4
  <1>6. ASSUME NEW i \in 1..k, s[i].modified PROVE i <= o
    <2>1. m + i \in a..n BY <1>3
    <2>2. t[m + i].modified BY <1>5, <1>6
    <2>3. m + i <= row.occ BY <1>4, <2>1, <2>2
    <2>. QED BY <1>1, <1>3, <2>1, <2>3 DEF Length
  <1>7. o \in 0..k BY <1>3
  <1>8. RowOK([inner |-> s, occ |-> o]) BY <1>5, <1>6, <1>7, RowMade
  <1>. QED BY <1>2, <1>8

(* Row::shrink. *)
LEMMA RowShrunk ==
    ASSUME RowOK(row), NEW columns \in Nat \ {0}, Shrink(columns)
    PROVE  RowOK(row')
  <1>1. PICK o : o = IF row.occ < columns THEN row.occ ELSE columns OBVIOUS
  <1>2. row.occ \in Nat /\ Length \in Nat BY RowParts DEF Length
  <1>3. /\ o \in 0..(columns - 0) /\ 0 < columns /\ columns <= Length /\ 0 + 1 = 1
        /\ o = IF row.occ > 0 THEN (IF row.occ < columns THEN row.occ ELSE columns) - 0 ELSE 0
    BY <1>1, <1>2 DEF Shrink
  <1>4. row' = [inner |-> SubSeq(row.inner, 0 + 1, columns), occ |-> o] BY <1>1, <1>3 DEF Shrink
  <1>. QED BY <1>3, <1>4, RowCut

(* Row::front_split_off. *)
LEMMA RowSplit ==
    ASSUME RowOK(row), NEW at \in Nat, FrontSplitOff(at)
    PROVE  RowOK(row')
  <1>1. PICK o : o = IF row.occ > at THEN row.occ - at ELSE 0 OBVIOUS
  <1>2. row.occ \in 0..Length /\ Length \in Nat BY RowParts DEF Length
  <1>3. /\ o \in 0..(Length - at) /\ at < Length /\ Length <= Length
        /\ o = IF row.occ > at THEN (IF row.occ < Length THEN row.occ ELSE Length) - at ELSE 0
    BY <1>1, <1>2 DEF FrontSplitOff
  <1>4. row' = [inner |-> SubSeq(row.inner, at + 1, Length), occ |-> o] BY <1>1 DEF FrontSplitOff
  <1>. QED BY <1>2, <1>3, <1>4, RowCut

(* Row::append: all of the row was written, since its last cell was. *)
LEMMA RowAppended ==
    ASSUME RowOK(row), NEW cell \in RowCells, AppendCells(<<cell>>)
    PROVE  RowOK(row')
  <1>1. /\ row.inner \in Seq(Cell) /\ Len(row.inner) \in Nat \ {0} /\ row.occ \in 0..Len(row.inner)
        /\ \A j \in 1..Len(row.inner) : row.inner[j].modified => j <= row.occ
    BY RowParts
  <1>2. PICK n \in Nat \ {0} : n = Len(row.inner) BY <1>1
  <1>3. row.occ = n BY <1>1, <1>2 DEF AppendCells, Length
  <1>4. PICK b : b = <<cell>> OBVIOUS
  <1>5. b \in Seq(Cell) /\ Len(b) = 1
    <2>1. cell \in Cell BY DEF RowCells, Cell
    <2>. HIDE DEF Cell, RowCells
    <2>. QED BY <1>4, <2>1
  <1>6. PICK s : s = row.inner \o b OBVIOUS
  <1>7. s \in Seq(Cell) /\ Len(s) = n + 1
    <2>1. PICK t \in Seq(Cell) : t = row.inner BY <1>1
    <2>2. s = t \o b BY <1>6, <2>1, Zenon
    <2>3. n = Len(t) BY <1>2, <2>1
    <2>4. n \in Nat BY <1>2
    <2>0. PICK m \in Nat : m = 1 OBVIOUS
    <2>. HIDE DEF Cell
    <2>5. t \in Seq(Cell) /\ b \in Seq(Cell) /\ m \in Nat BY <1>5
    <2>6. m = Len(b) BY <1>5, <2>0
    <2>7. s \in Seq(Cell) /\ Len(s) = n + m
      BY ONLY <2>2, <2>3, <2>4, <2>5, <2>6, Joined
    <2>. QED BY <2>0, <2>7
  <1>8. row' = [inner |-> s, occ |-> n + 1] BY <1>3, <1>4, <1>5, <1>6 DEF AppendCells
  <1>9. n + 1 \in Nat \ {0} /\ n + 1 \in 0..(n + 1) /\ \A i \in 1..(n + 1) : i <= n + 1 OBVIOUS
  <1>10. RowOK([inner |-> s, occ |-> n + 1]) BY <1>7, <1>9, RowMade
  <1>. QED BY <1>8, <1>10

(* Row::append_front. *)
LEMMA RowPrepended ==
    ASSUME RowOK(row), NEW cell \in RowCells, AppendFront(<<cell>>)
    PROVE  RowOK(row')
  <1>1. /\ row.inner \in Seq(Cell) /\ Len(row.inner) \in Nat \ {0} /\ row.occ \in 0..Len(row.inner)
        /\ \A j \in 1..Len(row.inner) : row.inner[j].modified => j <= row.occ
    BY RowParts
  <1>2. PICK n \in Nat \ {0} : n = Len(row.inner) BY <1>1
  <1>4. PICK b : b = <<cell>> OBVIOUS
  <1>5. b \in Seq(Cell) /\ Len(b) = 1
    <2>1. cell \in Cell BY DEF RowCells, Cell
    <2>. HIDE DEF Cell, RowCells
    <2>. QED BY <1>4, <2>1
  <1>6. PICK s : s = b \o row.inner OBVIOUS
  <1>7. /\ s \in Seq(Cell) /\ Len(s) = 1 + n
        /\ \A i \in 1..(1 + n) : s[i] = IF i <= 1 THEN b[i] ELSE row.inner[i - 1]
    <2>1. PICK t \in Seq(Cell) : t = row.inner BY <1>1
    <2>2. s = b \o t BY <1>6, <2>1, Zenon
    <2>3. n = Len(t) BY <1>2, <2>1
    <2>4. n \in Nat BY <1>2
    <2>0. PICK m \in Nat : m = 1 OBVIOUS
    <2>. HIDE DEF Cell
    <2>5. t \in Seq(Cell) /\ b \in Seq(Cell) /\ m \in Nat BY <1>5
    <2>6. m = Len(b) BY <1>5, <2>0
    <2>7. /\ s \in Seq(Cell) /\ Len(s) = m + n
          /\ \A i \in 1..(m + n) : s[i] = IF i <= m THEN b[i] ELSE t[i - m]
      BY ONLY <2>2, <2>3, <2>4, <2>5, <2>6, Joined
    <2>. QED BY <2>0, <2>1, <2>7, Zenon
  <1>8. PICK o : o = row.occ + 1 OBVIOUS
  <1>9. row' = [inner |-> s, occ |-> o] BY <1>4, <1>5, <1>6, <1>8 DEF AppendFront
  <1>10. ASSUME NEW i \in 1..(1 + n), s[i].modified PROVE i <= o
    <2>1. CASE i <= 1 BY <1>1, <1>8, <2>1
    <2>2. CASE ~(i <= 1)
      <3>1. i - 1 \in 1..n BY <2>2
      <3>2. s[i] = row.inner[i - 1] BY <1>7, <2>2
      <3>3. row.inner[i - 1].modified BY <1>10, <3>2, Zenon
      <3>4. i - 1 <= row.occ BY <1>1, <1>2, <3>1, <3>3
      <3>. QED BY <1>1, <1>8, <2>2, <3>4
    <2>. QED BY <2>1, <2>2
  <1>11. 1 + n \in Nat \ {0} /\ o \in 0..(1 + n) BY <1>1, <1>2, <1>8
  <1>12. RowOK([inner |-> s, occ |-> o]) BY <1>7, <1>10, <1>11, RowMade
  <1>. QED BY <1>9, <1>12

(* OccBoundsModified holds in every reachable state: Row::reset, which skips the cells
   past occ, never skips a modified one, for rows of any length and cells of any
   background. *)
THEOREM OccIsABound == RowInit /\ [][RowNext]_row => []OccBoundsModified
  <1>1. RowInit => RowOK(row) BY RowStart, RowAssumption
  <1>2. RowOK(row) /\ [RowNext]_row => RowOK(row)'
    <2>. SUFFICES ASSUME RowOK(row), RowNext PROVE RowOK(row')
      BY DEF RowOK
    <2>1. 1..MaxColumns \subseteq Nat \ {0} BY RowAssumption
    <2>. QED
      BY <2>1, CellWritten, LastWritten, RowReset, RowGrown, RowShrunk, RowAppended, RowPrepended,
         RowSplit, Zenon
      DEF RowNext
  <1>3. RowOK(row) => OccBoundsModified
    BY RowParts DEF OccBoundsModified, Length
  <1>. QED BY <1>1, <1>2, <1>3, PTL

(* The types of what the poller and the registrations hold. *)
PacketType == [key : {"read_write", "child"}, readable : BOOLEAN, writable : BOOLEAN]
InterestType == {NoInterest} \cup {Interest(w) : w \in BOOLEAN}

(* The types of the two pipes and of the event loop. *)
ConoutType == [bytes : Nat, closed : BOOLEAN, waker : BOOLEAN, interest : InterestType, first : BOOLEAN]
ConinType == [bytes : 0..PIPE_CAPACITY, waker : BOOLEAN, interest : InterestType]
LoopType ==
    [pc : {"register_in", "register_out", "wait", "event", "read", "write", "ended"},
     events : Seq(PacketType), queue : Nat, writable : BOOLEAN,
     unprocessed : 0..(PIPE_CAPACITY - 1), processed : Nat, limited : BOOLEAN, filled : BOOLEAN]

(* Type invariant of the console, as far as the announcements depend on it. *)
ConptyTypeOK ==
    /\ conout \in ConoutType
    /\ conin \in ConinType
    /\ readerThread \in {"read", "wake", "last_wake", "done"}
    /\ packets \in Seq(PacketType)
    /\ eventLoop \in LoopType
    /\ console.channel \in Nat
    /\ eventLoop.pc \in {"read", "write"} => eventLoop.events # <<>>

(* Every packet of a registration asks for reading, and there is such a packet. *)
Readable(s) == \A i \in 1..Len(s) : s[i].key = "read_write" => s[i].readable
Posts(s) == \E i \in 1..Len(s) : s[i].key = "read_write"

(* The event loop is reading, or will read on account of a packet it has got or will
   get. *)
Served ==
    \/ eventLoop.pc \in {"read", "ended"}
    \/ Posts(packets)
    \/ eventLoop.pc = "event" /\ Posts(eventLoop.events)
    \/ eventLoop.pc = "write" /\ Posts(Tail(eventLoop.events))

(* The interest is being registered; RegisterOut looks at the pipe. *)
Registering == eventLoop.pc \in {"register_in", "register_out"}

(* Inductive invariant: as long as the last pty_read found the pipe empty, output that
   comes later is announced, by a packet, by the registration under way, or by the
   waker that pty_read left in the pipe and the reader thread is about to call. *)
AnnounceInv ==
    /\ Readable(packets) /\ Readable(eventLoop.events)
    /\ conout.closed <=> readerThread \in {"last_wake", "done"}
    /\ conout.first => Registering
    /\ conout.first \/ eventLoop.pc = "ended" \/ conout.interest.some
    /\ eventLoop.limited \/ Served \/ conout.first \/ conout.waker \/ conout.closed
    /\ \/ eventLoop.limited \/ conout.bytes = 0 \/ Served \/ Registering
       \/ conout.waker /\ readerThread = "wake"

(* The whole of it. *)
ConptyInv == ConptyTypeOK /\ AnnounceInv

(* A packet is posted. *)
LEMMA AppendedPacket ==
    ASSUME NEW s \in Seq(PacketType), NEW p \in PacketType
    PROVE  /\ Append(s, p) \in Seq(PacketType)
           /\ Readable(s) /\ (p.key = "read_write" => p.readable) => Readable(Append(s, p))
           /\ Posts(s) \/ p.key = "read_write" => Posts(Append(s, p))
  <1>1. PICK t : t = Append(s, p) OBVIOUS
  <1>2. PICK n \in Nat : n = Len(s) OBVIOUS
  <1>3. /\ t \in Seq(PacketType) /\ Len(t) = n + 1 /\ t[n + 1] = p
        /\ \A i \in 1..n : t[i] = s[i]
    <2>. HIDE DEF PacketType
    <2>. QED BY <1>1, <1>2, AppendProperties
  <1>4. Readable(s) /\ (p.key = "read_write" => p.readable) => Readable(t)
    <2>. SUFFICES ASSUME Readable(s), p.key = "read_write" => p.readable, NEW i \in 1..(n + 1)
                  PROVE  t[i].key = "read_write" => t[i].readable
      BY <1>3 DEF Readable
    <2>1. CASE i = n + 1 BY <1>3, <2>1
    <2>2. CASE i \in 1..n BY <1>2, <1>3, <2>2 DEF Readable
    <2>. QED BY <2>1, <2>2
  <1>5. Posts(s) \/ p.key = "read_write" => Posts(t)
    <2>1. ASSUME Posts(s) PROVE Posts(t)
      <3>1. PICK i \in 1..n : s[i].key = "read_write" BY <1>2, <2>1 DEF Posts
      <3>2. i \in 1..(n + 1) /\ t[i].key = "read_write" BY <1>3, <3>1
      <3>. QED BY <1>3, <3>2 DEF Posts
    <2>2. ASSUME p.key = "read_write" PROVE Posts(t)
      <3>1. n + 1 \in 1..(n + 1) OBVIOUS
      <3>. QED BY <1>3, <2>2, <3>1 DEF Posts
    <2>. QED BY <2>1, <2>2
  <1>. QED BY <1>1, <1>3, <1>4, <1>5

(* A packet is handled. *)
LEMMA HandledPacket ==
    ASSUME NEW s \in Seq(PacketType), s # <<>>
    PROVE  /\ Tail(s) \in Seq(PacketType) /\ Head(s) \in PacketType
           /\ Readable(s) => Readable(Tail(s))
           /\ Readable(s) /\ Head(s).key = "read_write" => Head(s).readable
           /\ Posts(s) /\ Head(s).key # "read_write" => Posts(Tail(s))
  <1>1. PICK t : t = Tail(s) OBVIOUS
  <1>2. PICK n \in Nat \ {0} : n = Len(s) BY EmptySeq
  <1>3. /\ t \in Seq(PacketType) /\ Len(t) = n - 1 /\ Head(s) = s[1] /\ s[1] \in PacketType
        /\ \A i \in 1..(n - 1) : t[i] = s[i + 1]
    <2>. HIDE DEF PacketType
    <2>. QED BY <1>1, <1>2, HeadTailProperties
  <1>4. Readable(s) => Readable(t)
    <2>. SUFFICES ASSUME Readable(s), NEW i \in 1..(n - 1)
                  PROVE  t[i].key = "read_write" => t[i].readable
      BY <1>3 DEF Readable
    <2>1. i + 1 \in 1..n OBVIOUS
    <2>. QED BY <1>2, <1>3, <2>1 DEF Readable
  <1>5. Readable(s) /\ Head(s).key = "read_write" => Head(s).readable BY <1>2, <1>3 DEF Readable
  <1>6. ASSUME Posts(s), Head(s).key # "read_write" PROVE Posts(t)
    <2>1. PICK i \in 1..n : s[i].key = "read_write" BY <1>2, <1>6 DEF Posts
    <2>2. i # 1 BY <1>3, <1>6, <2>1
    <2>3. i - 1 \in 1..(n - 1) /\ (i - 1) + 1 = i BY <2>2
    <2>4. t[i - 1] = s[i] BY <1>3, <2>3
    <2>. QED BY <1>3, <2>1, <2>3, <2>4 DEF Posts
  <1>. QED BY <1>1, <1>3, <1>4, <1>5, <1>6

(* No packets. *)
LEMMA NoPackets == <<>> \in Seq(PacketType) /\ Readable(<<>>) /\ ~Posts(<<>>)
  <1>1. <<>> \in Seq(PacketType)
    <2>. HIDE DEF PacketType
    <2>. QED OBVIOUS
  <1>2. Len(<<>>) = 0 OBVIOUS
  <1>. QED BY <1>1, <1>2 DEF Readable, Posts

(* Packets were added at most. *)
Grown(q) ==
    /\ q \in Seq(PacketType)
    /\ Readable(packets) => Readable(q)
    /\ Posts(packets) => Posts(q)

(* The packet of a registration asks for reading. *)
LEMMA InterestPacket ==
    ASSUME NEW interest \in InterestType, NEW q \in Seq(PacketType), interest.some
    PROVE  /\ Packet("read_write", interest) \in PacketType
           /\ Packet("read_write", interest).key = "read_write"
           /\ Packet("read_write", interest).readable /\ interest.readable
  <1>1. interest # NoInterest BY DEF NoInterest
  <1>2. PICK w \in BOOLEAN : interest = Interest(w) BY <1>1 DEF InterestType
  <1>3. interest.readable /\ interest.writable = w BY <1>2 DEF Interest
  <1>4. PICK p : p = [key |-> "read_write", readable |-> interest.readable, writable |-> w] OBVIOUS
  <1>5. p \in PacketType /\ p.key = "read_write" /\ p.readable BY <1>3, <1>4 DEF PacketType
  <1>6. p = Packet("read_write", interest) BY <1>3, <1>4, Zenon DEF Packet
  <1>. QED BY <1>3, <1>5, <1>6

(* Registration::wake_by_ref posts a packet if there is an interest. *)
LEMMA WokenPackets ==
    ASSUME packets \in Seq(PacketType), NEW interest \in InterestType, NEW wanted \in BOOLEAN
    PROVE  /\ Grown(Woken(interest, wanted))
           /\ interest.some /\ wanted => Posts(Woken(interest, wanted))
  <1>1. CASE interest.some /\ wanted
    <2>1. PICK p \in PacketType : p = Packet("read_write", interest) /\ p.key = "read_write" /\ p.readable
      BY <1>1, InterestPacket
    <2>2. Woken(interest, wanted) = Append(packets, p) BY <1>1, <2>1 DEF Woken
    <2>. HIDE DEF PacketType
    <2>. QED BY <1>1, <2>1, <2>2, AppendedPacket DEF Grown
  <1>2. CASE ~(interest.some /\ wanted)
    <2>1. Woken(interest, wanted) = packets BY <1>2 DEF Woken
    <2>. QED BY <1>2, <2>1 DEF Grown
  <1>. QED BY <1>1, <1>2

(* Pty::register posts a packet. *)
LEMMA RegisteredPacket ==
    ASSUME packets \in Seq(PacketType), NEW w \in BOOLEAN
    PROVE  /\ Interest(w) \in InterestType /\ Interest(w).some
           /\ Grown(Append(packets, Packet("read_write", Interest(w))))
           /\ Posts(Append(packets, Packet("read_write", Interest(w))))
           /\ Grown(Append(packets, Packet("child", Interest(w))))
  <1>1. Interest(w) \in InterestType /\ Interest(w).some BY DEF Interest, InterestType
  <1>2. PICK p \in PacketType : p = Packet("read_write", Interest(w)) /\ p.key = "read_write" /\ p.readable
    BY <1>1, InterestPacket
  <1>3. PICK c \in PacketType : c = Packet("child", Interest(w)) /\ c.key # "read_write"
    <2>1. Interest(w).readable /\ Interest(w).writable = w BY DEF Interest
    <2>2. PICK c : c = [key |-> "child", readable |-> Interest(w).readable, writable |-> w] OBVIOUS
    <2>3. c \in PacketType /\ c.key # "read_write" BY <2>1, <2>2 DEF PacketType
    <2>4. c = Packet("child", Interest(w)) BY <2>1, <2>2, Zenon DEF Packet
    <2>. QED BY <2>3, <2>4
  <1>. HIDE DEF PacketType
  <1>. QED BY <1>1, <1>2, <1>3, AppendedPacket DEF Grown

(* The fields of the two pipes. *)
LEMMA ConoutFields ==
    ASSUME ConptyTypeOK
    PROVE  /\ conout.bytes \in Nat /\ conout.closed \in BOOLEAN /\ conout.waker \in BOOLEAN
           /\ conout.interest \in InterestType /\ conout.first \in BOOLEAN
           /\ conin.bytes \in 0..PIPE_CAPACITY /\ conin.waker \in BOOLEAN /\ conin.interest \in InterestType
  <1>. HIDE DEF InterestType
  <1>. QED BY DEF ConptyTypeOK, ConoutType, ConinType

(* The fields of the event loop. *)
LEMMA LoopFields ==
    ASSUME ConptyTypeOK
    PROVE  /\ eventLoop.pc \in {"register_in", "register_out", "wait", "event", "read", "write", "ended"}
           /\ eventLoop.events \in Seq(PacketType) /\ eventLoop.queue \in Nat
           /\ eventLoop.writable \in BOOLEAN /\ eventLoop.unprocessed \in 0..(PIPE_CAPACITY - 1)
           /\ eventLoop.processed \in Nat /\ eventLoop.limited \in BOOLEAN
           /\ eventLoop.filled \in BOOLEAN
  <1>. HIDE DEF PacketType
  <1>. QED BY DEF ConptyTypeOK, LoopType

(* An interest, if there is one, is in reading. *)
LEMMA InterestFields ==
    ASSUME NEW interest \in InterestType
    PROVE  /\ interest.some \in BOOLEAN /\ interest.readable \in BOOLEAN /\ interest.writable \in BOOLEAN
           /\ interest.some => interest.readable
  <1>1. CASE interest = NoInterest BY <1>1 DEF NoInterest
  <1>2. ASSUME NEW w \in BOOLEAN, interest = Interest(w)
        PROVE  /\ interest.some \in BOOLEAN /\ interest.readable \in BOOLEAN
               /\ interest.writable \in BOOLEAN /\ interest.readable
    BY <1>2 DEF Interest
  <1>. QED BY <1>1, <1>2 DEF InterestType

(* The reader thread fills the pipe: the waker is still in it, or the loop is served. *)
LEMMA FillKeeps == ASSUME ConptyInv, Fill PROVE ConptyInv'
  <1>. HIDE DEF InterestType, LoopType, PacketType, Readable, Posts, ConinType
  <1>1. PICK n \in 1..console.output : conout' = [conout EXCEPT !.bytes = @ + n]
                                      /\ console' = [console EXCEPT !.output = @ - n]
    BY DEF Fill
  <1>2. conout.bytes \in Nat /\ conout \in ConoutType BY ConoutFields DEF ConptyInv, ConptyTypeOK
  <1>3. conout' \in ConoutType /\ conout'.waker = conout.waker /\ conout'.closed = conout.closed
        /\ conout'.first = conout.first /\ conout'.interest = conout.interest
    BY <1>1, <1>2 DEF ConoutType
  <1>4. console'.channel = console.channel BY <1>1
  <1>5. ConptyTypeOK' BY <1>3, <1>4 DEF Fill, ConptyInv, ConptyTypeOK
  <1>6. AnnounceInv' BY <1>3 DEF Fill, ConptyInv, AnnounceInv, Registering, Served
  <1>. QED BY <1>5, <1>6 DEF ConptyInv

(* The reader thread closes the pipe. *)
LEMMA SourceEndsKeeps == ASSUME ConptyInv, SourceEnds PROVE ConptyInv'
  <1>. HIDE DEF InterestType, LoopType, PacketType, Readable, Posts, ConinType
  <1>1. /\ conout' \in ConoutType /\ conout'.closed /\ conout'.first = conout.first
        /\ conout'.interest = conout.interest /\ conout'.bytes = conout.bytes
    BY DEF SourceEnds, ConptyInv, ConptyTypeOK, ConoutType
  <1>2. ConptyTypeOK' BY <1>1 DEF SourceEnds, ConptyInv, ConptyTypeOK
  <1>3. AnnounceInv' BY <1>1 DEF SourceEnds, ConptyInv, AnnounceInv, Registering, Served
  <1>. QED BY <1>2, <1>3 DEF ConptyInv

(* The reader thread calls the waker. *)
LEMMA WakeReaderKeeps == ASSUME ConptyInv, WakeReader PROVE ConptyInv'
  <1>. HIDE DEF InterestType, LoopType, PacketType, Readable, Posts, ConinType
  <1>1. /\ conout' \in ConoutType /\ conout'.closed = conout.closed /\ conout'.first = conout.first
        /\ conout'.interest = conout.interest /\ conout'.bytes = conout.bytes /\ ~conout'.waker
    BY DEF WakeReader, ConptyInv, ConptyTypeOK, ConoutType
  <1>2. /\ conout.interest \in InterestType /\ conout.interest.readable \in BOOLEAN
        /\ conout.interest.some => conout.interest.readable
    BY ConoutFields, InterestFields DEF ConptyInv
  <1>3. Grown(packets') /\ (conout.waker /\ conout.interest.some => Posts(packets'))
    <2>1. PICK q : q = Woken(conout.interest, conout.interest.readable) OBVIOUS
    <2>2. Grown(q) /\ (conout.interest.some => Posts(q))
      BY <1>2, <2>1, WokenPackets DEF ConptyInv, ConptyTypeOK
    <2>3. packets \in Seq(PacketType) BY DEF ConptyInv, ConptyTypeOK
    <2>. QED BY <2>1, <2>2, <2>3 DEF WakeReader, Grown
  <1>4. ConptyTypeOK' BY <1>1, <1>3 DEF WakeReader, ConptyInv, ConptyTypeOK, Grown
  <1>5. AnnounceInv' BY <1>1, <1>3 DEF WakeReader, ConptyInv, ConptyTypeOK, AnnounceInv, Registering, Served, Grown
  <1>. QED BY <1>4, <1>5 DEF ConptyInv

(* The writer thread drains the other pipe. *)
LEMMA DrainKeeps == ASSUME ConptyInv, Drain, PIPE_CAPACITY \in Nat PROVE ConptyInv'
  <1>. HIDE DEF InterestType, LoopType, PacketType, Readable, Posts, ConoutType
  <1>1. PICK n \in 1..conin.bytes : conin' = [conin EXCEPT !.bytes = @ - n] BY DEF Drain
  <1>2. conin' \in ConinType BY <1>1 DEF ConptyInv, ConptyTypeOK, ConinType
  <1>3. ConptyTypeOK' BY <1>2 DEF Drain, ConptyInv, ConptyTypeOK
  <1>4. AnnounceInv' BY DEF Drain, ConptyInv, AnnounceInv, Registering, Served
  <1>. QED BY <1>3, <1>4 DEF ConptyInv

(* Steps that only post packets. *)
LEMMA PacketsGrow ==
    ASSUME ConptyInv, Grown(packets'), UNCHANGED <<conout, readerThread, eventLoop>>,
           conin' \in ConinType, console'.channel \in Nat
    PROVE  ConptyInv'
  <1>. HIDE DEF InterestType, LoopType, PacketType, Readable, Posts, ConoutType, ConinType
  <1>1. ConptyTypeOK' BY DEF ConptyInv, ConptyTypeOK, Grown
  <1>2. AnnounceInv' BY DEF ConptyInv, AnnounceInv, Registering, Served, Grown
  <1>. QED BY <1>1, <1>2 DEF ConptyInv

(* Steps that post none. *)
LEMMA SamePackets == ASSUME ConptyInv, packets' = packets PROVE Grown(packets')
  BY DEF ConptyInv, ConptyTypeOK, Grown

(* The writer thread calls the other waker. *)
LEMMA WakeWriterKeeps == ASSUME ConptyInv, WakeWriter PROVE ConptyInv'
  <1>. HIDE DEF InterestType, LoopType, PacketType, Readable, Posts, ConoutType
  <1>1. conin' \in ConinType BY DEF WakeWriter, ConptyInv, ConptyTypeOK, ConinType
  <1>2. conin.interest \in InterestType /\ conin.interest.writable \in BOOLEAN
    BY ConoutFields, InterestFields DEF ConptyInv
  <1>3. Grown(packets')
    <2>1. packets \in Seq(PacketType) BY DEF ConptyInv, ConptyTypeOK
    <2>2. Grown(packets) BY <2>1 DEF Grown
    <2>. QED BY <1>2, <2>1, <2>2, WokenPackets DEF WakeWriter
  <1>4. console'.channel \in Nat /\ UNCHANGED <<conout, readerThread, eventLoop>>
    BY DEF WakeWriter, ConptyInv, ConptyTypeOK
  <1>. QED BY <1>1, <1>3, <1>4, PacketsGrow

(* The callback of the system. *)
LEMMA ExitKeeps ==
    ASSUME ConptyInv, child_exit_callback_Sends \/ child_exit_callback_Posts
    PROVE  ConptyInv'
  <1>. HIDE DEF InterestType, LoopType, PacketType, Readable, Posts, ConoutType, ConinType
  <1>1. packets \in Seq(PacketType) /\ eventLoop.writable \in BOOLEAN
    BY LoopFields DEF ConptyInv, ConptyTypeOK
  <1>2. Grown(packets) /\ Grown(Append(packets, Packet("child", Interest(eventLoop.writable))))
    BY <1>1, RegisteredPacket DEF Grown
  <1>3. Grown(packets') BY <1>2 DEF child_exit_callback_Sends, child_exit_callback_Posts
  <1>4. /\ console'.channel \in Nat /\ UNCHANGED <<conout, readerThread, eventLoop>>
        /\ conin' \in ConinType
    BY DEF child_exit_callback_Sends, child_exit_callback_Posts, ConptyInv, ConptyTypeOK
  <1>. QED BY <1>3, <1>4, PacketsGrow

(* The window sends input. *)
LEMMA TypeKeeps == ASSUME ConptyInv, Type PROVE ConptyInv'
  <1>. HIDE DEF InterestType, LoopType, PacketType, Readable, Posts, ConoutType, ConinType
  <1>1. PICK n \in 1..console.untyped :
          console' = [console EXCEPT !.channel = @ + n, !.untyped = @ - n]
    BY DEF Type
  <1>2. console.channel \in Nat BY DEF ConptyInv, ConptyTypeOK
  <1>3. console'.channel \in Nat BY <1>1, <1>2
  <1>4. Grown(packets') BY SamePackets DEF Type
  <1>5. conin' \in ConinType /\ UNCHANGED <<conout, readerThread, eventLoop>>
    BY DEF Type, ConptyInv, ConptyTypeOK
  <1>. QED BY <1>3, <1>4, <1>5, PacketsGrow

(* The event loop, field by field. *)
LEMMA LoopRecord ==
    ASSUME ConptyTypeOK
    PROVE  eventLoop = [pc |-> eventLoop.pc, events |-> eventLoop.events, queue |-> eventLoop.queue,
                        writable |-> eventLoop.writable, unprocessed |-> eventLoop.unprocessed,
                        processed |-> eventLoop.processed, limited |-> eventLoop.limited,
                        filled |-> eventLoop.filled]
  <1>1. eventLoop \in LoopType BY DEF ConptyTypeOK
  <1>. HIDE DEF PacketType
  <1>. QED BY <1>1 DEF LoopType

(* Poller::wait takes all packets. *)
LEMMA WaitKeeps == ASSUME ConptyInv, Wait PROVE ConptyInv'
  <1>. HIDE DEF InterestType, PacketType, Readable, Posts, ConoutType, ConinType
  <1>1. packets \in Seq(PacketType) /\ eventLoop \in LoopType /\ console.channel \in Nat
    BY DEF ConptyInv, ConptyTypeOK
  <1>2. /\ eventLoop' \in LoopType /\ eventLoop'.pc = "event" /\ eventLoop'.events = packets
        /\ eventLoop'.limited = eventLoop.limited
    <2>1. eventLoop' = [pc |-> "event", events |-> packets, queue |-> eventLoop.queue + console.channel,
                        writable |-> eventLoop.writable, unprocessed |-> eventLoop.unprocessed,
                        processed |-> eventLoop.processed, limited |-> eventLoop.limited,
                        filled |-> eventLoop.filled]
      BY LoopRecord DEF Wait, ConptyInv
    <2>2. eventLoop.queue + console.channel \in Nat BY <1>1, LoopFields DEF ConptyInv
    <2>3. ConptyTypeOK BY DEF ConptyInv
    <2>. QED BY <1>1, <2>1, <2>2, <2>3, LoopFields DEF LoopType
  <1>3. console'.channel = 0 /\ packets' = <<>>
    <2>1. console' = [console EXCEPT !.channel = 0] BY DEF Wait
    <2>2. "channel" \in DOMAIN console' => console'.channel = 0 BY <2>1
    <2>. QED BY <2>2 DEF Wait
  <1>4. ConptyTypeOK' BY <1>2, <1>3, NoPackets DEF Wait, ConptyInv, ConptyTypeOK
  <1>5. AnnounceInv' BY <1>2, <1>3, NoPackets DEF Wait, ConptyInv, AnnounceInv, Registering, Served
  <1>. QED BY <1>4, <1>5 DEF ConptyInv

(* An event is dispatched: the one of a registration is read. *)
LEMMA HandleEventKeeps == ASSUME ConptyInv, HandleEvent PROVE ConptyInv'
  <1>. HIDE DEF InterestType, PacketType, Readable, Posts
  <1>1. PICK s \in Seq(PacketType) : s = eventLoop.events BY LoopFields DEF ConptyInv
  <1>2. /\ eventLoop.pc = "event" /\ s # <<>> /\ eventLoop \in LoopType
        /\ conin \in ConinType /\ conout \in ConoutType
    BY <1>1 DEF HandleEvent, ConptyInv, ConptyTypeOK
  <1>3. /\ Tail(s) \in Seq(PacketType) /\ Head(s) \in PacketType
        /\ Readable(s) => Readable(Tail(s))
        /\ Readable(s) /\ Head(s).key = "read_write" => Head(s).readable
        /\ Posts(s) /\ Head(s).key # "read_write" => Posts(Tail(s))
    BY <1>2, HandledPacket
  <1>4. Readable(s) BY <1>1 DEF ConptyInv, AnnounceInv
  <1>5. CASE Head(s).key = "child" /\ child.channel = 0
    <2>1. eventLoop' = [eventLoop EXCEPT !.events = Tail(s)] BY <1>1, <1>5 DEF HandleEvent
    <2>2. /\ eventLoop' \in LoopType /\ eventLoop'.pc = "event" /\ eventLoop'.events = Tail(s)
          /\ eventLoop'.limited = eventLoop.limited
      BY <1>2, <1>3, <2>1 DEF LoopType
    <2>3. UNCHANGED <<conout, conin, readerThread, packets, console>> BY <1>1, <1>5 DEF HandleEvent
    <2>4. ConptyTypeOK' BY <2>2, <2>3 DEF ConptyInv, ConptyTypeOK
    <2>5. AnnounceInv'
      BY <1>1, <1>2, <1>3, <1>4, <1>5, <2>2, <2>3 DEF ConptyInv, AnnounceInv, Registering, Served
    <2>. QED BY <2>4, <2>5 DEF ConptyInv
  <1>6. CASE Head(s).key = "child" /\ child.channel # 0
    <2>1. eventLoop' = [eventLoop EXCEPT !.pc = "ended", !.events = <<>>] BY <1>1, <1>6 DEF HandleEvent
    <2>2. eventLoop' \in LoopType /\ eventLoop'.pc = "ended" /\ eventLoop'.events = <<>>
      BY <1>2, <2>1, NoPackets DEF LoopType
    <2>3. /\ conout' = [conout EXCEPT !.interest = NoInterest]
          /\ conin' = [conin EXCEPT !.interest = NoInterest]
          /\ UNCHANGED <<readerThread, packets, console>>
      BY <1>1, <1>6 DEF HandleEvent
    <2>4. NoInterest \in InterestType BY DEF InterestType
    <2>5. /\ conout' \in ConoutType /\ conout'.closed = conout.closed /\ conout'.first = conout.first
      BY <1>2, <2>3, <2>4 DEF ConoutType
    <2>6. conin' \in ConinType BY <1>2, <2>3, <2>4 DEF ConinType
    <2>7. ConptyTypeOK' BY <2>2, <2>3, <2>5, <2>6 DEF ConptyInv, ConptyTypeOK
    <2>8. AnnounceInv'
      BY <1>2, <2>2, <2>3, <2>5, NoPackets DEF ConptyInv, AnnounceInv, Registering, Served
    <2>. QED BY <2>7, <2>8 DEF ConptyInv
  <1>7. CASE Head(s).key # "child"
    <2>1. Head(s).key = "read_write" /\ Head(s).readable
      <3>1. Head(s).key \in {"read_write", "child"} BY <1>3 DEF PacketType
      <3>. QED BY <1>3, <1>4, <1>7, <3>1
    <2>2. eventLoop' = [eventLoop EXCEPT !.pc = "read"] BY <1>1, <1>7, <2>1 DEF HandleEvent
    <2>3. eventLoop' \in LoopType /\ eventLoop'.pc = "read" /\ eventLoop'.events = s
      BY <1>1, <1>2, <2>2 DEF LoopType
    <2>4. UNCHANGED <<conout, conin, readerThread, packets, console>> BY <1>1, <1>7 DEF HandleEvent
    <2>5. ConptyTypeOK' BY <1>2, <2>3, <2>4 DEF ConptyInv, ConptyTypeOK
    <2>6. AnnounceInv'
      BY <1>2, <1>4, <2>3, <2>4 DEF ConptyInv, AnnounceInv, Registering, Served
    <2>. QED BY <2>5, <2>6 DEF ConptyInv
  <1>. QED BY <1>5, <1>6, <1>7

(* pty_read goes on, stops at MAX_LOCKED_READ, or has found the pipe empty and left a
   waker. *)
LEMMA ReadKeeps == ASSUME ConptyInv, pty_read, PIPE_CAPACITY \in Nat \ {0} PROVE ConptyInv'
  <1>. HIDE DEF InterestType, PacketType, Readable, Posts, ConinType
  <1>. DEFINE room == PIPE_CAPACITY - eventLoop.unprocessed
  <1>1. PICK got : got = IF conout.bytes > room THEN room ELSE conout.bytes OBVIOUS
  <1>2. PICK unprocessed : unprocessed = eventLoop.unprocessed + got OBVIOUS
  <1>3. /\ conout.bytes \in Nat /\ eventLoop.unprocessed \in 0..(PIPE_CAPACITY - 1)
        /\ eventLoop \in LoopType /\ conout \in ConoutType /\ eventLoop.processed \in Nat
    BY ConoutFields, LoopFields DEF ConptyInv, ConptyTypeOK
  <1>4. /\ got \in Nat /\ conout.bytes - got \in Nat /\ unprocessed \in Nat
        /\ unprocessed = 0 => conout.bytes = 0
    BY <1>1, <1>2, <1>3
  <1>5. PICK processed \in Nat : processed = eventLoop.processed + unprocessed BY <1>3, <1>4
  <1>6. /\ conout' \in ConoutType /\ conout'.closed = conout.closed /\ conout'.first = conout.first
        /\ conout'.interest = conout.interest
        /\ conout.bytes = 0 => conout'.bytes = 0 /\ (conout'.waker \/ conout.closed)
    <2>1. try_read(got) BY <1>1 DEF pty_read
    <2>. QED BY <1>3, <1>4, <2>1 DEF try_read, ConoutType
  <1>7. /\ UNCHANGED <<conin, readerThread, packets, console>> /\ eventLoop.pc = "read"
    BY DEF pty_read
  <1>8. \/ /\ eventLoop' = [eventLoop EXCEPT !.pc = "write", !.unprocessed = 0, !.processed = 0,
                                             !.limited = FALSE]
           /\ unprocessed = 0
        \/ eventLoop' = [eventLoop EXCEPT !.pc = "write", !.unprocessed = 0, !.processed = 0,
                                          !.limited = TRUE]
        \/ eventLoop' = [eventLoop EXCEPT !.unprocessed = 0, !.processed = processed]
        \/ /\ unprocessed < PIPE_CAPACITY
           /\ eventLoop' = [eventLoop EXCEPT !.unprocessed = unprocessed]
    BY <1>1, <1>2, <1>5 DEF pty_read
  <1>9. /\ eventLoop' \in LoopType /\ eventLoop'.events = eventLoop.events
        /\ \/ eventLoop'.pc = "write" /\ (eventLoop'.limited \/ conout.bytes = 0)
           \/ eventLoop'.pc = "read"
    <2>0. 0 \in 0..(PIPE_CAPACITY - 1) /\ 0 \in Nat OBVIOUS
    <2>1. ASSUME NEW limited \in BOOLEAN, limited \/ conout.bytes = 0,
                 eventLoop' = [eventLoop EXCEPT !.pc = "write", !.unprocessed = 0, !.processed = 0,
                                                !.limited = limited]
          PROVE  /\ eventLoop' \in LoopType /\ eventLoop'.events = eventLoop.events
                 /\ eventLoop'.pc = "write" /\ (eventLoop'.limited \/ conout.bytes = 0)
      <3>1. eventLoop' = [pc |-> "write", events |-> eventLoop.events, queue |-> eventLoop.queue,
                          writable |-> eventLoop.writable, unprocessed |-> 0, processed |-> 0,
                          limited |-> limited, filled |-> eventLoop.filled]
        BY <2>1, LoopRecord DEF ConptyInv
      <3>2. ConptyTypeOK BY DEF ConptyInv
      <3>. QED BY <2>0, <2>1, <3>1, <3>2, LoopFields DEF LoopType
    <2>3. CASE eventLoop' = [eventLoop EXCEPT !.unprocessed = 0, !.processed = processed]
      <3>1. eventLoop' = [pc |-> "read", events |-> eventLoop.events, queue |-> eventLoop.queue,
                          writable |-> eventLoop.writable, unprocessed |-> 0,
                          processed |-> processed, limited |-> eventLoop.limited,
                          filled |-> eventLoop.filled]
        BY <1>7, <2>3, LoopRecord DEF ConptyInv
      <3>2. ConptyTypeOK BY DEF ConptyInv
      <3>. QED BY <2>0, <3>1, <3>2, LoopFields DEF LoopType
    <2>4. CASE /\ unprocessed < PIPE_CAPACITY
               /\ eventLoop' = [eventLoop EXCEPT !.unprocessed = unprocessed]
      <3>1. unprocessed \in 0..(PIPE_CAPACITY - 1) BY <1>4, <2>4
      <3>. QED BY <1>3, <1>7, <2>4, <3>1 DEF LoopType
    <2>. QED BY <1>4, <1>8, <2>1, <2>3, <2>4
  <1>10. ConptyTypeOK'
    <2>. HIDE DEF LoopType, ConoutType
    <2>. QED BY <1>6, <1>7, <1>9 DEF ConptyInv, ConptyTypeOK
  <1>11. AnnounceInv'
    <2>. HIDE DEF LoopType, ConoutType
    <2>. QED BY <1>6, <1>7, <1>9 DEF ConptyInv, AnnounceInv, Registering, Served
  <1>. QED BY <1>10, <1>11 DEF ConptyInv

(* pty_write, and the event is done with. *)
LEMMA WriteKeeps == ASSUME ConptyInv, pty_write, PIPE_CAPACITY \in Nat \ {0} PROVE ConptyInv'
  <1>. HIDE DEF InterestType, PacketType, Readable, Posts
  <1>1. PICK s \in Seq(PacketType) : s = eventLoop.events BY LoopFields DEF ConptyInv
  <1>2. /\ eventLoop.pc = "write" /\ s # <<>> /\ eventLoop \in LoopType /\ ConptyTypeOK
        /\ conin \in ConinType /\ conin.bytes \in 0..PIPE_CAPACITY
        /\ UNCHANGED <<conout, readerThread, packets, console>>
    BY <1>1, ConoutFields DEF pty_write, ConptyInv, ConptyTypeOK
  <1>3. /\ Tail(s) \in Seq(PacketType) /\ (Readable(s) => Readable(Tail(s)))
    BY <1>2, HandledPacket
  <1>4. ASSUME eventLoop' = [eventLoop EXCEPT !.pc = "event", !.events = Tail(s)], conin' \in ConinType
        PROVE  ConptyInv'
    <2>1. eventLoop' = [pc |-> "event", events |-> Tail(s), queue |-> eventLoop.queue,
                        writable |-> eventLoop.writable, unprocessed |-> eventLoop.unprocessed,
                        processed |-> eventLoop.processed, limited |-> eventLoop.limited,
                        filled |-> eventLoop.filled]
      BY <1>2, <1>4, LoopRecord
    <2>2. /\ eventLoop' \in LoopType /\ eventLoop'.pc = "event" /\ eventLoop'.events = Tail(s)
          /\ eventLoop'.limited = eventLoop.limited
      BY <1>2, <1>3, <2>1, LoopFields DEF LoopType
    <2>. HIDE DEF LoopType, ConoutType, ConinType
    <2>3. ConptyTypeOK' BY <1>2, <1>4, <2>2 DEF ConptyTypeOK
    <2>4. AnnounceInv' BY <1>1, <1>2, <1>3, <2>2 DEF ConptyInv, AnnounceInv, Registering, Served
    <2>. QED BY <2>3, <2>4 DEF ConptyInv
  <1>5. CASE ~(Head(s).writable /\ eventLoop.queue > 0)
    <2>1. eventLoop' = [eventLoop EXCEPT !.pc = "event", !.events = Tail(s)] /\ conin' = conin
      BY <1>1, <1>5 DEF pty_write
    <2>. QED BY <1>2, <1>4, <2>1
  <1>6. CASE Head(s).writable /\ eventLoop.queue > 0
    <2>1. PICK room \in 0..PIPE_CAPACITY : room = PIPE_CAPACITY - conin.bytes BY <1>2
    <2>2. PICK n : n = IF eventLoop.queue < room THEN eventLoop.queue ELSE room OBVIOUS
    <2>3. eventLoop.queue \in Nat BY <1>2, LoopFields
    <2>4. n \in Nat /\ eventLoop.queue - n \in Nat /\ conin.bytes + n \in 0..PIPE_CAPACITY
      BY SMTT(60), <1>2, <2>1, <2>2, <2>3
    <2>5. conin' \in ConinType
      <3>1. try_write(n) BY <1>1, <1>6, <2>1, <2>2 DEF pty_write
      <3>. QED BY <1>2, <2>4, <3>1 DEF try_write, ConinType
    <2>6. CASE n = 0
      <3>1. eventLoop' = [eventLoop EXCEPT !.pc = "event", !.events = Tail(s)]
        BY <1>1, <1>6, <2>1, <2>2, <2>6 DEF pty_write
      <3>. QED BY <1>4, <2>5, <3>1
    <2>7. CASE n # 0
      <3>1. PICK filled \in BOOLEAN : filled = (n = eventLoop.queue /\ n = room) OBVIOUS
      <3>2. eventLoop' = [eventLoop EXCEPT !.queue = @ - n, !.filled = filled]
        BY <1>1, <1>6, <2>1, <2>2, <2>7, <3>1 DEF pty_write
      <3>3. eventLoop' = [pc |-> "write", events |-> s, queue |-> eventLoop.queue - n,
                          writable |-> eventLoop.writable, unprocessed |-> eventLoop.unprocessed,
                          processed |-> eventLoop.processed, limited |-> eventLoop.limited,
                          filled |-> filled]
        BY <1>1, <1>2, <3>2, LoopRecord
      <3>4. /\ eventLoop' \in LoopType /\ eventLoop'.pc = "write" /\ eventLoop'.events = s
            /\ eventLoop'.limited = eventLoop.limited
        BY <1>2, <2>4, <3>3, LoopFields DEF LoopType
      <3>. HIDE DEF LoopType, ConoutType, ConinType
      <3>5. ConptyTypeOK' BY <1>2, <2>5, <3>4 DEF ConptyTypeOK
      <3>6. AnnounceInv' BY <1>1, <1>2, <3>4 DEF ConptyInv, AnnounceInv, Registering, Served
      <3>. QED BY <3>5, <3>6 DEF ConptyInv
    <2>. QED BY <2>6, <2>7
  <1>. QED BY <1>5, <1>6

(* The end of the events: the loop waits, or registers anew. *)
LEMMA NeedsWriteKeeps == ASSUME ConptyInv, NeedsWrite PROVE ConptyInv'
  <1>. HIDE DEF InterestType, PacketType, Readable, Posts
  <1>1. /\ eventLoop.pc = "event" /\ eventLoop.events = <<>> /\ ConptyTypeOK /\ eventLoop \in LoopType
        /\ UNCHANGED <<conout, conin, readerThread, packets, console>>
    BY DEF NeedsWrite, ConptyInv, ConptyTypeOK
  <1>3. /\ eventLoop' \in LoopType /\ eventLoop'.pc \in {"wait", "register_in"}
        /\ eventLoop'.events = <<>> /\ eventLoop'.limited = eventLoop.limited
    <2>1. CASE eventLoop' = [eventLoop EXCEPT !.pc = "wait"]
      BY <1>1, <2>1, NoPackets DEF LoopType
    <2>2. CASE eventLoop' = [eventLoop EXCEPT !.pc = "register_in", !.writable = TRUE]
      BY <1>1, <2>2, NoPackets DEF LoopType
    <2>3. CASE eventLoop' = [eventLoop EXCEPT !.pc = "register_in", !.writable = FALSE]
      BY <1>1, <2>3, NoPackets DEF LoopType
    <2>4. PICK needs_write : needs_write = (eventLoop.queue > 0) OBVIOUS
    <2>5. needs_write \in BOOLEAN BY <2>4
    <2>6. eventLoop' = IF needs_write = eventLoop.writable THEN [eventLoop EXCEPT !.pc = "wait"]
                       ELSE [eventLoop EXCEPT !.pc = "register_in", !.writable = needs_write]
      BY <2>4, Zenon DEF NeedsWrite
    <2>7. needs_write = TRUE \/ needs_write = FALSE BY <2>5
    <2>. QED BY <2>1, <2>2, <2>3, <2>6, <2>7, Zenon
  <1>. HIDE DEF LoopType, ConoutType, ConinType
  <1>4. ConptyTypeOK' BY <1>1, <1>3 DEF ConptyTypeOK
  <1>5. AnnounceInv' BY <1>1, <1>3, NoPackets DEF ConptyInv, AnnounceInv, Registering, Served
  <1>. QED BY <1>4, <1>5 DEF ConptyInv

(* register, the first half. *)
LEMMA RegisterInKeeps == ASSUME ConptyInv, RegisterIn PROVE ConptyInv'
  <1>. HIDE DEF InterestType, PacketType, Readable, Posts
  <1>1. /\ eventLoop.pc = "register_in" /\ ConptyTypeOK /\ eventLoop \in LoopType
        /\ conin \in ConinType /\ packets \in Seq(PacketType) /\ eventLoop.writable \in BOOLEAN
        /\ UNCHANGED <<conout, readerThread, console>>
        /\ eventLoop' = [eventLoop EXCEPT !.pc = "register_out"]
    BY LoopFields DEF RegisterIn, ConptyInv, ConptyTypeOK
  <1>2. PICK interest \in InterestType : interest = Interest(eventLoop.writable)
    BY <1>1, RegisteredPacket
  <1>3. conin' \in ConinType
    <2>1. conin' = [conin EXCEPT !.interest = interest] BY <1>2 DEF RegisterIn
    <2>. QED BY <1>1, <2>1 DEF ConinType
  <1>4. Grown(packets')
    <2>1. Grown(packets) /\ Grown(Append(packets, Packet("read_write", interest)))
      BY <1>1, <1>2, RegisteredPacket DEF Grown
    <2>. QED BY <1>2, <2>1 DEF RegisterIn
  <1>5. /\ eventLoop' \in LoopType /\ eventLoop'.pc = "register_out"
        /\ eventLoop'.events = eventLoop.events /\ eventLoop'.limited = eventLoop.limited
    BY <1>1 DEF LoopType
  <1>. HIDE DEF LoopType, ConoutType, ConinType
  <1>6. ConptyTypeOK' BY <1>1, <1>3, <1>4, <1>5 DEF ConptyTypeOK, Grown
  <1>7. AnnounceInv' BY <1>1, <1>4, <1>5 DEF ConptyInv, AnnounceInv, Registering, Served, Grown
  <1>. QED BY <1>6, <1>7 DEF ConptyInv

(* register, the second half: it posts a packet if there is output, or if it is the
   first. *)
LEMMA RegisterOutKeeps == ASSUME ConptyInv, RegisterOut PROVE ConptyInv'
  <1>. HIDE DEF InterestType, PacketType, Readable, Posts
  <1>1. /\ eventLoop.pc = "register_out" /\ ConptyTypeOK /\ eventLoop \in LoopType
        /\ conout \in ConoutType /\ packets \in Seq(PacketType) /\ eventLoop.writable \in BOOLEAN
        /\ UNCHANGED <<conin, readerThread, console>>
        /\ eventLoop' = [eventLoop EXCEPT !.pc = "wait"]
    BY LoopFields DEF RegisterOut, ConptyInv, ConptyTypeOK
  <1>2. PICK interest \in InterestType : interest = Interest(eventLoop.writable) /\ interest.some
    BY <1>1, RegisteredPacket
  <1>3. /\ conout' \in ConoutType /\ conout'.interest = interest /\ ~conout'.first
        /\ conout'.bytes = conout.bytes /\ conout'.waker = conout.waker /\ conout'.closed = conout.closed
    <2>1. conout' = [conout EXCEPT !.interest = interest, !.first = FALSE] BY <1>2 DEF RegisterOut
    <2>. QED BY <1>1, <2>1 DEF ConoutType
  <1>4. Grown(packets') /\ (conout.bytes > 0 \/ conout.first => Posts(packets'))
    <2>1. /\ Grown(packets) /\ Grown(Append(packets, Packet("read_write", interest)))
          /\ Posts(Append(packets, Packet("read_write", interest)))
      BY <1>1, <1>2, RegisteredPacket DEF Grown
    <2>. QED BY <1>2, <2>1 DEF RegisterOut
  <1>5. /\ eventLoop' \in LoopType /\ eventLoop'.pc = "wait"
        /\ eventLoop'.events = eventLoop.events /\ eventLoop'.limited = eventLoop.limited
    BY <1>1 DEF LoopType
  <1>6. conout.bytes \in Nat BY <1>1, ConoutFields
  <1>. HIDE DEF LoopType, ConoutType, ConinType
  <1>7. ConptyTypeOK' BY <1>1, <1>3, <1>4, <1>5 DEF ConptyTypeOK, Grown
  <1>8. AnnounceInv' BY <1>1, <1>2, <1>3, <1>4, <1>5, <1>6 DEF ConptyInv, AnnounceInv, Registering, Served, Grown
  <1>. QED BY <1>7, <1>8 DEF ConptyInv

(* The PTY is registered first. *)
LEMMA ConptyStart == ASSUME ConptyInit, PIPE_CAPACITY \in Nat \ {0} PROVE ConptyInv
  <1>. HIDE DEF PacketType
  <1>1. NoInterest \in InterestType BY DEF InterestType
  <1>2. conout \in ConoutType /\ conout.first /\ ~conout.closed /\ conout.bytes = 0
    <2>. HIDE DEF InterestType
    <2>. QED BY <1>1 DEF ConptyInit, ConoutType
  <1>3. conin \in ConinType
    <2>. HIDE DEF InterestType
    <2>. QED BY <1>1 DEF ConptyInit, ConinType
  <1>4. eventLoop \in LoopType /\ eventLoop.pc = "register_in" /\ eventLoop.events = <<>>
    BY NoPackets DEF ConptyInit, LoopType
  <1>5. console.channel = 0 /\ packets = <<>> /\ readerThread = "read" BY DEF ConptyInit
  <1>. HIDE DEF ConoutType, ConinType, LoopType
  <1>. QED BY <1>2, <1>3, <1>4, <1>5, NoPackets DEF ConptyInv, ConptyTypeOK, AnnounceInv, Registering

(* OutputAnnounced holds in every reachable state: an event loop that waits with
   nothing posted has nothing to read, unless it stopped reading at MAX_LOCKED_READ,
   for pipes and loads of any size and any interleaving of the three threads. *)
THEOREM OutputNeverForgotten == ConptyInit /\ [][ConptyNext]_conptyVars => []OutputAnnounced
  <1>1. ConptyInit => ConptyInv BY ConptyStart, ConptyAssumption
  <1>2. ConptyInv /\ [ConptyNext]_conptyVars => ConptyInv'
    <2>1. ConptyInv /\ ConptyNext => ConptyInv'
      BY ConptyAssumption, FillKeeps, SourceEndsKeeps, WakeReaderKeeps, DrainKeeps, WakeWriterKeeps,
         ExitKeeps, TypeKeeps, WaitKeeps, HandleEventKeeps, ReadKeeps, WriteKeeps, NeedsWriteKeeps,
         RegisterInKeeps, RegisterOutKeeps, Zenon
      DEF ConptyNext, ConptyThread, ConptyWriter, ConptyLoop
    <2>2. ConptyInv /\ UNCHANGED conptyVars => ConptyInv'
      BY DEF conptyVars, ConptyInv, ConptyTypeOK, AnnounceInv, Served, Registering, Readable, Posts
    <2>. QED BY <2>1, <2>2
  <1>3. ConptyInv => OutputAnnounced
    <2>. HIDE DEF Readable
    <2>. QED BY NoPackets DEF ConptyInv, AnnounceInv, Served, Registering, OutputAnnounced
  <1>. QED BY <1>1, <1>2, <1>3, PTL

-----------------------------------------------------------------------------
(* Least and greatest numbers *)

(* Min and Max of a nonempty set of integers within bounds. *)
LEMMA ExtremeInts ==
    ASSUME NEW a \in Int, NEW b \in Int, NEW G \in SUBSET (a..b), G # {}
    PROVE  /\ Min(G) \in G /\ \A y \in G : Min(G) <= y
           /\ Max(G) \in G /\ \A y \in G : y <= Max(G)
  <1>. DEFINE up == {x - a : x \in G}
              down == {b - x : x \in G}
  <1>1. up \in SUBSET Nat /\ up # {} /\ down \in SUBSET Nat /\ down # {}
    <2>1. \A x \in G : x - a \in Nat /\ b - x \in Nat OBVIOUS
    <2>2. PICK x : x \in G BY Zenon
    <2>3. x - a \in up /\ b - x \in down BY <2>2, Zenon
    <2>4. \A y \in up : y \in Nat BY <2>1, Zenon
    <2>5. \A y \in down : y \in Nat BY <2>1, Zenon
    <2>. QED BY <2>3, <2>4, <2>5, Zenon
  <1>2. PICK m \in up : \A y \in up : m <= y
    <2>. HIDE DEF up
    <2>. QED BY <1>1, LeastNat
  <1>3. PICK n \in down : \A y \in down : n <= y
    <2>. HIDE DEF down
    <2>. QED BY <1>1, LeastNat
  <1>4. \E x \in G : \A y \in G : x <= y
    <2>1. PICK x \in G : m = x - a BY <1>2
    <2>2. ASSUME NEW y \in G PROVE x <= y
      <3>1. m <= y - a BY <1>2
      <3>. QED BY <2>1, <3>1
    <2>. QED BY <2>2
  <1>5. \E x \in G : \A y \in G : x >= y
    <2>1. PICK x \in G : n = b - x BY <1>3
    <2>2. ASSUME NEW y \in G PROVE x >= y
      <3>1. n <= b - y BY <1>3
      <3>. QED BY <2>1, <3>1
    <2>. QED BY <2>2
  <1>. HIDE DEF up, down
  <1>6. Min(G) \in G /\ \A y \in G : Min(G) <= y BY <1>4, Zenon DEF Min
  <1>7. Max(G) \in G /\ \A y \in G : Max(G) >= y BY <1>5, Zenon DEF Max
  <1>8. \A y \in G : y \in Int OBVIOUS
  <1>. QED BY <1>6, <1>7, <1>8

-----------------------------------------------------------------------------
(* What a frame repaints *)

(* The lines of a frame *)
LinesOfFrame == 0..FrameLines - 1
(* and its damage, which may reach past its last column. *)
Frame == [full : BOOLEAN, lines : [LinesOfFrame -> [left : Nat, right : Nat]]]

(* g repaints what f does. *)
FrameGrows(f, g) ==
    /\ g \in Frame
    /\ f.full => g.full
    /\ \A c \in FrameCells : IsRepainted(f, c) => IsRepainted(g, c)

(* The frame repaints these cells. *)
FrameCovers(f, cells) == \A c \in cells : IsRepainted(f, c)

(* Nothing is damaged in a frame that begins. *)
LEMMA UndamagedIsFrame == UndamagedFrame \in Frame
  BY FrameAssumption DEF UndamagedFrame, Frame, LinesOfFrame

(* The line and the column of a cell. *)
LEMMA CellParts ==
    ASSUME NEW c \in FrameCells
    PROVE  c[1] \in LinesOfFrame /\ c[2] \in 0..FrameColumns - 1 /\ c[2] \in Nat /\ c = <<c[1], c[2]>>
  BY FrameAssumption DEF FrameCells, LinesOfFrame

(* A line is damaged between two columns. *)
LEMMA DamageLineLaw ==
    ASSUME NEW f \in Frame, NEW line \in LinesOfFrame, NEW left \in Nat, NEW right \in Nat
    PROVE  /\ FrameGrows(f, damage_frame_line(f, line, left, right))
           /\ damage_frame_line(f, line, left, right).full = f.full
           /\ \A c \in FrameCells : c[1] = line /\ left <= c[2] /\ c[2] <= right =>
                IsRepainted(damage_frame_line(f, line, left, right), c)
  <1>. PICK g : g = damage_frame_line(f, line, left, right) OBVIOUS
  <1>. DEFINE wide == [left |-> MinOf(f.lines[line].left, left), right |-> MaxOf(f.lines[line].right, right)]
  <1>1. f.full \in BOOLEAN /\ f.lines \in [LinesOfFrame -> [left : Nat, right : Nat]] BY DEF Frame
  <1>2. g = [f EXCEPT !.lines = [f.lines EXCEPT ![line] = wide]] BY <1>1 DEF damage_frame_line
  <1>3. wide \in [left : Nat, right : Nat] BY <1>1 DEF MinOf, MaxOf
  <1>4. g \in Frame /\ g.full = f.full /\ g.lines = [f.lines EXCEPT ![line] = wide]
    <2>. HIDE DEF wide
    <2>. QED BY <1>1, <1>2, <1>3 DEF Frame
  <1>5. ASSUME NEW c \in FrameCells, IsRepainted(f, c) PROVE IsRepainted(g, c)
    <2>1. c[1] \in LinesOfFrame /\ c[2] \in Nat BY CellParts
    <2>2. CASE c[1] = line
      <3>1. g.lines[c[1]] = wide BY <1>1, <1>4, <2>2
      <3>2. f.lines[line].left \in Nat /\ f.lines[line].right \in Nat BY <1>1
      <3>. QED BY <1>4, <1>5, <2>1, <2>2, <3>1, <3>2 DEF IsRepainted, IsInLine, MinOf, MaxOf
    <2>3. CASE c[1] # line
      <3>1. g.lines[c[1]] = f.lines[c[1]] BY <1>1, <1>4, <2>1, <2>3
      <3>. QED BY <1>4, <1>5, <3>1 DEF IsRepainted, IsInLine
    <2>. QED BY <2>2, <2>3
  <1>6. ASSUME NEW c \in FrameCells, c[1] = line, left <= c[2], c[2] <= right PROVE IsRepainted(g, c)
    <2>1. g.lines[c[1]] = wide /\ c[2] \in Nat BY <1>1, <1>4, <1>6, CellParts
    <2>2. f.lines[line].left \in Nat /\ f.lines[line].right \in Nat BY <1>1
    <2>. QED BY <1>6, <2>1, <2>2 DEF IsRepainted, IsInLine, MinOf, MaxOf
  <1>. QED BY <1>4, <1>5, <1>6 DEF FrameGrows

(* Cells are damaged, and what lies between them on a line. *)
LEMMA DamagePointsLaw ==
    ASSUME NEW f \in Frame, NEW cells \in SUBSET FrameCells
    PROVE  /\ FrameGrows(f, damage_points(f, cells))
           /\ damage_points(f, cells).full = f.full
           /\ FrameCovers(damage_points(f, cells), cells)
  <1>. DEFINE Cols(l) == {c[2] : c \in {d \in cells : d[1] = l}}
              Wide(l) == IF Cols(l) = {} THEN f.lines[l]
                         ELSE [left |-> MinOf(f.lines[l].left, Min(Cols(l))),
                               right |-> MaxOf(f.lines[l].right, Max(Cols(l)))]
  <1>. PICK g : g = damage_points(f, cells) OBVIOUS
  <1>1. f.full \in BOOLEAN /\ f.lines \in [LinesOfFrame -> [left : Nat, right : Nat]] BY DEF Frame
  <1>2. DOMAIN f.lines = LinesOfFrame BY <1>1
  <1>3. g = [f EXCEPT !.lines = [l \in LinesOfFrame |-> Wide(l)]] BY <1>2, Zenon DEF damage_points
  <1>4. ASSUME NEW l \in LinesOfFrame
        PROVE  /\ Wide(l) \in [left : Nat, right : Nat]
               /\ Wide(l).left <= f.lines[l].left /\ f.lines[l].right <= Wide(l).right
               /\ \A c \in cells : c[1] = l => Wide(l).left <= c[2] /\ c[2] <= Wide(l).right
    <2>0. f.lines[l] \in [left : Nat, right : Nat] /\ f.lines[l].left \in Nat /\ f.lines[l].right \in Nat
      BY <1>1
    <2>1. CASE Cols(l) = {}
      <3>1. Wide(l) = f.lines[l] BY <2>1
      <3>2. \A c \in cells : c[1] # l BY <2>1
      <3>. QED BY <2>0, <3>1, <3>2
    <2>2. CASE Cols(l) # {}
      <3>1. PICK m \in Int : m = FrameColumns - 1 BY FrameAssumption
      <3>2. \A c \in cells : c[2] \in 0..m BY <3>1, CellParts
      <3>3. Cols(l) \in SUBSET (0..m) BY <3>2
      <3>4. PICK C : C = Cols(l) OBVIOUS
      <3>5. \A c \in cells : c[1] = l => c[2] \in C BY <3>4
      <3>6. PICK x, y : x = Min(C) /\ y = Max(C) OBVIOUS
      <3>7. x \in 0..m /\ y \in 0..m /\ \A z \in C : x <= z /\ z <= y
        <4>1. C \in SUBSET (0..m) /\ C # {} /\ 0 \in Int BY <2>2, <3>3, <3>4
        <4>2. x \in C /\ y \in C /\ \A z \in C : x <= z /\ z <= y BY <3>6, <4>1, ExtremeInts
        <4>. QED BY <4>1, <4>2
      <3>8. Wide(l) = [left |-> MinOf(f.lines[l].left, x), right |-> MaxOf(f.lines[l].right, y)]
        BY <2>2, <3>4, <3>6
      <3>9. \A c \in cells : c[2] \in Nat BY CellParts
      <3>. HIDE DEF Wide, Cols
      <3>. QED BY <2>0, <3>5, <3>7, <3>8, <3>9 DEF MinOf, MaxOf
    <2>. QED BY <2>1, <2>2
  <1>. HIDE DEF Wide
  <1>5. g.full = f.full /\ g.lines = [l \in LinesOfFrame |-> Wide(l)] /\ g \in Frame
    BY <1>1, <1>3, <1>4 DEF Frame
  <1>6. ASSUME NEW c \in FrameCells, IsRepainted(f, c) \/ c \in cells PROVE IsRepainted(g, c)
    <2>1. PICK l \in LinesOfFrame : l = c[1] BY CellParts
    <2>2. c[2] \in Nat /\ f.lines[l].left \in Nat /\ f.lines[l].right \in Nat BY <1>1, CellParts
    <2>3. g.lines[l] = Wide(l) /\ Wide(l).left \in Nat /\ Wide(l).right \in Nat BY <1>4, <1>5
    <2>. QED BY <1>4, <1>5, <1>6, <2>1, <2>2, <2>3 DEF IsRepainted, IsInLine
  <1>. QED BY <1>5, <1>6 DEF FrameGrows, FrameCovers

-----------------------------------------------------------------------------
(* The tracker *)

(* Positions, of the grid or of the viewport *)
Grid2 == Int \X Int
(* The tracker: the damage of this frame and of the next, and what was drawn. *)
Tracker == [frames : [1..2 -> Frame], old_vi : SUBSET Grid2, old_sel : SUBSET Grid2]

(* u repaints what t does, in this frame and in the next, and remembers the same. *)
Grows(t, u) ==
    /\ u \in Tracker /\ u.old_vi = t.old_vi /\ u.old_sel = t.old_sel
    /\ \A i \in 1..2 : FrameGrows(t.frames[i], u.frames[i])

(* One such step after another. *)
LEMMA GrowsTrans ==
    ASSUME NEW t, NEW u, NEW v, Grows(t, u), Grows(u, v)
    PROVE  Grows(t, v)
  <1>1. \A i \in 1..2 : FrameGrows(t.frames[i], v.frames[i])
    <2>. TAKE i \in 1..2
    <2>1. FrameGrows(t.frames[i], u.frames[i]) /\ FrameGrows(u.frames[i], v.frames[i]) BY DEF Grows
    <2>. QED BY <2>1, Zenon DEF FrameGrows
  <1>. QED BY <1>1 DEF Grows

(* A tracker repaints what it does. *)
LEMMA GrowsSame ==
    ASSUME NEW t \in Tracker
    PROVE  Grows(t, t)
  <1>1. t.frames \in [1..2 -> Frame] BY DEF Tracker
  <1>2. \A i \in 1..2 : t.frames[i] \in Frame BY <1>1
  <1>. QED BY <1>2 DEF Grows, FrameGrows

(* Any frame takes the place of the current one, if it repaints as much. *)
LEMMA FirstFrame ==
    ASSUME NEW t \in Tracker, NEW f, FrameGrows(t.frames[1], f)
    PROVE  /\ Grows(t, [t EXCEPT !.frames[1] = f])
           /\ [t EXCEPT !.frames[1] = f].frames[1] = f
           /\ [t EXCEPT !.frames[1] = f].frames[2] = t.frames[2]
  <1>. PICK u : u = [t EXCEPT !.frames[1] = f] OBVIOUS
  <1>1. t.frames \in [1..2 -> Frame] /\ f \in Frame
    <2>1. f \in Frame BY Zenon DEF FrameGrows
    <2>. QED BY <2>1 DEF Tracker
  <1>2. u = [t EXCEPT !.frames = [t.frames EXCEPT ![1] = f]] BY Zenon
  <1>3. PICK fs : fs = [t.frames EXCEPT ![1] = f] OBVIOUS
  <1>4. fs \in [1..2 -> Frame] /\ fs[1] = f /\ fs[2] = t.frames[2] BY <1>1, <1>3
  <1>5. u \in Tracker /\ u.frames = fs /\ u.old_vi = t.old_vi /\ u.old_sel = t.old_sel
    BY <1>2, <1>3, <1>4 DEF Tracker
  <1>6. FrameGrows(t.frames[2], t.frames[2]) BY <1>1 DEF FrameGrows
  <1>7. ASSUME NEW i \in 1..2 PROVE FrameGrows(t.frames[i], u.frames[i])
    <2>1. CASE i = 1 BY <1>4, <1>5, <2>1
    <2>2. CASE i = 2 BY <1>4, <1>5, <1>6, <2>2
    <2>. QED BY <2>1, <2>2
  <1>. QED BY <1>4, <1>5, <1>7 DEF Grows

(* A frame that is repainted whole. *)
LEMMA FullGrows ==
    ASSUME NEW f \in Frame
    PROVE  FrameGrows(f, [f EXCEPT !.full = TRUE]) /\ [f EXCEPT !.full = TRUE].full
  BY DEF Frame, FrameGrows, IsRepainted, IsInLine

(* A frame marked whole repaints what it did, and all of it. *)
LEMMA MarkFrameLaw ==
    ASSUME NEW t \in Tracker
    PROVE  Grows(t, mark_frame(t)) /\ mark_frame(t).frames[1].full
  <1>0. PICK f : f = [t.frames[1] EXCEPT !.full = TRUE] OBVIOUS
  <1>1. t.frames[1] \in Frame BY DEF Tracker
  <1>2. FrameGrows(t.frames[1], f) /\ f.full BY <1>0, <1>1, FullGrows
  <1>3. mark_frame(t) = [t EXCEPT !.frames[1] = f] BY <1>0, Zenon DEF mark_frame
  <1>4. Grows(t, [t EXCEPT !.frames[1] = f]) /\ [t EXCEPT !.frames[1] = f].frames[1] = f
    BY <1>2, FirstFrame
  <1>. QED BY <1>2, <1>3, <1>4, Zenon

(* The terminal's damage, or that of an element, is added to the current frame. *)
LEMMA PointsLaw ==
    ASSUME NEW t \in Tracker, NEW cells \in SUBSET FrameCells
    PROVE  LET u == [t EXCEPT !.frames[1] = damage_points(@, cells)]
           IN  /\ Grows(t, u) /\ FrameCovers(u.frames[1], cells) /\ u.frames[2] = t.frames[2]
               /\ u.frames[1].full = t.frames[1].full
  <1>. PICK f : f = damage_points(t.frames[1], cells) OBVIOUS
  <1>1. t.frames[1] \in Frame BY DEF Tracker
  <1>2. FrameGrows(t.frames[1], f) /\ FrameCovers(f, cells) /\ f.full = t.frames[1].full
    BY <1>1, DamagePointsLaw
  <1>3. [t EXCEPT !.frames[1] = damage_points(@, cells)] = [t EXCEPT !.frames[1] = f] BY Zenon
  <1>. QED BY <1>2, <1>3, FirstFrame

(* Both frames are damaged. *)
LEMMA BothFrames ==
    ASSUME NEW t \in Tracker, NEW fs, DOMAIN fs = 1..2, fs = [i \in 1..2 |-> fs[i]],
           \A i \in 1..2 : FrameGrows(t.frames[i], fs[i])
    PROVE  Grows(t, [t EXCEPT !.frames = fs]) /\ [t EXCEPT !.frames = fs].frames = fs
  <1>. PICK u : u = [t EXCEPT !.frames = fs] OBVIOUS
  <1>1. \A i \in 1..2 : fs[i] \in Frame BY Zenon DEF FrameGrows
  <1>2. fs \in [1..2 -> Frame]
    <2>. HIDE DEF Frame
    <2>. QED BY <1>1
  <1>3. u \in Tracker /\ u.frames = fs /\ u.old_vi = t.old_vi /\ u.old_sel = t.old_sel
    BY <1>2 DEF Tracker
  <1>. QED BY <1>3 DEF Grows

(* So do both frames when they are marked. *)
LEMMA MarkBothLaw ==
    ASSUME NEW t \in Tracker
    PROVE  /\ Grows(t, mark_both(t))
           /\ mark_both(t).frames[1].full /\ mark_both(t).frames[2].full
  <1>. DEFINE fs == [i \in 1..2 |-> [t.frames[i] EXCEPT !.full = TRUE]]
  <1>1. t.frames \in [1..2 -> Frame] /\ \A i \in 1..2 : t.frames[i] \in Frame BY DEF Tracker
  <1>2. mark_both(t) = [t EXCEPT !.frames = fs]
    <2>1. PICK f, g : f = [t.frames[1] EXCEPT !.full = TRUE] /\ g = [t.frames[2] EXCEPT !.full = TRUE]
      OBVIOUS
    <2>2. t.frames = [i \in 1..2 |-> t.frames[i]] /\ DOMAIN t.frames = 1..2 BY <1>1
    <2>3. fs = [i \in 1..2 |-> IF i = 1 THEN f ELSE g]
      <3>0. \A i \in 1..2 : i = 1 \/ i = 2 OBVIOUS
      <3>1. \A i \in 1..2 : [t.frames[i] EXCEPT !.full = TRUE] = IF i = 1 THEN f ELSE g
        <4>. TAKE i \in 1..2
        <4>1. CASE i = 1 BY <2>1, <4>1, Zenon
        <4>2. CASE i # 1
          <5>1. i = 2 BY <3>0, <4>2, Zenon
          <5>2. [t.frames[i] EXCEPT !.full = TRUE] = g BY <2>1, <5>1, Zenon
          <5>. QED BY <4>2, <5>2, Zenon
        <4>. QED BY <4>1, <4>2
      <3>. QED BY <3>1, Zenon
    <2>4. [[t.frames EXCEPT ![1] = f] EXCEPT ![2] = g] = [i \in 1..2 |-> IF i = 1 THEN f ELSE g]
      BY <2>2
    <2>5. mark_both(t) = [[t EXCEPT !.frames[1] = f] EXCEPT !.frames[2] = g]
      <3>1. PICK u : u = [t EXCEPT !.frames[1] = f] OBVIOUS
      <3>2. u.frames[2] = t.frames[2] BY <1>1, <3>1 DEF Tracker
      <3>3. u = [t EXCEPT !.frames[1].full = TRUE] BY <2>1, <3>1, Zenon
      <3>4. mark_both(t) = [u EXCEPT !.frames[2].full = TRUE] BY <3>3, Zenon DEF mark_both
      <3>5. mark_both(t) = [u EXCEPT !.frames[2] = [u.frames[2] EXCEPT !.full = TRUE]] BY <3>4, Zenon
      <3>. QED BY <2>1, <3>1, <3>2, <3>5, Zenon
    <2>6. [[t EXCEPT !.frames[1] = f] EXCEPT !.frames[2] = g]
          = [t EXCEPT !.frames = [[t.frames EXCEPT ![1] = f] EXCEPT ![2] = g]]
      BY <1>1 DEF Tracker
    <2>. QED BY <2>3, <2>4, <2>5, <2>6
  <1>3. \A i \in 1..2 : FrameGrows(t.frames[i], fs[i]) /\ fs[i].full BY <1>1, FullGrows
  <1>4. DOMAIN fs = 1..2 /\ fs = [i \in 1..2 |-> fs[i]] OBVIOUS
  <1>. HIDE DEF fs
  <1>. QED BY <1>2, <1>3, <1>4, BothFrames

(* Cells of a line are damaged in both frames. *)
LEMMA BothLinesLaw ==
    ASSUME NEW t \in Tracker, NEW line \in LinesOfFrame, NEW left \in Nat, NEW right \in Nat,
           NEW cells \in SUBSET FrameCells, \A c \in cells : c[1] = line /\ left <= c[2] /\ c[2] <= right
    PROVE  LET u == both_lines(t, line, left, right)
           IN  Grows(t, u) /\ FrameCovers(u.frames[1], cells) /\ FrameCovers(u.frames[2], cells)
  <1>. DEFINE fs == [i \in 1..2 |-> damage_frame_line(t.frames[i], line, left, right)]
  <1>1. \A i \in 1..2 : t.frames[i] \in Frame BY DEF Tracker
  <1>2. both_lines(t, line, left, right) = [t EXCEPT !.frames = fs] BY Zenon DEF both_lines
  <1>3. \A i \in 1..2 : FrameGrows(t.frames[i], fs[i]) /\ FrameCovers(fs[i], cells)
    BY <1>1, DamageLineLaw DEF FrameCovers
  <1>4. DOMAIN fs = 1..2 /\ fs = [i \in 1..2 |-> fs[i]] OBVIOUS
  <1>. HIDE DEF fs
  <1>5. /\ Grows(t, [t EXCEPT !.frames = fs]) /\ [t EXCEPT !.frames = fs].frames = fs
    BY <1>3, <1>4, BothFrames
  <1>. QED BY <1>2, <1>3, <1>5

-----------------------------------------------------------------------------
(* What Display::draw damages *)

(* u repaints what t does. *)
Repaints(t, u) == u \in Tracker /\ \A i \in 1..2 : FrameGrows(t.frames[i], u.frames[i])

(* Steps that keep what is repainted follow each other, *)
LEMMA RepaintsTrans ==
    ASSUME NEW t, NEW u, NEW v, Repaints(t, u), Repaints(u, v)
    PROVE  Repaints(t, v)
  <1>1. \A i \in 1..2 : FrameGrows(t.frames[i], v.frames[i])
    <2>. TAKE i \in 1..2
    <2>1. FrameGrows(t.frames[i], u.frames[i]) /\ FrameGrows(u.frames[i], v.frames[i]) BY DEF Repaints
    <2>. QED BY <2>1, Zenon DEF FrameGrows
  <1>. QED BY <1>1 DEF Repaints

(* and those that remember the same are among them. *)
LEMMA GrowsRepaints ==
    ASSUME NEW t, NEW u, Grows(t, u)
    PROVE  Repaints(t, u) /\ u.old_vi = t.old_vi /\ u.old_sel = t.old_sel
  BY DEF Grows, Repaints

(* A repainted cell stays one. *)
LEMMA CoversKept ==
    ASSUME NEW t, NEW u, Repaints(t, u), NEW i \in 1..2, NEW cells \in SUBSET FrameCells,
           FrameCovers(t.frames[i], cells)
    PROVE  FrameCovers(u.frames[i], cells)
  <1>1. FrameGrows(t.frames[i], u.frames[i]) BY DEF Repaints
  <1>. QED BY <1>1, Zenon DEF FrameGrows, FrameCovers

(* A frame stays whole, *)
LEMMA FullKept ==
    ASSUME NEW t, NEW u, Repaints(t, u), NEW i \in 1..2, t.frames[i].full
    PROVE  u.frames[i].full
  BY DEF Repaints, FrameGrows

(* and repaints every cell. *)
LEMMA FullCovers ==
    ASSUME NEW f, f.full, NEW cells
    PROVE  FrameCovers(f, cells)
  BY DEF FrameCovers, IsRepainted

(* The vi cursor: where it is and where it was. *)
LEMMA DamageViLaw ==
    ASSUME NEW t \in Tracker, NEW vi \in SUBSET Grid2
    PROVE  LET u == damage_vi_cursor(t, vi)
           IN  /\ Repaints(t, u) /\ u.old_vi = vi /\ u.old_sel = t.old_sel
               /\ FrameCovers(u.frames[1], (vi \cup t.old_vi) \cap FrameCells)
  <1>. PICK u : u = damage_vi_cursor(t, vi) OBVIOUS
  <1>. PICK s : s = [t EXCEPT !.old_vi = vi] OBVIOUS
  <1>. PICK cells : cells = (vi \cup t.old_vi) \cap FrameCells OBVIOUS
  <1>1. s \in Tracker /\ s.old_vi = vi /\ s.old_sel = t.old_sel /\ s.frames = t.frames
    BY DEF Tracker
  <1>2. Grows(s, s) /\ Repaints(t, s) BY <1>1, GrowsSame, GrowsRepaints DEF Repaints
  <1>3. CASE t.frames[1].full
    <2>1. u = s BY <1>3 DEF damage_vi_cursor
    <2>2. FrameCovers(s.frames[1], cells) BY <1>1, <1>3, FullCovers
    <2>. QED BY <1>1, <1>2, <2>1, <2>2
  <1>4. CASE ~t.frames[1].full
    <2>1. u = [s EXCEPT !.frames[1] = damage_points(@, cells)] BY <1>4, Zenon DEF damage_vi_cursor
    <2>2. cells \in SUBSET FrameCells OBVIOUS
    <2>3. Grows(s, u) /\ FrameCovers(u.frames[1], cells)
      <3>. DEFINE v == [s EXCEPT !.frames[1] = damage_points(@, cells)]
      <3>1. s \in Tracker BY <1>1
      <3>2. Grows(s, v) /\ FrameCovers(v.frames[1], cells) BY ONLY <2>2, <3>1, PointsLaw
      <3>. HIDE DEF v
      <3>3. u = v BY <2>1, Zenon DEF v
      <3>. QED BY <3>2, <3>3
    <2>4. Repaints(t, u) /\ u.old_vi = vi /\ u.old_sel = t.old_sel
      BY <1>1, <1>2, <2>3, GrowsRepaints, RepaintsTrans
    <2>. QED BY <2>3, <2>4
  <1>. QED BY <1>3, <1>4

(* Selections are pairs of a first and a last line. *)
Ranges == {r \in Grid2 : r[1] <= r[2]}
(* The cells of a selection *)
SelectionCells(sel, offset) == {c \in FrameCells : \E r \in sel : c[1] - offset \in r[1]..r[2]}

(* The lines of a selection are found wherever the view is. *)
LEMMA SelectedLinesLaw ==
    ASSUME NEW r \in Ranges, NEW offset \in Nat, NEW l \in LinesOfFrame, l - offset \in r[1]..r[2]
    PROVE  l \in SelectedLines(r, offset)
  <1>. PICK a, b, n : a = r[1] /\ b = r[2] /\ n = FrameLines OBVIOUS
  <1>1. a \in Int /\ b \in Int /\ n \in Nat \ {0} /\ l \in 0..(n - 1) /\ a <= b
    BY FrameAssumption DEF Ranges, Grid2, LinesOfFrame
  <1>2. a <= l - offset /\ l - offset <= b BY <1>1
  <1>3. ~(b + offset < 0 \/ (IF a < 0 THEN -a ELSE a) < offset - (n - 1)) BY <1>1, <1>2
  <1>4. SelectedLines(r, offset) = MaxOf(a + offset, 0)..Clamp(b + offset, 0, n - 1)
    BY <1>3 DEF SelectedLines
  <1>. QED BY <1>1, <1>2, <1>4 DEF MaxOf, MinOf, Clamp

(* The selection: where it is and where it was, if it has changed. *)
LEMMA DamageSelectionLaw ==
    ASSUME NEW t \in Tracker, NEW sel \in SUBSET Ranges, t.old_sel \subseteq Ranges, NEW offset \in Nat
    PROVE  LET u == damage_selection(t, sel, offset)
           IN  /\ Repaints(t, u) /\ u.old_vi = t.old_vi /\ u.old_sel = sel
               /\ sel = t.old_sel \/ FrameCovers(u.frames[1], SelectionCells(sel \cup t.old_sel, offset))
  <1>. PICK u : u = damage_selection(t, sel, offset) OBVIOUS
  <1>. PICK s : s = [t EXCEPT !.old_sel = sel] OBVIOUS
  <1>. PICK lines : lines = UNION {SelectedLines(r, offset) : r \in sel \cup t.old_sel} OBVIOUS
  <1>. PICK cells : cells = {c \in FrameCells : c[1] \in lines} OBVIOUS
  <1>. PICK wanted : wanted = SelectionCells(sel \cup t.old_sel, offset) OBVIOUS
  <1>1. s \in Tracker /\ s.old_sel = sel /\ s.old_vi = t.old_vi /\ s.frames = t.frames
    <2>1. sel \subseteq Grid2 BY DEF Ranges
    <2>. QED BY <2>1 DEF Tracker
  <1>2. Grows(s, s) /\ Repaints(t, s) BY <1>1, GrowsSame, GrowsRepaints DEF Repaints
  <1>3. CASE t.frames[1].full \/ sel = t.old_sel
    <2>1. u = s BY <1>3 DEF damage_selection
    <2>2. t.frames[1].full => FrameCovers(s.frames[1], wanted) BY <1>1, FullCovers
    <2>. QED BY <1>1, <1>2, <1>3, <2>1, <2>2
  <1>4. CASE ~(t.frames[1].full \/ sel = t.old_sel)
    <2>1. u = [s EXCEPT !.frames[1] = damage_points(@, cells)] BY <1>4, Zenon DEF damage_selection
    <2>2. cells \in SUBSET FrameCells OBVIOUS
    <2>3. Grows(s, u) /\ FrameCovers(u.frames[1], cells)
      <3>. DEFINE v == [s EXCEPT !.frames[1] = damage_points(@, cells)]
      <3>1. s \in Tracker BY <1>1
      <3>2. Grows(s, v) /\ FrameCovers(v.frames[1], cells) BY ONLY <2>2, <3>1, PointsLaw
      <3>. HIDE DEF v
      <3>3. u = v BY <2>1, Zenon DEF v
      <3>. QED BY <3>2, <3>3
    <2>4. Repaints(t, u) /\ u.old_vi = t.old_vi /\ u.old_sel = sel
      BY <1>1, <1>2, <2>3, GrowsRepaints, RepaintsTrans
    <2>5. ASSUME NEW c \in wanted PROVE c \in cells
      <3>1. c \in FrameCells /\ c[1] \in LinesOfFrame BY CellParts DEF SelectionCells
      <3>2. PICK r \in sel \cup t.old_sel : c[1] - offset \in r[1]..r[2] BY DEF SelectionCells
      <3>3. r \in Ranges OBVIOUS
      <3>4. c[1] \in SelectedLines(r, offset) BY <3>1, <3>2, <3>3, SelectedLinesLaw
      <3>. QED BY <3>1, <3>4
    <2>6. FrameCovers(u.frames[1], wanted) BY <2>3, <2>5 DEF FrameCovers
    <2>. QED BY <2>4, <2>6
  <1>. QED BY <1>3, <1>4

-----------------------------------------------------------------------------
(* The scene *)

(* What there may be to draw *)
Scene == [vi : SUBSET (Int \X Nat), sel : SUBSET Ranges, offset : Nat, overlay : BOOLEAN,
          timer : BOOLEAN, hint : SUBSET Int, mouse : Int]

(* The preview of a link is on a line of the screen. *)
LEMMA PreviewOnScreen ==
    ASSUME NEW s \in Scene
    PROVE  PreviewLine(s) \in LinesOfFrame
  <1>. DEFINE cursor == IF s.vi = {} THEN 0 ELSE (CHOOSE p \in s.vi : TRUE)[1]
  <1>. PICK o, n, m, k : o = s.offset /\ n = FrameLines /\ m = s.mouse /\ k = cursor OBVIOUS
  <1>1. o \in Nat /\ n \in Nat \ {0} /\ m \in Int BY FrameAssumption DEF Scene
  <1>2. k \in Int
    <2>1. CASE s.vi = {} BY <2>1
    <2>2. CASE s.vi # {}
      <3>1. PICK p : p = CHOOSE q \in s.vi : TRUE OBVIOUS
      <3>2. p \in s.vi BY <2>2, <3>1
      <3>3. p \in Int \X Nat BY <3>2 DEF Scene
      <3>. QED BY <2>2, <3>1, <3>3
    <2>. QED BY <2>1, <2>2
  <1>. HIDE DEF cursor
  <1>3. PICK free : free = ((0 - o)..(n - 1 - o)) \ (IF n > 2 THEN {m, k} ELSE {}) OBVIOUS
  <1>4. PreviewLine(s) = Max(free) + o BY <1>3 DEF PreviewLine, cursor
  <1>5. free # {}
    <2>1. CASE n > 2
      <3>1. -o \in free \/ 1 - o \in free \/ 2 - o \in free BY <1>1, <1>2, <1>3, <2>1
      <3>. QED BY <3>1
    <2>2. CASE ~(n > 2)
      <3>1. 0 - o \in free BY <1>1, <1>3, <2>2
      <3>. QED BY <3>1
    <2>. QED BY <2>1, <2>2
  <1>6. Max(free) \in free
    <2>1. PICK a \in Int, b \in Int : a = 0 - o /\ b = n - 1 - o BY <1>1
    <2>2. free \in SUBSET (a..b) BY <1>3, <2>1
    <2>. QED BY <1>5, <2>2, ExtremeInts
  <1>7. Max(free) \in (0 - o)..(n - 1 - o) BY <1>3, <1>6
  <1>. QED BY <1>1, <1>4, <1>7 DEF LinesOfFrame

(* The vi cursor in the viewport. *)
LEMMA ViewportPoints ==
    ASSUME NEW offset \in Nat, NEW points \in SUBSET (Int \X Nat)
    PROVE  point_to_viewport(offset, points) \in SUBSET Grid2
  BY DEF point_to_viewport, Grid2

(* What is drawn over the grid, and has to be drawn over when it is gone: f repaints it. *)
Gone(f, s) ==
    \/ f.full
    \/ /\ ~s.overlay
       /\ s.vi # {} => FrameCovers(f, IndicatorCells)
       /\ s.timer => FrameCovers(f, TimerCells)
       /\ s.hint # {} => FrameCovers(f, PreviewCells(s))

(* What is drawn differently in two scenes with the same view is where an element was or
   is drawn. *)
LEMMA ChangedCells ==
    ASSUME NEW old \in Scene, NEW new \in Scene, NEW cells, NEW c \in Changed(old, new, cells),
           old.offset = new.offset, old.hint = new.hint, ~old.overlay, ~new.overlay
    PROVE  \/ c \in cells
           \/ c \in point_to_viewport(new.offset, new.vi) \cup point_to_viewport(old.offset, old.vi)
           \/ new.sel # old.sel /\ c \in SelectionCells(new.sel \cup old.sel, new.offset)
           \/ new.hint # {} /\ c \in PreviewCells(new) \cup PreviewCells(old)
           \/ new.vi # {} /\ c \in IndicatorCells
           \/ old.vi # {} /\ c \in IndicatorCells
           \/ (new.timer \/ old.timer) /\ c \in TimerCells
  <1>0. c \in FrameCells BY DEF Changed
  <1>1. CASE c \in cells \/ (c \in TimerCells /\ (old.timer \/ new.timer)) BY <1>1
  <1>2. CASE Looks(old, c) # Looks(new, c)
    <2>. SUFFICES ASSUME c \notin point_to_viewport(new.offset, new.vi),
                         c \notin point_to_viewport(old.offset, old.vi),
                         ~(new.sel # old.sel /\ c \in SelectionCells(new.sel \cup old.sel, new.offset)),
                         ~(new.hint # {} /\ c \in PreviewCells(new) \cup PreviewCells(old)),
                         ~(new.vi # {} /\ c \in IndicatorCells),
                         ~(old.vi # {} /\ c \in IndicatorCells)
                  PROVE  FALSE
      OBVIOUS
    <2>1. (c \in point_to_viewport(old.offset, old.vi)) = (c \in point_to_viewport(new.offset, new.vi)) OBVIOUS
    <2>2. (\E r \in old.sel : c[1] - old.offset \in r[1]..r[2])
          = (\E r \in new.sel : c[1] - new.offset \in r[1]..r[2])
      <3>1. CASE old.sel = new.sel BY <3>1
      <3>2. CASE old.sel # new.sel
        <4>1. ~\E r \in new.sel \cup old.sel : c[1] - new.offset \in r[1]..r[2]
          BY <1>0, <3>2, Zenon DEF SelectionCells
        <4>. QED BY <4>1
      <3>. QED BY <3>1, <3>2
    <2>3. old.overlay = new.overlay BY DEF Scene
    <2>4. (c \in HintCells(old)) = (c \in HintCells(new)) BY DEF HintCells
    <2>5. (c \in PreviewCells(old)) = (c \in PreviewCells(new))
      <3>1. CASE new.hint # {} BY <3>1
      <3>2. CASE new.hint = {} BY <3>2 DEF PreviewCells
      <3>. QED BY <3>1, <3>2
    <2>6. (IF c \in IndicatorCells THEN old.vi ELSE {}) = (IF c \in IndicatorCells THEN new.vi ELSE {})
      OBVIOUS
    <2>7. Looks(old, c) = Looks(new, c) BY <2>1, <2>2, <2>3, <2>4, <2>5, <2>6, Zenon DEF Looks
    <2>. QED BY <1>2, <2>7
  <1>. QED BY <1>1, <1>2 DEF Changed

(* The invariant: the next frame repaints whatever is stale, and what the last one drew
   over the grid; the tracker remembers where the last frame had the vi cursor and the
   selection. *)
DamageInv ==
    /\ tracker \in Tracker /\ scene \in Scene /\ drawn \in Scene
    /\ touched \subseteq FrameCells /\ stale \subseteq FrameCells
    /\ tracker.old_vi = point_to_viewport(drawn.offset, drawn.vi)
    /\ tracker.old_sel = drawn.sel
    /\ Gone(tracker.frames[1], drawn)
    /\ tracker.frames[1].full \/ (stale = {} /\ scene.hint = drawn.hint)

(* The overlays of the window's contents, in this frame and in the next. *)
LEMMA OverlayCells ==
    ASSUME NEW s \in Scene
    PROVE  /\ IndicatorCells \subseteq FrameCells /\ TimerCells \subseteq FrameCells /\ PreviewCells(s) \subseteq FrameCells
           /\ \A c \in IndicatorCells : c[1] = 0
                /\ SaturatingSub(FrameColumns, IndicatorLength) <= c[2] /\ c[2] <= FrameColumns - 1
           /\ \A c \in TimerCells : c[1] = SaturatingSub(FrameLines, 2) /\ 0 <= c[2] /\ c[2] <= TimerLength
           /\ \A c \in PreviewCells(s) : c[1] = PreviewLine(s) /\ 0 <= c[2] /\ c[2] <= FrameColumns
           /\ SaturatingSub(FrameColumns, IndicatorLength) \in Nat /\ FrameColumns - 1 \in Nat
           /\ 0 \in LinesOfFrame /\ SaturatingSub(FrameLines, 2) \in LinesOfFrame
           /\ PreviewLine(s) \in LinesOfFrame
  <1>1. \A c \in FrameCells : c[2] \in Nat /\ c[2] <= FrameColumns - 1 BY CellParts, FrameAssumption
  <1>2. PreviewLine(s) \in LinesOfFrame BY PreviewOnScreen
  <1>3. /\ SaturatingSub(FrameColumns, IndicatorLength) \in Nat /\ FrameColumns - 1 \in Nat
        /\ 0 \in LinesOfFrame /\ SaturatingSub(FrameLines, 2) \in LinesOfFrame
    BY FrameAssumption DEF SaturatingSub, LinesOfFrame
  <1>4. \A c \in IndicatorCells : c \in FrameCells /\ c[1] = 0 /\ SaturatingSub(FrameColumns, IndicatorLength) <= c[2]
    BY <1>1, <1>3 DEF IndicatorCells
  <1>5. \A c \in TimerCells : c \in FrameCells /\ c[1] = SaturatingSub(FrameLines, 2) /\ c[2] < TimerLength
    BY DEF TimerCells
  <1>6. \A c \in PreviewCells(s) : c \in FrameCells /\ c[1] = PreviewLine(s)
    BY DEF PreviewCells
  <1>7. FrameColumns \in Nat /\ TimerLength \in Nat BY FrameAssumption
  <1>. QED BY <1>1, <1>2, <1>3, <1>4, <1>5, <1>6, <1>7

(* An element that may be drawn, and damages both frames. *)
LEMMA ElementLaw ==
    ASSUME NEW t \in Tracker, NEW u, NEW line \in LinesOfFrame, NEW left \in Nat, NEW right \in Nat,
           u = both_lines(t, line, left, right) \/ u = t,
           NEW cells \in SUBSET FrameCells, \A c \in cells : c[1] = line /\ left <= c[2] /\ c[2] <= right
    PROVE  /\ Repaints(t, u) /\ u.old_vi = t.old_vi /\ u.old_sel = t.old_sel
           /\ u = both_lines(t, line, left, right) =>
                FrameCovers(u.frames[1], cells) /\ FrameCovers(u.frames[2], cells)
  <1>1. CASE u = both_lines(t, line, left, right)
    <2>1. Grows(t, u) /\ FrameCovers(u.frames[1], cells) /\ FrameCovers(u.frames[2], cells)
      BY <1>1, BothLinesLaw
    <2>. QED BY <2>1, GrowsRepaints
  <1>2. CASE u # both_lines(t, line, left, right)
    <2>1. u = t BY <1>2
    <2>. QED BY <1>2, <2>1, GrowsSame, GrowsRepaints
  <1>. QED BY <1>1, <1>2

(* Either a law of the tracker holds, or nothing has changed. *)
LEMMA MaybeMark ==
    ASSUME NEW t \in Tracker, NEW u, NEW on \in BOOLEAN
    PROVE  /\ u = (IF on THEN mark_frame(t) ELSE t) =>
                /\ Repaints(t, u) /\ u.old_vi = t.old_vi /\ u.old_sel = t.old_sel
                /\ on => u.frames[1].full
           /\ u = (IF on THEN mark_both(t) ELSE t) =>
                /\ Repaints(t, u) /\ u.old_vi = t.old_vi /\ u.old_sel = t.old_sel
                /\ on => u.frames[1].full /\ u.frames[2].full
  <1>1. CASE on
    BY <1>1, MarkFrameLaw, MarkBothLaw, GrowsRepaints
  <1>2. CASE ~on
    BY <1>2, GrowsSame, GrowsRepaints
  <1>. QED BY <1>1, <1>2

(* The frame after this one: what this one draws over the grid is left to it. *)
LEMMA SwapLaw ==
    ASSUME NEW t \in Tracker
    PROVE  LET u == swap_damage(t)
           IN  u \in Tracker /\ u.frames[1] = t.frames[2] /\ u.old_vi = t.old_vi /\ u.old_sel = t.old_sel
  <1>. PICK fs : fs = <<t.frames[2], UndamagedFrame>> OBVIOUS
  <1>1. t.frames[2] \in Frame BY DEF Tracker
  <1>2. fs \in [1..2 -> Frame] /\ fs[1] = t.frames[2]
    <2>. HIDE DEF Frame
    <2>. QED BY <1>1, UndamagedIsFrame
  <1>3. swap_damage(t) = [t EXCEPT !.frames = fs] BY DEF swap_damage
  <1>. QED BY <1>2, <1>3 DEF Tracker

(* A frame is drawn. *)
LEMMA DrawKeeps ==
    ASSUME DamageInv, DrawFrame
    PROVE  DamageInv'
  <1>. DEFINE full == drawn.offset # scene.offset
              t1   == IF full THEN mark_frame(tracker)
                      ELSE [tracker EXCEPT !.frames[1] = damage_points(@, touched)]
              drop == HintDropped(t1.frames[1])
              s    == IF drop THEN [scene EXCEPT !.hint = {}] ELSE scene
              t2   == IF drop THEN mark_frame(t1) ELSE t1
              t3   == IF s.overlay THEN mark_both(t2) ELSE t2
              t4   == damage_vi_cursor(t3, point_to_viewport(s.offset, s.vi))
              t5   == damage_selection(t4, s.sel, s.offset)
              t6   == [t5 EXCEPT !.frames[1] = damage_points(@, HintCells(s))]
              t7   == IF s.vi # {} THEN both_lines(t6, 0, SaturatingSub(FrameColumns, IndicatorLength), FrameColumns - 1)
                      ELSE t6
              t8   == IF s.timer THEN both_lines(t7, SaturatingSub(FrameLines, 2), 0, TimerLength) ELSE t7
              t9   == IF s.hint # {} THEN both_lines(t8, PreviewLine(s), 0, FrameColumns) ELSE t8
              R(i) == {c \in FrameCells : IsRepainted(t9.frames[i], c)}
  <1>1. /\ tracker' = swap_damage(t9)
        /\ stale' = {c \in stale \cup Changed(drawn, s, touched) : ~IsRepainted(t9.frames[1], c)}
        /\ scene' = s /\ drawn' = s /\ touched' = {}
    BY DrawFrame, Zenon DEF DrawFrame
  <1>2. /\ tracker \in Tracker /\ scene \in Scene /\ drawn \in Scene
        /\ touched \in SUBSET FrameCells /\ stale \subseteq FrameCells
        /\ tracker.old_vi = point_to_viewport(drawn.offset, drawn.vi)
        /\ tracker.old_sel = drawn.sel
    BY DEF DamageInv
  <1>3. /\ Repaints(tracker, t1) /\ t1.old_vi = tracker.old_vi /\ t1.old_sel = tracker.old_sel
        /\ full => t1.frames[1].full
        /\ FrameCovers(t1.frames[1], touched)
    <2>. HIDE DEF full
    <2>1. CASE full
      <3>1. t1 = mark_frame(tracker) BY <2>1
      <3>2. Grows(tracker, t1) /\ t1.frames[1].full BY <1>2, <3>1, MarkFrameLaw
      <3>. HIDE DEF t1
      <3>. QED BY <3>2, GrowsRepaints, FullCovers
    <2>2. CASE ~full
      <3>. DEFINE v == [tracker EXCEPT !.frames[1] = damage_points(@, touched)]
      <3>1. Grows(tracker, v) /\ FrameCovers(v.frames[1], touched) BY ONLY <1>2, PointsLaw
      <3>. HIDE DEF v
      <3>2. t1 = v BY <2>2, Zenon DEF v
      <3>. HIDE DEF t1
      <3>. QED BY <2>2, <3>1, <3>2, GrowsRepaints
    <2>. QED BY <2>1, <2>2
  <1>4. drop \in BOOLEAN BY Zenon DEF HintDropped
  <1>. HIDE DEF t1
  <1>5. /\ s \in Scene /\ s.offset = scene.offset /\ s.vi = scene.vi /\ s.sel = scene.sel
        /\ s.overlay = scene.overlay /\ s.timer = scene.timer /\ (~drop => s = scene)
    <2>. HIDE DEF drop
    <2>. QED BY <1>2 DEF Scene
  <1>6. /\ Repaints(t1, t2) /\ t2.old_vi = t1.old_vi /\ t2.old_sel = t1.old_sel
        /\ drop => t2.frames[1].full
    <2>. HIDE DEF drop
    <2>. QED BY <1>3, <1>4, MaybeMark DEF Repaints
  <1>. HIDE DEF drop, s, t2
  <1>7. s.overlay \in BOOLEAN /\ s.timer \in BOOLEAN /\ s.offset \in Nat /\ s.sel \in SUBSET Ranges
        /\ s.vi \in SUBSET (Int \X Nat)
    BY <1>5 DEF Scene
  <1>8. /\ Repaints(t2, t3) /\ t3.old_vi = t2.old_vi /\ t3.old_sel = t2.old_sel
        /\ s.overlay => t3.frames[1].full /\ t3.frames[2].full
    BY <1>6, <1>7, MaybeMark DEF Repaints
  <1>. HIDE DEF t3
  <1>. DEFINE vi == point_to_viewport(s.offset, s.vi)
  <1>9. vi \in SUBSET Grid2 BY <1>7, ViewportPoints
  <1>10. /\ Repaints(t3, t4) /\ t4.old_vi = vi /\ t4.old_sel = t3.old_sel
         /\ FrameCovers(t4.frames[1], (vi \cup t3.old_vi) \cap FrameCells)
    <2>. HIDE DEF vi
    <2>1. t4 = damage_vi_cursor(t3, vi) BY Zenon DEF vi
    <2>. HIDE DEF t4
    <2>. QED BY <1>8, <1>9, <2>1, DamageViLaw DEF Repaints
  <1>. HIDE DEF t4
  <1>11. t4.old_sel = drawn.sel /\ drawn.sel \subseteq Ranges
    BY <1>2, <1>3, <1>6, <1>8, <1>10 DEF Scene
  <1>12. /\ Repaints(t4, t5) /\ t5.old_vi = t4.old_vi /\ t5.old_sel = s.sel
         /\ s.sel = drawn.sel \/ FrameCovers(t5.frames[1], SelectionCells(s.sel \cup drawn.sel, s.offset))
    BY <1>7, <1>10, <1>11, DamageSelectionLaw DEF Repaints
  <1>. HIDE DEF t5
  <1>13. Repaints(t5, t6) /\ t6.old_vi = t5.old_vi /\ t6.old_sel = t5.old_sel
    <2>1. t5 \in Tracker BY <1>12 DEF Repaints
    <2>2. HintCells(s) \in SUBSET FrameCells BY DEF HintCells
    <2>3. Grows(t5, t6) BY ONLY <2>1, <2>2, PointsLaw
    <2>. HIDE DEF t6
    <2>. QED BY <2>3, GrowsRepaints
  <1>. HIDE DEF t6
  <1>14. /\ Repaints(t6, t7) /\ t7.old_vi = t6.old_vi /\ t7.old_sel = t6.old_sel
         /\ s.vi # {} => FrameCovers(t7.frames[1], IndicatorCells) /\ FrameCovers(t7.frames[2], IndicatorCells)
    <2>1. t6 \in Tracker BY <1>13 DEF Repaints
    <2>2. PICK l \in Nat, r \in Nat, line \in LinesOfFrame :
            /\ l = SaturatingSub(FrameColumns, IndicatorLength) /\ r = FrameColumns - 1
            /\ line = 0
      BY <1>5, OverlayCells
    <2>3. (s.vi # {} => t7 = both_lines(t6, line, l, r)) /\ (t7 = both_lines(t6, line, l, r) \/ t7 = t6)
      BY <2>2, Zenon
    <2>4. IndicatorCells \in SUBSET FrameCells /\ \A c \in IndicatorCells : c[1] = line /\ l <= c[2] /\ c[2] <= r
      BY <1>5, <2>2, OverlayCells
    <2>. HIDE DEF t7
    <2>5. PICK cells : cells = IndicatorCells OBVIOUS
    <2>6. cells \in SUBSET FrameCells /\ \A c \in cells : c[1] = line /\ l <= c[2] /\ c[2] <= r
      BY <2>4, <2>5, Zenon
    <2>7. /\ Repaints(t6, t7) /\ t7.old_vi = t6.old_vi /\ t7.old_sel = t6.old_sel
          /\ t7 = both_lines(t6, line, l, r) => FrameCovers(t7.frames[1], cells) /\ FrameCovers(t7.frames[2], cells)
      BY <2>1, <2>3, <2>6, ElementLaw
    <2>. QED BY <2>3, <2>5, <2>7, Zenon
  <1>. HIDE DEF t7
  <1>15. /\ Repaints(t7, t8) /\ t8.old_vi = t7.old_vi /\ t8.old_sel = t7.old_sel
         /\ s.timer => FrameCovers(t8.frames[1], TimerCells) /\ FrameCovers(t8.frames[2], TimerCells)
    <2>1. t7 \in Tracker BY <1>14 DEF Repaints
    <2>2. PICK l \in Nat, r \in Nat, line \in LinesOfFrame :
            l = 0 /\ r = TimerLength /\ line = SaturatingSub(FrameLines, 2)
      BY <1>5, <1>7, OverlayCells, FrameAssumption
    <2>3. (s.timer => t8 = both_lines(t7, line, l, r)) /\ (t8 = both_lines(t7, line, l, r) \/ t8 = t7)
      BY <2>2, Zenon
    <2>4. TimerCells \in SUBSET FrameCells /\ \A c \in TimerCells : c[1] = line /\ l <= c[2] /\ c[2] <= r
      BY <1>5, <2>2, OverlayCells
    <2>. HIDE DEF t8
    <2>5. PICK cells : cells = TimerCells OBVIOUS
    <2>6. cells \in SUBSET FrameCells /\ \A c \in cells : c[1] = line /\ l <= c[2] /\ c[2] <= r
      BY <2>4, <2>5, Zenon
    <2>7. /\ Repaints(t7, t8) /\ t8.old_vi = t7.old_vi /\ t8.old_sel = t7.old_sel
          /\ t8 = both_lines(t7, line, l, r) => FrameCovers(t8.frames[1], cells) /\ FrameCovers(t8.frames[2], cells)
      BY <2>1, <2>3, <2>6, ElementLaw
    <2>. QED BY <2>3, <2>5, <2>7, Zenon
  <1>. HIDE DEF t8
  <1>16. /\ Repaints(t8, t9) /\ t9.old_vi = t8.old_vi /\ t9.old_sel = t8.old_sel
         /\ s.hint # {} => FrameCovers(t9.frames[1], PreviewCells(s)) /\ FrameCovers(t9.frames[2], PreviewCells(s))
    <2>1. t8 \in Tracker BY <1>15 DEF Repaints
    <2>2. PICK l \in Nat, r \in Nat, line \in LinesOfFrame :
            l = 0 /\ r = FrameColumns /\ line = PreviewLine(s)
      BY <1>5, OverlayCells, FrameAssumption
    <2>3. (s.hint # {} => t9 = both_lines(t8, line, l, r)) /\ (t9 = both_lines(t8, line, l, r) \/ t9 = t8)
      BY <2>2, Zenon
    <2>4. PreviewCells(s) \in SUBSET FrameCells /\ \A c \in PreviewCells(s) : c[1] = line /\ l <= c[2] /\ c[2] <= r
      BY <1>5, <2>2, OverlayCells
    <2>. HIDE DEF t9
    <2>5. PICK cells : cells = PreviewCells(s) OBVIOUS
    <2>6. cells \in SUBSET FrameCells /\ \A c \in cells : c[1] = line /\ l <= c[2] /\ c[2] <= r
      BY <2>4, <2>5, Zenon
    <2>7. /\ Repaints(t8, t9) /\ t9.old_vi = t8.old_vi /\ t9.old_sel = t8.old_sel
          /\ t9 = both_lines(t8, line, l, r) => FrameCovers(t9.frames[1], cells) /\ FrameCovers(t9.frames[2], cells)
      BY <2>1, <2>3, <2>6, ElementLaw
    <2>. QED BY <2>3, <2>5, <2>7, Zenon
  <1>. HIDE DEF t9
  <1>17. /\ Repaints(t7, t9) /\ Repaints(t6, t9) /\ Repaints(t5, t9) /\ Repaints(t4, t9) /\ Repaints(t3, t9)
         /\ Repaints(t2, t9) /\ Repaints(t1, t9) /\ Repaints(tracker, t9)
    BY <1>3, <1>6, <1>8, <1>10, <1>12, <1>13, <1>14, <1>15, <1>16, RepaintsTrans
  <1>18. 1 \in 1..2 /\ 2 \in 1..2 OBVIOUS
  (* What this frame draws over the grid is left to the next. *)
  <1>19. Gone(t9.frames[2], s)
    <2>1. s.overlay => t9.frames[2].full BY <1>8, <1>17, <1>18, FullKept
    <2>2. s.vi # {} => FrameCovers(t9.frames[2], IndicatorCells)
      BY <1>14, <1>17, <1>18, CoversKept DEF IndicatorCells
    <2>3. s.timer => FrameCovers(t9.frames[2], TimerCells)
      BY <1>15, <1>16, <1>18, CoversKept DEF TimerCells
    <2>. QED BY <1>7, <1>16, <2>1, <2>2, <2>3, Zenon DEF Gone
  (* What is stale is repainted. *)
  <1>20. ASSUME NEW c \in stale' PROVE FALSE
    <2>1. c \in stale \cup Changed(drawn, s, touched) /\ ~IsRepainted(t9.frames[1], c) BY <1>1, <1>20
    <2>2. c \in FrameCells BY <1>2, <2>1 DEF Changed
    <2>3. ~t9.frames[1].full BY <2>1 DEF IsRepainted
    <2>4. ~tracker.frames[1].full /\ ~t1.frames[1].full /\ ~t2.frames[1].full /\ ~t3.frames[1].full
      BY <1>17, <1>18, <2>3, FullKept
    <2>5. stale = {} /\ scene.hint = drawn.hint /\ ~drawn.overlay
          /\ (drawn.vi # {} => FrameCovers(tracker.frames[1], IndicatorCells))
          /\ (drawn.timer => FrameCovers(tracker.frames[1], TimerCells))
          /\ (drawn.hint # {} => FrameCovers(tracker.frames[1], PreviewCells(drawn)))
      BY <2>4, Zenon DEF DamageInv, Gone
    <2>6. s = scene /\ drawn.offset = s.offset /\ ~s.overlay
      <3>1. ~full BY <1>3, <2>4
      <3>. QED BY <1>5, <1>6, <1>8, <2>4, <3>1 DEF full
    <2>7. c \in Changed(drawn, s, touched) BY <2>1, <2>5
    <2>8. \A cells \in SUBSET FrameCells : FrameCovers(t9.frames[1], cells) => c \notin cells
      BY <2>1 DEF FrameCovers
    <2>9. c \notin touched BY <1>2, <1>3, <1>17, <1>18, <2>8, CoversKept
    <2>10. c \notin vi \cup point_to_viewport(drawn.offset, drawn.vi)
      <3>1. t3.old_vi = point_to_viewport(drawn.offset, drawn.vi) BY <1>2, <1>3, <1>6, <1>8
      <3>2. (vi \cup t3.old_vi) \cap FrameCells \in SUBSET FrameCells OBVIOUS
      <3>. HIDE DEF vi
      <3>3. FrameCovers(t9.frames[1], (vi \cup t3.old_vi) \cap FrameCells)
        BY <1>10, <1>17, <1>18, <3>2, CoversKept
      <3>4. c \notin (vi \cup t3.old_vi) \cap FrameCells BY <2>8, <3>2, <3>3
      <3>. QED BY <2>2, <3>1, <3>4
    <2>11. s.sel # drawn.sel => c \notin SelectionCells(s.sel \cup drawn.sel, s.offset)
      <3>1. PICK cells : cells = SelectionCells(s.sel \cup drawn.sel, s.offset) OBVIOUS
      <3>2. s.sel # drawn.sel => FrameCovers(t5.frames[1], cells) BY <1>12, <3>1, Zenon
      <3>3. cells \in SUBSET FrameCells BY <3>1 DEF SelectionCells
      <3>4. s.sel # drawn.sel => c \notin cells BY <1>17, <1>18, <2>8, <3>2, <3>3, CoversKept
      <3>. QED BY <3>1, <3>4, Zenon
    <2>12. IndicatorCells \in SUBSET FrameCells /\ TimerCells \in SUBSET FrameCells
           /\ PreviewCells(s) \in SUBSET FrameCells /\ PreviewCells(drawn) \in SUBSET FrameCells
      BY DEF IndicatorCells, TimerCells, PreviewCells
    <2>13. s.hint # {} => c \notin PreviewCells(s) \cup PreviewCells(drawn)
      BY <1>16, <1>17, <1>18, <2>5, <2>6, <2>8, <2>12, CoversKept
    <2>14. s.vi # {} \/ drawn.vi # {} => c \notin IndicatorCells
      BY <1>14, <1>17, <1>18, <2>5, <2>8, <2>12, CoversKept
    <2>15. s.timer \/ drawn.timer => c \notin TimerCells
      BY <1>15, <1>16, <1>17, <1>18, <2>5, <2>8, <2>12, CoversKept
    <2>16. drawn.hint = s.hint BY <2>5, <2>6
    <2>. QED BY <1>2, <1>5, <2>5, <2>6, <2>7, <2>9, <2>10, <2>11, <2>13, <2>14, <2>15, <2>16, ChangedCells
  <1>21. t9 \in Tracker BY <1>17 DEF Repaints
  <1>22. t9.old_vi = vi /\ t9.old_sel = s.sel
    <2>. HIDE DEF vi
    <2>. QED BY <1>10, <1>12, <1>13, <1>14, <1>15, <1>16
  <1>23. /\ tracker' \in Tracker /\ tracker'.frames[1] = t9.frames[2]
         /\ tracker'.old_vi = vi /\ tracker'.old_sel = s.sel
    BY <1>1, <1>21, <1>22, SwapLaw
  <1>24. stale' = {} BY <1>20
  <1>. QED BY <1>1, <1>5, <1>19, <1>23, <1>24 DEF DamageInv

(* A new window, or one of a new size, is drawn whole. *)
LEMMA ResizeLaw ==
    ASSUME NEW t, t = [frames |-> t.frames, old_vi |-> t.old_vi, old_sel |-> t.old_sel],
           t.old_vi \subseteq Grid2, t.old_sel \subseteq Grid2
    PROVE  /\ resize_tracker(t) \in Tracker /\ resize_tracker(t).frames[1].full
           /\ resize_tracker(t).old_vi = t.old_vi /\ resize_tracker(t).old_sel = t.old_sel
  <1>. PICK f, g : f = [UndamagedFrame EXCEPT !.full = TRUE] /\ g = UndamagedFrame OBVIOUS
  <1>. PICK fs : fs = <<f, g>> OBVIOUS
  <1>1. f \in Frame /\ f.full /\ g \in Frame BY UndamagedIsFrame, FullGrows DEF FrameGrows
  <1>2. fs \in [1..2 -> Frame] /\ fs[1].full
    <2>. PICK F : F = Frame OBVIOUS
    <2>1. f \in F /\ g \in F BY <1>1
    <2>2. fs \in [1..2 -> F] /\ fs[1] = f BY ONLY <2>1, fs = <<f, g>>
    <2>. QED BY <1>1, <2>2
  <1>3. resize_tracker(t) = [t EXCEPT !.frames = fs] BY Zenon DEF resize_tracker
  <1>4. [t EXCEPT !.frames = fs] = [frames |-> fs, old_vi |-> t.old_vi, old_sel |-> t.old_sel]
    <2>. PICK a, b, c : a = t.frames /\ b = t.old_vi /\ c = t.old_sel OBVIOUS
    <2>1. t = [frames |-> a, old_vi |-> b, old_sel |-> c] BY Zenon
    <2>2. [t EXCEPT !.frames = fs] = [frames |-> fs, old_vi |-> b, old_sel |-> c] BY ONLY <2>1
    <2>. QED BY <2>2
  <1>. QED BY <1>2, <1>3, <1>4 DEF Tracker

(* The first frame is drawn whole. *)
LEMMA DamageStart ==
    ASSUME DamageInit
    PROVE  DamageInv
  <1>. PICK t : t = [frames |-> <<UndamagedFrame, UndamagedFrame>>, old_vi |-> {}, old_sel |-> {}] OBVIOUS
  <1>1. /\ tracker = resize_tracker(t) /\ drawn = scene /\ touched = {} /\ stale = FrameCells
        /\ scene = [vi |-> {}, sel |-> {}, offset |-> 0, overlay |-> FALSE, timer |-> FALSE,
                    hint |-> {}, mouse |-> 0]
    BY DEF DamageInit
  <1>2. scene \in Scene /\ scene.vi = {} /\ scene.sel = {} BY <1>1 DEF Scene
  <1>3. tracker \in Tracker /\ tracker.frames[1].full /\ tracker.old_vi = {} /\ tracker.old_sel = {}
    BY <1>1, ResizeLaw
  <1>4. point_to_viewport(drawn.offset, drawn.vi) = {} BY <1>1, <1>2 DEF point_to_viewport
  <1>. QED BY <1>1, <1>2, <1>3, <1>4 DEF DamageInv, Gone

(* Between two frames the scene changes: only a hint that does is damaged at once. *)
LEMMA SceneKeeps ==
    ASSUME DamageInv, NEW new \in Scene, new.hint = scene.hint, ChangeScene(new), UNCHANGED <<tracker, touched>>
    PROVE  DamageInv'
  BY DEF DamageInv, ChangeScene

(* What the user and the terminal change. *)
LEMMA ChangesKeep ==
    ASSUME DamageInv,
           \/ ToggleOverlay \/ RenderTimer
           \/ \E vi \in AtMostOne(ViPoints) : MoveVi(vi)
           \/ \E sel \in AtMostOne(SelectedRanges) : SelectLines(sel)
           \/ \E offset \in 0..MaxOffset : ScrollScene(offset)
    PROVE  DamageInv'
  <1>0. scene \in Scene BY DEF DamageInv
  <1>1. CASE ToggleOverlay
    <2>1. PICK new : new = [scene EXCEPT !.overlay = ~scene.overlay] OBVIOUS
    <2>2. new \in Scene /\ new.hint = scene.hint BY <1>0, <2>1 DEF Scene
    <2>. QED BY <1>1, <2>1, <2>2, SceneKeeps DEF ToggleOverlay
  <1>2. CASE RenderTimer
    <2>1. PICK new : new = [scene EXCEPT !.timer = ~scene.timer] OBVIOUS
    <2>2. new \in Scene /\ new.hint = scene.hint BY <1>0, <2>1 DEF Scene
    <2>. QED BY <1>2, <2>1, <2>2, SceneKeeps DEF RenderTimer
  <1>3. ASSUME NEW vi \in AtMostOne(ViPoints), MoveVi(vi) PROVE DamageInv'
    <2>1. PICK new : new = [scene EXCEPT !.vi = vi] OBVIOUS
    <2>2. vi \subseteq Int \X Nat BY FrameAssumption DEF AtMostOne
    <2>3. new \in Scene /\ new.hint = scene.hint BY <1>0, <2>1, <2>2 DEF Scene
    <2>. QED BY <1>3, <2>1, <2>3, SceneKeeps DEF MoveVi
  <1>4. ASSUME NEW sel \in AtMostOne(SelectedRanges), SelectLines(sel) PROVE DamageInv'
    <2>1. PICK new : new = [scene EXCEPT !.sel = sel] OBVIOUS
    <2>2. sel \subseteq Ranges BY FrameAssumption DEF AtMostOne, Ranges, Grid2
    <2>3. new \in Scene /\ new.hint = scene.hint BY <1>0, <2>1, <2>2 DEF Scene
    <2>. QED BY <1>4, <2>1, <2>3, SceneKeeps DEF SelectLines
  <1>5. ASSUME NEW offset \in 0..MaxOffset, ScrollScene(offset) PROVE DamageInv'
    <2>1. PICK new : new = [scene EXCEPT !.offset = offset] OBVIOUS
    <2>2. offset \in Nat BY FrameAssumption
    <2>3. new \in Scene /\ new.hint = scene.hint BY <1>0, <2>1, <2>2 DEF Scene
    <2>. QED BY <1>5, <2>1, <2>3, SceneKeeps DEF ScrollScene
  <1>. QED BY <1>1, <1>2, <1>3, <1>4, <1>5

(* A write of the terminal is damage that is still to be collected. *)
LEMMA WritingKeeps ==
    ASSUME DamageInv, NEW cell \in FrameCells, TerminalWrites(cell)
    PROVE  DamageInv'
  BY DEF DamageInv, TerminalWrites

(* Another hint makes the next frame whole; the same hint changes nothing that is drawn. *)
LEMMA HintKeeps ==
    ASSUME DamageInv, NEW hint \in AtMostOne(HintLines), NEW mouse \in HintLines, HighlightHint(hint, mouse)
    PROVE  DamageInv'
  <1>. PICK new : new = [scene EXCEPT !.hint = hint, !.mouse = mouse] OBVIOUS
  <1>1. scene' = new /\ UNCHANGED <<drawn, stale, touched>>
        /\ tracker' = (IF hint # scene.hint THEN mark_frame(tracker) ELSE tracker)
    BY Zenon DEF HighlightHint, ChangeScene
  <1>2. scene \in Scene /\ tracker \in Tracker BY DEF DamageInv
  <1>3. hint \subseteq Int /\ mouse \in Int BY FrameAssumption DEF AtMostOne
  <1>4. new \in Scene /\ new.hint = hint BY <1>2, <1>3 DEF Scene
  <1>5. CASE hint = scene.hint
    <2>1. tracker' = tracker BY <1>1, <1>5
    <2>. QED BY <1>1, <1>4, <1>5, <2>1 DEF DamageInv
  <1>6. CASE hint # scene.hint
    <2>1. tracker' = mark_frame(tracker) BY <1>1, <1>6
    <2>2. Grows(tracker, tracker') /\ tracker'.frames[1].full BY <1>2, <2>1, MarkFrameLaw
    <2>. QED BY <1>1, <1>4, <2>2 DEF DamageInv, Gone, Grows
  <1>. QED BY <1>5, <1>6

(* After a resize the next frame is drawn whole. *)
LEMMA ResizeKeeps ==
    ASSUME DamageInv, ResizeDisplay
    PROVE  DamageInv'
  <1>1. tracker' = resize_tracker(tracker) /\ UNCHANGED <<scene, drawn, touched, stale>> BY DEF ResizeDisplay
  <1>2. /\ tracker = [frames |-> tracker.frames, old_vi |-> tracker.old_vi, old_sel |-> tracker.old_sel]
        /\ tracker.old_vi \subseteq Grid2 /\ tracker.old_sel \subseteq Grid2
    <2>. HIDE DEF Frame, Grid2
    <2>. QED BY DEF DamageInv, Tracker
  <1>3. /\ tracker' \in Tracker /\ tracker'.frames[1].full
        /\ tracker'.old_vi = tracker.old_vi /\ tracker'.old_sel = tracker.old_sel
    BY <1>1, <1>2, ResizeLaw
  <1>. QED BY <1>1, <1>3 DEF DamageInv, Gone

(* DamageInv is an invariant of everything a window draws. *)
LEMMA DamageKept ==
    ASSUME DamageInv, [DamageNext]_damageVars
    PROVE  DamageInv'
  <1>1. CASE UNCHANGED damageVars BY <1>1 DEF damageVars, DamageInv
  <1>2. CASE DamageNext
    BY <1>2, DrawKeeps, ChangesKeep, WritingKeeps, HintKeeps, ResizeKeeps DEF DamageNext
  <1>. QED BY <1>1, <1>2

-----------------------------------------------------------------------------
(* The rectangles of the compositor *)

(* Rectangles, in pixels *)
Rect == [x : Nat, y : Nat, width : Nat, height : Nat]
(* A window of two by three pixels for every cell, and more. *)
WindowOK(size) ==
    /\ size.width \in Nat /\ size.height \in Nat /\ size.padding_x \in Nat /\ size.padding_y \in Nat
    /\ size.cell_width = 2 /\ size.cell_height = 3
    /\ FrameColumns * 2 + 2 * size.padding_x <= size.width
    /\ FrameLines * 3 + 2 * size.padding_y <= size.height

(* The windows of ShapedDamageCovers are of this kind, for every size of the frame. *)
LEMMA PixelSizesOK == \A size \in PixelSizes : WindowOK(size)
  BY FrameAssumption DEF PixelSizes, WindowOK

(* The rectangle does not reach out of the window. *)
InWindow(r, size) == r.x + r.width <= size.width /\ r.y + r.height <= size.height

(* Line damage of a frame. *)
LineDamage == [left : 0..FrameColumns, right : 0..FrameColumns]

(* The rectangle of a line is in the window and has all pixels of its cells. *)
LEMMA LineRect ==
    ASSUME NEW size, WindowOK(size), NEW l \in LinesOfFrame, NEW d \in LineDamage, d.left <= d.right
    PROVE  LET rect == overdamage(size, rect_for_line(size, l, d))
           IN  /\ rect \in Rect /\ InWindow(rect, size)
               /\ \A k \in d.left..d.right, x \in 0..1, y \in 0..2 : k < FrameColumns =>
                    Inside(rect, size.padding_x + k * 2 + x, size.height - 1 - (size.padding_y + l * 3 + y))
  <1>. PICK w, h, px, py, fl, fc, a, b :
         /\ w = size.width /\ h = size.height /\ px = size.padding_x /\ py = size.padding_y
         /\ fl = FrameLines /\ fc = FrameColumns /\ a = d.left /\ b = d.right
    OBVIOUS
  <1>1. /\ w \in Nat /\ h \in Nat /\ px \in Nat /\ py \in Nat /\ fl \in Nat \ {0} /\ fc \in Nat \ {0}
        /\ a \in 0..fc /\ b \in 0..fc /\ a <= b /\ l \in 0..(fl - 1)
        /\ fc * 2 + 2 * px <= w /\ fl * 3 + 2 * py <= h
    BY FrameAssumption DEF WindowOK, LineDamage, LinesOfFrame
  <1>2. PICK y0 \in Int : y0 = h - py - (l + 1) * 3 BY <1>1
  <1>3. y0 >= 0 /\ y0 + 3 <= h BY <1>1, <1>2
  <1>4. PICK r : r = rect_for_line(size, l, d) OBVIOUS
  <1>5. r = [x |-> px + a * 2, y |-> y0, width |-> (b - a + 1) * 2, height |-> 3]
    <2>1. r = [x |-> px + a * 2, y |-> SaturatingSub(SaturatingSub(h, py), (l + 1) * 3),
               width |-> (b - a + 1) * 2, height |-> 3]
      BY <1>4 DEF rect_for_line, WindowOK
    <2>2. SaturatingSub(SaturatingSub(h, py), (l + 1) * 3) = y0 BY <1>1, <1>2, <1>3 DEF SaturatingSub
    <2>. QED BY <2>1, <2>2
  <1>6. PICK x1 \in Int, y1 \in Int : x1 = MaxOf(px + a * 2 - 2, 0) /\ y1 = MaxOf(y0 - 1, 0)
    BY <1>1 DEF MaxOf
  <1>7. PICK w1 \in Int, h1 \in Int : /\ w1 = MinOf(MaxOf(w - x1, 0), (b - a + 1) * 2 + 2 * 2)
                                      /\ h1 = MinOf(MaxOf(h - y1, 0), 3 + 3)
    BY <1>1 DEF MaxOf, MinOf
  <1>8. overdamage(size, r) = [x |-> x1, y |-> y1, width |-> w1, height |-> h1]
    <2>1. 3 \div 2 = 1 OBVIOUS
    <2>2. r.x = px + a * 2 /\ r.y = y0 /\ r.width = (b - a + 1) * 2 /\ r.height = 3 BY <1>5
    <2>3. size.cell_width = 2 /\ size.cell_height = 3 /\ size.width = w /\ size.height = h BY DEF WindowOK
    <2>4. /\ x1 = MaxOf(r.x - size.cell_width, 0) /\ y1 = MaxOf(r.y - size.cell_height \div 2, 0)
          /\ w1 = MinOf(MaxOf(size.width - x1, 0), r.width + 2 * size.cell_width)
          /\ h1 = MinOf(MaxOf(size.height - y1, 0), r.height + size.cell_height)
      <3>1. size.cell_height \div 2 = 1 BY <2>1, <2>3, Zenon
      <3>2. r.x - size.cell_width = px + a * 2 - 2 /\ r.y - size.cell_height \div 2 = y0 - 1
        <4>1. PICK rx, cw : rx = r.x /\ cw = size.cell_width OBVIOUS
        <4>2. rx = px + a * 2 /\ cw = 2 BY <2>2, <2>3, <4>1, Zenon
        <4>3. rx - cw = px + a * 2 - 2 BY <1>1, <4>2
        <4>4. r.x - size.cell_width = px + a * 2 - 2 BY <4>1, <4>3, Zenon
        <4>5. r.y - size.cell_height \div 2 = y0 - 1 BY ONLY <2>2, <3>1
        <4>. QED BY <4>4, <4>5
      <3>3. r.width + 2 * size.cell_width = (b - a + 1) * 2 + 2 * 2 /\ r.height + size.cell_height = 3 + 3
        BY <2>2, <2>3, Zenon
      <3>. QED BY <1>6, <1>7, <2>3, <3>2, <3>3, Zenon
    <2>. QED BY <2>4, Zenon DEF overdamage
  <1>9. x1 >= 0 /\ y1 >= 0 /\ w1 >= 0 /\ h1 >= 0 /\ x1 + w1 <= w /\ y1 + h1 <= h
    BY <1>1, <1>3, <1>6, <1>7 DEF MaxOf, MinOf
  <1>10. ASSUME NEW k \in a..b, NEW x \in 0..1, NEW y \in 0..2, k < fc
         PROVE  /\ x1 <= px + k * 2 + x /\ px + k * 2 + x < x1 + w1
                /\ y1 <= h - 1 - (py + l * 3 + y) /\ h - 1 - (py + l * 3 + y) < y1 + h1
    <2>1. k \in Int /\ x \in Int /\ y \in Int /\ a <= k /\ k <= b /\ 0 <= x /\ x <= 1 /\ 0 <= y /\ y <= 2
      BY <1>1
    <2>2. x1 <= px + k * 2 + x BY <1>1, <1>6, <2>1 DEF MaxOf
    <2>3. px + k * 2 + x < w BY <1>1, <1>10, <2>1
    <2>4. x1 >= px + a * 2 - 2 BY <1>1, <1>6 DEF MaxOf
    <2>5. px + k * 2 + x < x1 + w1 BY <1>1, <1>7, <2>1, <2>3, <2>4 DEF MaxOf, MinOf
    <2>6. h - 1 - (py + l * 3 + y) = y0 + 2 - y BY <1>1, <1>2, <2>1
    <2>7. y1 <= y0 /\ y1 >= y0 - 1 BY <1>3, <1>6 DEF MaxOf
    <2>8. y0 + 2 - y < y1 + h1 BY <1>1, <1>3, <1>7, <2>1, <2>7 DEF MaxOf, MinOf
    <2>9. y1 <= y0 + 2 - y BY <2>1, <2>7
    <2>. QED BY <2>2, <2>5, <2>6, <2>8, <2>9
  <1>11. [x |-> x1, y |-> y1, width |-> w1, height |-> h1] \in Rect BY <1>9 DEF Rect
  <1>. QED BY <1>4, <1>8, <1>9, <1>10, <1>11 DEF InWindow, Inside

(* Merged rectangles are in both, and so is their union. *)
LEMMA MergedRects ==
    ASSUME NEW a \in Rect, NEW b \in Rect, NEW size, size.width \in Nat, size.height \in Nat,
           InWindow(a, size), InWindow(b, size)
    PROVE  /\ merge_rects(a, b) \in Rect /\ InWindow(merge_rects(a, b), size)
           /\ \A x, y \in Int : Inside(a, x, y) \/ Inside(b, x, y) => Inside(merge_rects(a, b), x, y)
  <1>. PICK ax, ay, aw, ah, bx, by, bw, bh :
         /\ ax = a.x /\ ay = a.y /\ aw = a.width /\ ah = a.height
         /\ bx = b.x /\ by = b.y /\ bw = b.width /\ bh = b.height
    OBVIOUS
  <1>1. /\ ax \in Nat /\ ay \in Nat /\ aw \in Nat /\ ah \in Nat
        /\ bx \in Nat /\ by \in Nat /\ bw \in Nat /\ bh \in Nat
    BY DEF Rect
  <1>. PICK x0, y0, x1, y1 :
          /\ x0 = MinOf(ax, bx) /\ y0 = MinOf(ay, by)
          /\ x1 = MaxOf(ax + aw, bx + bw) /\ y1 = MaxOf(ay + ah, by + bh)
    OBVIOUS
  <1>2. /\ x0 \in Nat /\ y0 \in Nat /\ x1 \in Nat /\ y1 \in Nat
        /\ x0 = MinOf(ax, bx) /\ y0 = MinOf(ay, by)
        /\ x1 = MaxOf(ax + aw, bx + bw) /\ y1 = MaxOf(ay + ah, by + bh)
    BY <1>1 DEF MinOf, MaxOf
  <1>3. merge_rects(a, b) = [x |-> x0, y |-> y0, width |-> x1 - x0, height |-> y1 - y0]
    BY <1>2 DEF merge_rects
  <1>4. x0 <= ax /\ x0 <= bx /\ y0 <= ay /\ y0 <= by BY <1>1, <1>2 DEF MinOf
  <1>5. ax + aw <= x1 /\ bx + bw <= x1 /\ ay + ah <= y1 /\ by + bh <= y1 BY <1>1, <1>2 DEF MaxOf
  <1>6. x1 - x0 \in Nat /\ y1 - y0 \in Nat /\ x0 + (x1 - x0) = x1 /\ y0 + (y1 - y0) = y1
    BY <1>1, <1>2, <1>4, <1>5
  <1>7. x1 <= size.width /\ y1 <= size.height
    BY <1>1, <1>2 DEF InWindow, MaxOf
  <1>8. merge_rects(a, b) \in Rect BY <1>2, <1>3, <1>6 DEF Rect
  <1>9. InWindow(merge_rects(a, b), size) BY <1>3, <1>6, <1>7 DEF InWindow
  <1>10. ASSUME NEW x \in Int, NEW y \in Int, Inside(a, x, y) \/ Inside(b, x, y)
         PROVE  Inside(merge_rects(a, b), x, y)
    <2>1. \/ ax <= x /\ x < ax + aw /\ ay <= y /\ y < ay + ah
          \/ bx <= x /\ x < bx + bw /\ by <= y /\ y < by + bh
      BY <1>10 DEF Inside
    <2>2. x0 <= x /\ x < x1 /\ y0 <= y /\ y < y1 BY <1>1, <1>2, <1>4, <1>5, <2>1
    <2>. QED BY <1>3, <1>6, <2>2 DEF Inside
  <1>. QED BY <1>8, <1>9, <1>10

(* The last element of a sequence is replaced. *)
LEMMA LastReplaced ==
    ASSUME NEW S, NEW q \in Seq(S), q # <<>>, NEW e \in S
    PROVE  LET r == Append(Front(q), e)
           IN  /\ r \in Seq(S) /\ Len(r) = Len(q) /\ r[Len(q)] = e
               /\ \A i \in 1..Len(q) : i # Len(q) => r[i] = q[i]
               /\ Len(q) \in Nat \ {0} /\ Last(q) \in S /\ Last(q) = q[Len(q)]
  <1>1. Len(q) \in Nat \ {0} BY EmptySeq, LenProperties
  <1>2. PICK n \in Nat \ {0} : n = Len(q) BY <1>1
  <1>3. PICK f : f = SubSeq(q, 1, n - 1) OBVIOUS
  <1>4. f \in Seq(S) /\ Len(f) = n - 1 /\ \A i \in 1..(n - 1) : f[i] = q[i]
    BY <1>2, <1>3, SubSeqProperties
  <1>5. Front(q) = f BY <1>2, <1>3 DEF Front
  <1>6. PICK r : r = Append(f, e) OBVIOUS
  <1>7. r \in Seq(S) /\ Len(r) = n /\ r[n] = e /\ \A i \in 1..(n - 1) : r[i] = f[i]
    BY <1>2, <1>4, <1>6, AppendProperties
  <1>8. Last(q) = q[n] /\ q[n] \in S BY <1>2, ElementOfSeq DEF Last
  <1>9. \A i \in 1..n : i # n => r[i] = q[i] BY <1>4, <1>7
  <1>. QED BY <1>1, <1>2, <1>5, <1>6, <1>7, <1>8, <1>9


(* The pixel of a cell that is x from its left and y from its top, counted from the bottom. *)
PixelIn(r, size, c, x, y) ==
    Inside(r, size.padding_x + c[2] * 2 + x, size.height - 1 - (size.padding_y + c[1] * 3 + y))
(* The rectangles are in the window and have the damaged cells of the first k lines. *)
LinesCovered(size, lines, k, rects) ==
    /\ rects \in Seq(Rect) /\ \A i \in 1..Len(rects) : InWindow(rects[i], size)
    /\ \A c \in FrameCells, x \in 0..1, y \in 0..2 :
         c[1] < k /\ lines[c[1]].left <= c[2] /\ c[2] <= lines[c[1]].right =>
           \E i \in 1..Len(rects) : PixelIn(rects[i], size, c, x, y)

(* A pixel of a cell is a pair of integers. *)
LEMMA CellPixels ==
    ASSUME NEW size, WindowOK(size), NEW c \in FrameCells, NEW x \in 0..1, NEW y \in 0..2
    PROVE  /\ size.padding_x + c[2] * 2 + x \in Int
           /\ size.height - 1 - (size.padding_y + c[1] * 3 + y) \in Int
           /\ c[1] \in LinesOfFrame /\ c[2] \in Nat /\ c[2] < FrameColumns
  <1>1. c[1] \in LinesOfFrame /\ c[2] \in Nat /\ c[2] < FrameColumns
    BY FrameAssumption DEF FrameCells, LinesOfFrame
  <1>2. c[1] \in Int BY <1>1, FrameAssumption DEF LinesOfFrame
  <1>. PICK px, py, h, c1, c2 : px = size.padding_x /\ py = size.padding_y /\ h = size.height
                                /\ c1 = c[1] /\ c2 = c[2]
    OBVIOUS
  <1>3. px \in Nat /\ py \in Nat /\ h \in Nat /\ c1 \in Int /\ c2 \in Nat BY <1>1, <1>2 DEF WindowOK
  <1>4. px + c2 * 2 + x \in Int /\ h - 1 - (py + c1 * 3 + y) \in Int BY <1>3
  <1>. QED BY <1>1, <1>4

(* The rectangles of one more line: it is added to the last rectangle, or behind it. *)
LEMMA AddLineCovers ==
    ASSUME NEW size, WindowOK(size), NEW lines \in [LinesOfFrame -> LineDamage],
           NEW l \in LinesOfFrame, NEW rects, LinesCovered(size, lines, l, rects)
    PROVE  LinesCovered(size, lines, l + 1, add_line(size, [full |-> FALSE, lines |-> lines], rects, l))
  <1>. PICK d : d = lines[l] OBVIOUS
  <1>1. d \in LineDamage /\ d.left \in Int /\ d.right \in Int /\ l \in Int
    BY FrameAssumption DEF LineDamage, LinesOfFrame
  <1>. PICK rect : rect = overdamage(size, rect_for_line(size, l, d)) OBVIOUS
  <1>. PICK next : next = add_line(size, [full |-> FALSE, lines |-> lines], rects, l) OBVIOUS
  <1>2. next = IF d.left > d.right THEN rects
               ELSE IF rects # <<>> /\ rects_overlap(Last(rects), rect)
               THEN Append(Front(rects), merge_rects(Last(rects), rect)) ELSE Append(rects, rect)
    <2>1. [full |-> FALSE, lines |-> lines].lines[l] = d OBVIOUS
    <2>. QED BY <2>1, Zenon DEF add_line
  <1>3. rects \in Seq(Rect) /\ Len(rects) \in Nat /\ \A i \in 1..Len(rects) : InWindow(rects[i], size)
    BY LenProperties DEF LinesCovered
  <1>4. /\ next \in Seq(Rect) /\ \A i \in 1..Len(next) : InWindow(next[i], size)
        /\ \A px, py \in Int : (\E i \in 1..Len(rects) : Inside(rects[i], px, py)) =>
                               (\E i \in 1..Len(next) : Inside(next[i], px, py))
        /\ d.left <= d.right =>
             \A px, py \in Int : Inside(rect, px, py) => \E i \in 1..Len(next) : Inside(next[i], px, py)
    <2>0. d.left > d.right <=> ~(d.left <= d.right) BY <1>1
    <2>1. CASE d.left > d.right BY <1>2, <1>3, <2>0, <2>1, Zenon
    <2>2. CASE d.left <= d.right /\ rects # <<>> /\ rects_overlap(Last(rects), rect)
      <3>1. rect \in Rect /\ InWindow(rect, size) BY <1>1, <2>2, LineRect, Zenon
      <3>2. PICK n \in Nat \ {0}, last \in Rect : n = Len(rects) /\ last = Last(rects) /\ last = rects[n]
        BY <1>3, <2>2, LastReplaced, <3>1
      <3>3. InWindow(last, size) BY <1>3, <3>2
      <3>4. PICK m : m = merge_rects(last, rect) OBVIOUS
      <3>5. /\ m \in Rect /\ InWindow(m, size)
            /\ \A x, y \in Int : Inside(last, x, y) \/ Inside(rect, x, y) => Inside(m, x, y)
        <4>1. size.width \in Nat /\ size.height \in Nat BY DEF WindowOK
        <4>. QED BY <3>1, <3>2, <3>3, <3>4, <4>1, MergedRects, Zenon
      <3>6. next = Append(Front(rects), m) BY <1>2, <2>0, <2>2, <3>2, <3>4, Zenon
      <3>7. /\ next \in Seq(Rect) /\ Len(next) = n /\ next[n] = m
            /\ \A i \in 1..n : i # n => next[i] = rects[i]
        <4>1. rects # <<>> BY <2>2
        <4>2. /\ next \in Seq(Rect) /\ Len(next) = Len(rects) /\ next[Len(rects)] = m
              /\ \A i \in 1..Len(rects) : i # Len(rects) => next[i] = rects[i]
          <5>1. rects \in Seq(Rect) /\ m \in Rect BY <1>3, <3>5
          <5>2. LET r == Append(Front(rects), m)
                IN  /\ r \in Seq(Rect) /\ Len(r) = Len(rects) /\ r[Len(rects)] = m
                    /\ \A i \in 1..Len(rects) : i # Len(rects) => r[i] = rects[i]
            BY <4>1, <5>1, LastReplaced
          <5>. QED BY <3>6, <5>2, Zenon
        <4>. QED BY <3>2, <4>2, Zenon
      <3>8. n \in 1..n BY <3>2
      <3>9. \A i \in 1..Len(next) : InWindow(next[i], size) BY <1>3, <3>2, <3>5, <3>7
      <3>10. ASSUME NEW px \in Int, NEW py \in Int, NEW i \in 1..Len(rects), Inside(rects[i], px, py)
             PROVE  \E j \in 1..Len(next) : Inside(next[j], px, py)
        <4>1. CASE i = n BY <3>2, <3>5, <3>7, <3>8, <3>10, <4>1, Zenon
        <4>2. CASE i # n BY <3>2, <3>7, <3>10, <4>2, Zenon
        <4>. QED BY <4>1, <4>2
      <3>11. \A px, py \in Int : Inside(rect, px, py) => \E j \in 1..Len(next) : Inside(next[j], px, py)
        BY <3>5, <3>7, <3>8, Zenon
      <3>. QED BY <3>7, <3>9, <3>10, <3>11
    <2>3. CASE d.left <= d.right /\ ~(rects # <<>> /\ rects_overlap(Last(rects), rect))
      <3>1. rect \in Rect /\ InWindow(rect, size) BY <1>1, <2>3, LineRect, Zenon
      <3>2. next = Append(rects, rect) BY <1>2, <2>0, <2>3, Zenon
      <3>3. PICK n \in Nat : n = Len(rects) BY <1>3
      <3>4. /\ next \in Seq(Rect) /\ Len(next) = n + 1 /\ next[n + 1] = rect
            /\ \A i \in 1..n : next[i] = rects[i]
        <4>1. /\ next \in Seq(Rect) /\ Len(next) = Len(rects) + 1 /\ next[Len(rects) + 1] = rect
              /\ \A i \in 1..Len(rects) : next[i] = rects[i]
          <5>1. rects \in Seq(Rect) /\ rect \in Rect BY <1>3, <3>1
          <5>2. LET r == Append(rects, rect)
                IN  /\ r \in Seq(Rect) /\ Len(r) = Len(rects) + 1 /\ r[Len(rects) + 1] = rect
                    /\ \A i \in 1..Len(rects) : r[i] = rects[i]
            BY <5>1, AppendProperties
          <5>. QED BY <3>2, <5>2, Zenon
        <4>. QED BY <3>3, <4>1, Zenon
      <3>5. n + 1 \in 1..(n + 1) /\ \A i \in 1..n : i \in 1..(n + 1) OBVIOUS
      <3>6. \A i \in 1..(n + 1) : i \in 1..n \/ i = n + 1 OBVIOUS
      <3>7. \A i \in 1..Len(next) : InWindow(next[i], size) BY <1>3, <3>1, <3>3, <3>4, <3>6, Zenon
      <3>8. \A px, py \in Int : (\E i \in 1..Len(rects) : Inside(rects[i], px, py)) =>
                                (\E i \in 1..Len(next) : Inside(next[i], px, py))
        BY <3>3, <3>4, <3>5, Zenon
      <3>9. \A px, py \in Int : Inside(rect, px, py) => \E j \in 1..Len(next) : Inside(next[j], px, py)
        BY <3>4, <3>5, Zenon
      <3>. QED BY <3>4, <3>7, <3>8, <3>9
    <2>. QED BY <2>0, <2>1, <2>2, <2>3, Zenon
  <1>5. ASSUME NEW c \in FrameCells, NEW x \in 0..1, NEW y \in 0..2,
               c[1] < l + 1, lines[c[1]].left <= c[2], c[2] <= lines[c[1]].right
        PROVE  \E i \in 1..Len(next) : PixelIn(next[i], size, c, x, y)
    <2>1. PICK px \in Int, py \in Int : /\ px = size.padding_x + c[2] * 2 + x
                                        /\ py = size.height - 1 - (size.padding_y + c[1] * 3 + y)
      BY CellPixels
    <2>2. c[1] \in LinesOfFrame /\ c[2] \in Nat /\ c[2] < FrameColumns BY CellPixels
    <2>3. c[1] \in Int BY <2>2 DEF LinesOfFrame
    <2>4. CASE c[1] < l
      <3>1. \E i \in 1..Len(rects) : PixelIn(rects[i], size, c, x, y)
        BY <1>5, <2>4, Zenon DEF LinesCovered
      <3>2. \E i \in 1..Len(rects) : Inside(rects[i], px, py) BY <2>1, <3>1, Zenon DEF PixelIn
      <3>3. \E i \in 1..Len(next) : Inside(next[i], px, py) BY <1>4, <3>2, Zenon
      <3>. QED BY <2>1, <3>3, Zenon DEF PixelIn
    <2>5. CASE c[1] = l
      <3>1. d.left <= c[2] /\ c[2] <= d.right /\ d.left <= d.right BY <1>1, <1>5, <2>2, <2>5
      <3>2. c[2] \in d.left..d.right BY <1>1, <2>2, <3>1
      <3>3. Inside(rect, size.padding_x + c[2] * 2 + x, size.height - 1 - (size.padding_y + l * 3 + y))
        BY <1>1, <2>2, <3>1, <3>2, LineRect, Zenon
      <3>4. Inside(rect, px, py) BY <2>1, <2>5, <3>3, Zenon
      <3>5. \E i \in 1..Len(next) : Inside(next[i], px, py) BY <1>4, <3>1, <3>4, Zenon
      <3>. QED BY <2>1, <3>5, Zenon DEF PixelIn
    <2>6. PICK c1 \in Int : c1 = c[1] BY <2>3
    <2>7. c1 < l \/ c1 = l BY <1>1, <1>5, <2>6
    <2>. QED BY <2>4, <2>5, <2>6, <2>7, Zenon
  <1>6. LinesCovered(size, lines, l + 1, next)
    BY <1>4, <1>5, Zenon DEF LinesCovered
  <1>. QED BY <1>6

(* The step of the fold of shape_frame_damage. *)
AddLineOf(w, rects, l) == add_line(w.size, w.frame, rects, l)
(* The laws of that fold. *)
LineFold == INSTANCE FoldLaws WITH op <- AddLineOf

(* All lines: the rectangles are in the window and have all damaged cells. *)
LEMMA ShapeCovers ==
    ASSUME NEW size, WindowOK(size), NEW lines \in [LinesOfFrame -> LineDamage]
    PROVE  LinesCovered(size, lines, FrameLines, shape_frame_damage(size, [full |-> FALSE, lines |-> lines]))
  <1>. PICK n \in Nat : n = FrameLines BY FrameAssumption
  <1>. DEFINE frame == [full |-> FALSE, lines |-> lines]
              w == [size |-> size, frame |-> frame]
              s == [i \in 1..n |-> i - 1]
  <1>1. shape_frame_damage(size, frame) = LineFold!Fold(w, <<>>, s)
    <2>1. frame.full = FALSE OBVIOUS
    <2>2. w.size = size /\ w.frame = frame OBVIOUS
    <2>. HIDE DEF w, frame
    <2>3. shape_frame_damage(size, frame) = FoldLeft(LAMBDA rects, l : add_line(size, frame, rects, l), <<>>, s)
      BY <2>1, Zenon DEF shape_frame_damage
    <2>. HIDE DEF s
    <2>. QED BY <2>2, <2>3, Zenon DEF LineFold!Fold, AddLineOf, FoldLeft, MapThenFoldSet, Max,
                LineFold!FoldLeft, LineFold!MapThenFoldSet, LineFold!Max
  <1>2. DOMAIN s = 1..n /\ \A k \in 0..(n - 1) : s[k + 1] = k OBVIOUS
  <1>3. w.size = size /\ w.frame = frame OBVIOUS
  <1>. HIDE DEF s, w
  <1>4. PICK r : LineFold!Steps(w, <<>>, s, n, r, LineFold!Fold(w, <<>>, s))
    BY <1>2, LineFold!FoldTrace, Zenon
  <1>5. /\ r[0] = <<>> /\ r[n] = LineFold!Fold(w, <<>>, s)
        /\ \A k \in 0..(n - 1) : r[k + 1] = add_line(size, frame, r[k], k)
    BY <1>2, <1>3, <1>4, Zenon DEF LineFold!Steps, AddLineOf
  <1>. HIDE DEF frame
  <1>. DEFINE G == {k \in Nat : k <= n => LinesCovered(size, lines, k, r[k])}
  <1>6. 0 \in G
    <2>1. <<>> \in Seq(Rect) /\ Len(<<>>) = 0 /\ 1..0 = {} BY EmptySeq
    <2>2. \A c \in FrameCells : ~(c[1] < 0) BY FrameAssumption DEF FrameCells
    <2>3. LinesCovered(size, lines, 0, <<>>) BY <2>1, <2>2, Zenon DEF LinesCovered
    <2>. QED BY <1>5, <2>3
  <1>7. ASSUME NEW k \in Nat, k \in G PROVE k + 1 \in G
    <2>. SUFFICES ASSUME k + 1 <= n PROVE LinesCovered(size, lines, k + 1, r[k + 1])
      OBVIOUS
    <2>1. k \in 0..(n - 1) /\ LinesCovered(size, lines, k, r[k]) BY <1>7
    <2>2. k \in LinesOfFrame BY <2>1 DEF LinesOfFrame
    <2>. QED BY <1>5, <2>1, <2>2, AddLineCovers, Zenon DEF frame
  <1>8. n \in G
    <2>. HIDE DEF G
    <2>. QED BY <1>6, <1>7, NatSetInduction
  <1>. QED BY <1>1, <1>5, <1>8 DEF frame

(* The rectangles cover the damage in every window and for every damage of a frame. *)
LEMMA RectanglesCover == ShapedDamageCovers
  <1>. SUFFICES ASSUME NEW size \in PixelSizes,
                       NEW lines \in [0..FrameLines - 1 -> [left : 0..FrameColumns, right : 0..FrameColumns]]
       PROVE  LET frame == [full |-> FALSE, lines |-> lines]
                  rects == shape_frame_damage(size, frame)
              IN  /\ \A c \in FrameCells, x \in 0..1, y \in 0..2 : IsRepainted(frame, c) =>
                       \E i \in DOMAIN rects : PixelIn(rects[i], size, c, x, y)
                  /\ \A i \in DOMAIN rects : InWindow(rects[i], size)
    BY Zenon DEF ShapedDamageCovers, PixelIn, InWindow
  <1>. DEFINE frame == [full |-> FALSE, lines |-> lines]
  <1>1. frame.full = FALSE /\ frame.lines = lines OBVIOUS
  <1>. HIDE DEF frame
  <1>2. PICK rects : rects = shape_frame_damage(size, frame) OBVIOUS
  <1>3. WindowOK(size) BY PixelSizesOK
  <1>4. LinesCovered(size, lines, FrameLines, rects)
    BY <1>2, <1>3, ShapeCovers, Zenon DEF frame, LinesOfFrame, LineDamage
  <1>5. DOMAIN rects = 1..Len(rects) BY <1>4, LenProperties DEF LinesCovered
  <1>6. ASSUME NEW c \in FrameCells, NEW x \in 0..1, NEW y \in 0..2, IsRepainted(frame, c)
        PROVE  \E i \in DOMAIN rects : PixelIn(rects[i], size, c, x, y)
    <2>1. lines[c[1]].left <= c[2] /\ c[2] <= lines[c[1]].right
      BY <1>1, <1>6, Zenon DEF IsRepainted, IsInLine
    <2>2. c[1] < FrameLines BY FrameAssumption DEF FrameCells
    <2>. QED BY <1>4, <1>5, <2>1, <2>2, Zenon DEF LinesCovered
  <1>7. \A i \in DOMAIN rects : InWindow(rects[i], size) BY <1>4, <1>5, Zenon DEF LinesCovered
  <1>. QED BY <1>2, <1>6, <1>7, Zenon DEF frame

(* What a frame draws differently, elements that are gone included, is repainted, and
   the rectangles for the compositor have all of it (Display::draw, damage.rs). *)
THEOREM DamageIsRepainted == Spec => []DamageComplete
  <1>1. Init => DamageInv BY DamageStart DEF Init
  <1>2. DamageInv /\ [Next]_vars => DamageInv'
    <2>. SUFFICES ASSUME DamageInv, [Next]_vars PROVE DamageInv' OBVIOUS
    <2>1. [DamageNext]_damageVars BY DEF Next, Only, vars
    <2>. QED BY <2>1, DamageKept
  <1>3. DamageInv => DamageComplete
    <2>1. DamageInv => WindowShowsFrame BY DEF DamageInv, WindowShowsFrame
    <2>. QED BY <2>1, RectanglesCover DEF DamageComplete
  <1>. QED BY <1>1, <1>2, <1>3, PTL DEF Spec

=============================================================================
