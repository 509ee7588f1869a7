---------------------------------- MODULE Row ----------------------------------
(***************************************************************************)
(* A row of the grid (velacritty_terminal/src/grid/row.rs) and how `occ`,  *)
(* the number of cells that may have been modified since the last reset,   *)
(* saves the work of resetting the others.  A cell is the background it    *)
(* was last given and whether it was modified since the last reset.        *)
(***************************************************************************)
EXTENDS Integers, Sequences, FiniteSets

CONSTANTS
    Backgrounds,   \* discriminants of the template cells; includes Default
    Default,       \* the background of a default cell
    MaxColumns     \* bound on the length of a row

ASSUME RowAssumption == Default \in Backgrounds /\ MaxColumns \in Nat \ {0}

VARIABLE row

RowCells == [bg : Backgrounds, modified : BOOLEAN]
Blank(bg) == [bg |-> bg, modified |-> FALSE]
Repeated(cell, n) == [i \in 1..n |-> cell]

NewRow(columns) == [inner |-> Repeated(Blank(Default), columns), occ |-> 0]

Length == Len(row.inner)

RowInit == \E columns \in 1..MaxColumns : row = NewRow(columns)

(* IndexMut: a cell is changed, with occ raised past it. *)
WriteCell(i, bg) ==
    row' = [inner |-> [row.inner EXCEPT ![i] = [bg |-> bg, modified |-> TRUE]],
            occ   |-> IF row.occ > i THEN row.occ ELSE i]

(* Through last_mut and the mutable iterator the whole row counts as modified. *)
WriteLast(bg) ==
    row' = [inner |-> [row.inner EXCEPT ![Length] = [bg |-> bg, modified |-> TRUE]],
            occ   |-> Length]

(* Row::reset: beyond occ only the last cell is compared with the template. *)
Reset(bg) ==
    LET occ == IF row.inner[Length].bg # bg THEN Length ELSE row.occ
    IN  row' = [inner |-> [i \in 1..Length |->
                             IF i <= occ THEN Blank(bg)
                             ELSE [row.inner[i] EXCEPT !.modified = FALSE]],
                occ   |-> 0]

Grow(columns) ==
    /\ columns > Length
    /\ row' = [row EXCEPT !.inner = row.inner \o Repeated(Blank(Default), columns - Length)]

Shrink(columns) ==
    /\ columns < Length
    /\ row' = [inner |-> SubSeq(row.inner, 1, columns),
               occ   |-> IF row.occ < columns THEN row.occ ELSE columns]

(* Reflowing: cells of the next row are appended to a row that is wrapped, so
   that its last cell was written. *)
AppendCells(cells) ==
    /\ row.inner[Length].modified
    /\ row' = [inner |-> row.inner \o cells, occ |-> row.occ + Len(cells)]

(* Faulty variant: the cells in front do not count as modified. *)
AppendFront_KeepsOcc(cells) ==
    row' = [inner |-> cells \o row.inner, occ |-> row.occ]

AppendFront(cells) ==
    row' = [inner |-> cells \o row.inner, occ |-> row.occ + Len(cells)]

FrontSplitOff(at) ==
    /\ at < Length
    /\ row' = [inner |-> SubSeq(row.inner, at + 1, Length),
               occ   |-> IF row.occ > at THEN row.occ - at ELSE 0]

RowNext ==
    \/ \E i \in 1..Length, bg \in Backgrounds : WriteCell(i, bg)
    \/ \E bg \in Backgrounds : WriteLast(bg) \/ Reset(bg)
    \/ \E columns \in 1..MaxColumns : Grow(columns) \/ Shrink(columns)
    \/ \E cell \in RowCells :
         /\ Length < MaxColumns
         /\ AppendCells(<<cell>>) \/ AppendFront(<<cell>>)
    \/ \E at \in 1..MaxColumns : FrontSplitOff(at)

(* occ is "the upper bound on the number of elements in the row, which have been
   modified since the last reset": Row::reset skips the cells past it, and a
   cell it skipped by mistake would show old text.  Rows are written, cut, and
   joined by reflowing in any order. *)
OccBoundsModified ==
    /\ row.occ <= Length
    /\ \A i \in 1..Length : row.inner[i].modified => i <= row.occ

=============================================================================
