------------------------------ MODULE Scrollback ------------------------------
(***************************************************************************)
(* What a grid promises: a screen of rows and, above it, a scrollback that *)
(* keeps the latest `limit` rows that left the screen at the top.  Lines   *)
(* that become visible are blank or come from the scrollback; a row that   *)
(* was dropped never comes back.  There is no ring buffer, no cache and no *)
(* row swapping here: these are plain sequences.                           *)
(***************************************************************************)
EXTENDS Integers, Sequences

CONSTANTS Rows, Blank, MaxLines, MaxScrollLimit, RegionStarts

VARIABLES
    screen,    \* rows of the screen, top to bottom
    history,   \* rows of the scrollback, oldest first
    limit,     \* how many rows the scrollback keeps
    cursor     \* screen line of the cursor, from 0

vars == <<screen, history, limit, cursor>>

Blanks(n) == [k \in 1..n |-> Blank]
Least(a, b) == IF a < b THEN a ELSE b
Latest(rows, n) ==
    IF Len(rows) <= n THEN rows ELSE SubSeq(rows, Len(rows) - n + 1, Len(rows))
Pushed(rows) == Latest(history \o rows, limit)

Init ==
    /\ \E lines \in 1..MaxLines : screen = Blanks(lines)
    /\ history = <<>>
    /\ limit \in 0..MaxScrollLimit
    /\ cursor = 0

Write(line, row) ==
    /\ screen' = [screen EXCEPT ![line] = row]
    /\ UNCHANGED <<history, limit, cursor>>

(* Lines start+1..end move up by n; the first n are pushed into the scrollback
   only when the region starts at the top of the screen. *)
ScrollUp(start, end, n) ==
    /\ screen' = SubSeq(screen, 1, start) \o SubSeq(screen, start + n + 1, end)
                   \o Blanks(Least(n, end - start)) \o SubSeq(screen, end + 1, Len(screen))
    /\ history' = IF start = 0 THEN Pushed(SubSeq(screen, 1, n)) ELSE history
    /\ UNCHANGED <<limit, cursor>>

ScrollDown(start, end, n) ==
    /\ screen' = SubSeq(screen, 1, start) \o Blanks(Least(n, end - start))
                   \o SubSeq(screen, start + 1, end - n) \o SubSeq(screen, end + 1, Len(screen))
    /\ UNCHANGED <<history, limit, cursor>>

(* The used part of the screen moves into the scrollback; of an all-blank
   screen at most one line does. *)
ClearViewport(n) ==
    /\ \A k \in n + 1 .. Len(screen) : screen[k] = Blank
    /\ IF n = 0 THEN TRUE ELSE screen[n] # Blank \/ n = 1
    /\ screen' = Blanks(Len(screen))
    /\ history' = Pushed(SubSeq(screen, 1, n))
    /\ UNCHANGED <<limit, cursor>>

ResetRegion(start, end) ==
    /\ screen' = [k \in 1..Len(screen) |->
                    IF start < k /\ k <= end THEN Blank ELSE screen[k]]
    /\ UNCHANGED <<history, limit, cursor>>

ClearHistory == history' = <<>> /\ UNCHANGED <<screen, limit, cursor>>

Reset ==
    /\ screen' = Blanks(Len(screen))
    /\ history' = <<>>
    /\ cursor' = 0
    /\ UNCHANGED limit

UpdateHistory(size) ==
    /\ limit' = size
    /\ history' = Latest(history, size)
    /\ UNCHANGED <<screen, cursor>>

(* New lines come from the scrollback first, then as blanks at the bottom. *)
Grow(lines) ==
    LET added  == lines - Len(screen)
        pulled == Least(added, Len(history))
    IN  /\ added > 0
        /\ screen' = Latest(history, pulled) \o screen \o Blanks(added - pulled)
        /\ history' = SubSeq(history, 1, Len(history) - pulled)
        /\ cursor' = cursor + pulled
        /\ UNCHANGED limit

(* Lines leave at the top only as far as the cursor requires it. *)
Shrink(lines) ==
    LET scrolled == IF cursor + 1 > lines THEN cursor + 1 - lines ELSE 0
    IN  /\ lines < Len(screen)
        /\ screen' = SubSeq(screen, scrolled + 1, scrolled + lines)
        /\ history' = Pushed(SubSeq(screen, 1, scrolled))
        /\ cursor' = cursor - scrolled
        /\ UNCHANGED limit

MoveCursor(line) == cursor' = line /\ UNCHANGED <<screen, history, limit>>

Next ==
    \/ \E line \in 1..Len(screen), row \in Rows : Write(line, row)
    \/ \E start \in RegionStarts, end \in 1..Len(screen), n \in 1..Len(screen) :
          start < end /\ (ScrollUp(start, end, n) \/ ScrollDown(start, end, n))
    \/ \E n \in 0..Len(screen) : ClearViewport(n)
    \/ \E start \in 0..Len(screen), end \in 1..Len(screen) : ResetRegion(start, end)
    \/ ClearHistory
    \/ Reset
    \/ \E size \in 0..MaxScrollLimit : UpdateHistory(size)
    \/ \E lines \in 1..MaxLines : Grow(lines) \/ Shrink(lines)
    \/ \E line \in 0..Len(screen) - 1 : MoveCursor(line)

Spec == Init /\ [][Next]_vars

=============================================================================
