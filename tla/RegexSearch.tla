----------------------------- MODULE RegexSearch -----------------------------
(***************************************************************************)
(* Regex search over the grid (velacritty_terminal/src/term/search.rs).    *)
(*                                                                         *)
(* The automata are external; a pattern is a sequence of characters, and   *)
(* the two automata of a direction together find the first run of cells in *)
(* that direction that spells it.  A search goes round the end of the      *)
(* scrollback and never joins two lines that were not wrapped.             *)
(***************************************************************************)
EXTENDS TextSearch, Sequences, SequencesExt

Match(t, from, to) == [start |-> PointOf(t, from), end |-> PointOf(t, to)]

(* The cells a search visits, from one end of the range to the other. *)
Visited(t, start, end, direction) ==
    LET N    == Cardinality(Cells(t))
        a    == CellOf(t, start)
        b    == CellOf(t, end)
        step == IF direction = "Right" THEN 1 ELSE -1
    IN  [i \in 1..1 + (((b - a) * step) % N) |-> (a + (i - 1) * step) % N]

(* Whether a search resets its automaton between two cells next to each other. *)
IsLinebreak(t, left) == left % t.cols = last_column(t) /\ ~is_wrap(t, PointOf(t, left))

(* regex_search_right and regex_search_left: the first match, in a set that
   is empty when there is none. *)
regex_search(t, pattern, start, end, direction) ==
    LET m    == Len(pattern)
        word == IF direction = "Right" THEN pattern ELSE Reverse(pattern)
        Matches(cells, i) ==
            /\ \A j \in 1..m : t.chars[cells[i + j - 1]] = word[j]
            /\ \A j \in 1..m - 1 :
                  ~IsLinebreak(t, IF direction = "Right" THEN cells[i + j - 1] ELSE cells[i + j])
        Spanned(ends) == IF direction = "Right" THEN Match(t, ends[1], ends[2])
                                                ELSE Match(t, ends[2], ends[1])
        First(cells, found) ==
            {Spanned(<<cells[i], cells[i + m - 1]>>) : i \in {i \in found : \A j \in found : i <= j}}
        Among(cells) == First(cells, {i \in 1..Len(cells) - m + 1 : Matches(cells, i)})
    IN  Among(Visited(t, start, end, direction))

(* Faulty variant: an iterator that does not look at the range once more when
   it has arrived at its end. *)
regex_next_StopsAtEnd(t, pattern, it) ==
    LET After(m) == [it EXCEPT !.found = {m}, !.done = m.end = it.end,
                               !.point = IF m.end = it.end THEN m.end
                                         ELSE add(t, "None", m.end, 1)]
        Go(found) == IF found = {} THEN [it EXCEPT !.done = TRUE, !.found = {}]
                     ELSE After(CHOOSE m \in found : TRUE)
    IN  IF it.done \/ it.point = it.end THEN [it EXCEPT !.done = TRUE, !.found = {}]
        ELSE Go(regex_search(t, pattern, it.point, it.end, it.direction))

(* RegexIter::next: `found` is what it returns.  The origin moves past the
   end of the match, whatever the direction. *)
regex_next(t, pattern, it) ==
    LET Skip(p) == IF it.direction = "Right" THEN add(t, "None", p, 1) ELSE sub(t, "None", p, 1)
        After(m) == [it EXCEPT !.found = {m},
                               !.done = m.end = it.end \/ it.point = it.end,
                               !.point = IF m.end = it.end THEN m.end
                                         ELSE Skip(expand_wide(t, m.end, it.direction))]
        Go(found) == IF found = {} THEN [it EXCEPT !.done = TRUE, !.found = {}]
                     ELSE After(CHOOSE m \in found : TRUE)
    IN  IF it.done THEN [it EXCEPT !.found = {}]
        ELSE Go(regex_search(t, pattern, it.point, it.end, it.direction))

(* All that a RegexIter yields, in order. *)
regex_iter(t, pattern, start, end, direction) ==
    LET first == [point |-> start, end |-> end, direction |-> direction,
                  done |-> FALSE, found |-> {}]
        Yield(acc, it) == [it |-> it, out |-> acc.out \o SetToSeq(it.found)]
        step(acc, i) == Yield(acc, regex_next(t, pattern, acc.it))
    IN  FoldLeft(step, [it |-> first, out |-> <<>>],
                 [i \in 1..Cardinality(Cells(t)) + 1 |-> i]).out

match_side(m, side) == IF side = "Right" THEN m.end ELSE m.start

(* The first match that satisfies Beyond, or else the first one. *)
PickMatch(matches, Beyond(_)) ==
    LET beyond == {i \in DOMAIN matches : Beyond(matches[i])}
    IN  IF matches = <<>> THEN {}
        ELSE {matches[IF beyond = {} THEN 1 ELSE Min(beyond)]}

next_match_right(t, pattern, origin, side, max_lines) ==
    LET start == line_search_left(t, origin)
        end   == IF max_lines = {} THEN sub(t, "None", start, 1)
                 ELSE Point(line_clamp(t, "None", start.line + Max(max_lines)), last_column(t))
        Beyond(m) == LET p == match_side(m, side)
                     IN  \/ p.line < start.line
                         \/ p.line > origin.line
                         \/ p.line = origin.line /\ p.col >= origin.col
    IN  PickMatch(regex_iter(t, pattern, start, end, "Right"), Beyond)

next_match_left(t, pattern, origin, side, max_lines) ==
    LET start == line_search_right(t, origin)
        end   == IF max_lines = {} THEN add(t, "None", start, 1)
                 ELSE Point(line_clamp(t, "None", start.line - Max(max_lines)), 0)
        Beyond(m) == LET p == match_side(m, side)
                     IN  \/ p.line > start.line
                         \/ p.line < origin.line
                         \/ p.line = origin.line /\ p.col <= origin.col
    IN  PickMatch(regex_iter(t, pattern, start, end, "Left"), Beyond)

(* A limit of the whole grid or more is no limit. *)
search_next(t, pattern, origin, direction, side, max_lines) ==
    LET from  == expand_wide(t, origin, direction)
        limit == {n \in max_lines : n + 1 < total_lines(t)}
    IN  IF direction = "Right" THEN next_match_right(t, pattern, from, side, limit)
                               ELSE next_match_left(t, pattern, from, side, limit)

=============================================================================
