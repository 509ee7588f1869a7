-------------------------------- MODULE Hints --------------------------------
(***************************************************************************)
(* Hints (velacritty/src/display/hint.rs and the hint functions of         *)
(* event.rs and display/mod.rs): the matches of a hint that are visible,   *)
(* their labels, choosing one by keyboard or by mouse, and what is done    *)
(* when the text has changed since it was shown.                           *)
(*                                                                         *)
(* The pattern of the hint matches runs of the characters WordChars.  A    *)
(* text (see TextSearch) has one more field, links: the hyperlink of every *)
(* cell, 0 for none.  A match is the range of its cells.                   *)
(***************************************************************************)
EXTENDS RegexSearch

CONSTANTS
    HintTexts,      \* the texts a program may show
    AlphabetSize,   \* of the labels
    MaxLabels       \* bound on the labels that are compared

VARIABLE hints

WordChars == {"x", "(", ")", "."}
Delimiters == {".", "("}
Range2(a, b) == [start |-> a, end |-> b]
In(k, m) == k \in m.start..m.end

-----------------------------------------------------------------------------
(* Labels *)

Alphabet == 0..AlphabetSize - 1
split_point(size) == (size - 1) \div 2

FirstInner(size) == split_point(size) + 1

(* HintLabels::increment: the indices of the next label, the last letter first. *)
increment(size, indices) ==
    IF indices[1] < split_point(size) THEN [indices EXCEPT ![1] = @ + 1]
    ELSE LET free == {i \in 2..Len(indices) : indices[i] + 1 # size}
             next == IF free = {} THEN Len(indices) + 1 ELSE Min(free)
         IN  [i \in 1..MaxOf(Len(indices), next) |->
                IF i = 1 THEN 0 ELSE IF i < next THEN FirstInner(size)
                ELSE IF i > next THEN indices[i]
                ELSE IF i > Len(indices) THEN FirstInner(size) ELSE indices[i] + 1]

(* The first n labels over an alphabet, each with its first letter first. *)
Labels(size, n) ==
    LET step(acc, i) == [indices |-> increment(size, acc.indices), out |-> Append(acc.out, Reverse(acc.indices))]
    IN  FoldLeft(step, [indices |-> <<0>>, out |-> <<>>], [i \in 1..n |-> i]).out

-----------------------------------------------------------------------------
(* Matches of the pattern *)

(* The automata: the first run of word characters of a range, as long as it goes. *)
search_right(t, from, to) ==
    LET starts == {k \in from..to : t.chars[k] \in WordChars}
        first  == Min(starts)
        Joined(k) == \A j \in first..k : t.chars[j] \in WordChars /\ (j < k => ~IsLinebreak(t, j))
    IN  IF starts = {} THEN {} ELSE {Range2(first, Max({k \in first..to : Joined(k)}))}

Search(t) ==
    LET last == Max(Cells(t))
        step(acc, i) ==
            LET found == IF acc.from > last THEN {} ELSE search_right(t, acc.from, last)
            IN  [from |-> IF found = {} THEN last + 1 ELSE Max({m.end : m \in found}) + 1,
                 out |-> acc.out \cup found]
    IN  FoldLeft(step, [from |-> 0, out |-> {}], [i \in Cells(t) |-> i]).out

(* The cells on display; a match is visible when it reaches into them. *)
Viewport(t) == LET top == (t.hist - t.offset) * t.cols IN top..top + t.lines * t.cols - 1
visible_regex_matches(t) == {m \in Search(t) : m.start..m.end \cap Viewport(t) # {}}

(* The closing brackets that no bracket of the match opens. *)
Unbalanced(t, m) ==
    {k \in m.start..m.end : t.chars[k] = ")" /\
        LET Count(c) == Cardinality({j \in m.start..k : t.chars[j] = c}) IN Count(")") > Count("(")}

(* hint_post_processing: up to the first bracket that closes too much, or else
   without the delimiters at the end.  At the first cell of the grid the code
   cannot step back, and the bracket stays. *)
hint_post_processing(t, m) ==
    LET closing == Unbalanced(t, m)
        keep    == {k \in m.start..m.end : k = m.start \/ t.chars[k] \notin Delimiters}
        end     == IF closing # {} THEN MaxOf(Min(closing) - 1, 0) ELSE Max(keep)
    IN  IF end < m.start THEN {} ELSE {Range2(m.start, end)}

(* Point::add within the grid stops at its last cell. *)
NextCell(t, k) == MinOf(k + 1, Max(Cells(t)))

(* next_processed_match: candidates are dropped until one is left after
   processing; `endless` when that has not come about after as many as there
   are cells. *)
next_processed_match(t, it, m) ==
    LET Skipped(from) == [found |-> {}, from |-> from,
                          candidate |-> IF from > it.end THEN {} ELSE search_right(t, from, it.end)]
        Tried(c, processed) ==
            IF processed = {} THEN Skipped(NextCell(t, c.start))
            ELSE [found |-> processed, candidate |-> {}, from |-> NextCell(t, Max({p.end : p \in processed}))]
        Try(c) == Tried(c, hint_post_processing(t, c))
        step(acc, i) == IF acc.found # {} \/ acc.candidate = {} THEN acc
                        ELSE Try(CHOOSE c \in acc.candidate : TRUE)
        After(last) == [it EXCEPT !.next_match = last.found, !.start = last.from,
                                  !.endless = last.candidate # {}]
    IN  After(FoldLeft(step, [found |-> {}, candidate |-> {m}, from |-> it.start],
                       [i \in 1..Cardinality(Cells(t)) + 1 |-> i]))

(* The iterator over the parts of one match: its first part, and one step. *)
HintPostProcessor(t, m) == next_processed_match(t, [start |-> m.start, end |-> m.end, next_match |-> {}, endless |-> FALSE], m)

NextPart(t, it) ==
    LET taken == [it EXCEPT !.next_match = {}]
        Onward(found) == IF it.next_match = {} \/ found = {} THEN taken
                         ELSE next_processed_match(t, taken, CHOOSE m \in found : TRUE)
    IN  Onward(IF it.start <= it.end THEN search_right(t, it.start, it.end) ELSE {})

(* The iterator after as many steps as the grid has cells. *)
Parts(t, m) ==
    LET step(acc, i) == [it |-> NextPart(t, acc.it), out |-> acc.out \cup acc.it.next_match]
    IN  FoldLeft(step, [it |-> HintPostProcessor(t, m), out |-> {}], [i \in 0..Cardinality(Cells(t)) |-> i])

-----------------------------------------------------------------------------
(* Hyperlinks *)

Linked(t, from, to) == \A j \in MinOf(from, to)..MaxOf(from, to) : t.links[j] = t.links[from]

(* The run of cells around one that have its hyperlink. *)
hyperlink_at(t, k) ==
    IF t.links[k] = 0 THEN {}
    ELSE {Range2(Min({j \in 0..k : Linked(t, j, k)}), Max({j \in k..Max(Cells(t)) : Linked(t, k, j)}))}

(* The first visible run of every hyperlink. *)
visible_unique_hyperlinks(t) ==
    LET First(link) == Min({k \in Viewport(t) : t.links[k] = link})
    IN  {Range2(First(link), Max({j \in First(link)..Max(Viewport(t)) : Linked(t, First(link), j)})) :
            link \in {t.links[k] : k \in Viewport(t)} \ {0}}

-----------------------------------------------------------------------------
(* The state of the hints *)

regex_match_at(t, k) ==
    UNION {{p \in Parts(t, m).out : In(k, p)} : m \in {m \in visible_regex_matches(t) : In(k, m)}}

(* A hyperlink is preferred to a match of the pattern. *)
highlighted_at(t, k) ==
    IF hyperlink_at(t, k) # {} THEN {[bounds |-> b, link |-> t.links[k]] : b \in hyperlink_at(t, k)}
    ELSE {[bounds |-> b, link |-> 0] : b \in regex_match_at(t, k)}

(* Of matches with the same start the longest is kept. *)
AllMatches(t) ==
    LET Longest(all) == {m \in all : \A o \in all : o.start = m.start => o.end <= m.end}
    IN  Longest(visible_unique_hyperlinks(t)
                  \cup UNION {Parts(t, m).out : m \in visible_regex_matches(t)})

stop(h) == [h EXCEPT !.active = FALSE, !.matches = <<>>, !.labels = <<>>, !.keys = <<>>]

(* The last match gets the first label; what was typed is cut from the labels,
   and the labels that do not begin with it are empty. *)
update_matches(h) ==
    LET Cut(label) == IF IsPrefix(h.keys, label) THEN SubSeq(label, Len(h.keys) + 1, Len(label)) ELSE <<>>
        Cuts(labels) == [i \in DOMAIN labels |-> Cut(labels[Len(labels) + 1 - i])]
        Show(matches) == IF matches = <<>> THEN stop(h)
                         ELSE [h EXCEPT !.matches = matches,
                                        !.labels = Cuts(Labels(AlphabetSize, Len(matches)))]
    IN  IF h.active THEN Show(SetToSortSeq(AllMatches(h.text), LAMBDA a, b : a.start < b.start))
        ELSE h

(* Faulty variant: the text that the hint was found in is trusted. *)
HintText_Trusted(t, hint) == TRUE

(* HintMatch::text: whether the hint is still there. *)
HintText(t, hint) ==
    hint.bounds \in IF hint.link # 0
                    THEN {b \in hyperlink_at(t, hint.bounds.start) : t.links[hint.bounds.start] = hint.link}
                    ELSE regex_match_at(t, hint.bounds.start)

trigger_hint(h, hint) ==
    [h EXCEPT !.triggered = IF HintText(h.text, hint) THEN {hint} ELSE {}]

(* A letter of a label, for the matches that are visible now. *)
keyboard_input(h, c) ==
    LET Hits(now) == {i \in DOMAIN now.labels : now.labels[i] # <<>> /\ now.labels[i][1] = c}
        Hint(now, i) == [bounds |-> now.matches[i], link |-> now.text.links[now.matches[i].start]]
        Chosen(now, i) ==
            IF Len(now.labels[i]) > 1 THEN [now EXCEPT !.keys = Append(@, c)]
            ELSE trigger_hint(IF now.persist THEN [now EXCEPT !.keys = <<>>] ELSE stop(now),
                              Hint(now, i))
        Among(now) == IF Hits(now) = {} THEN now ELSE Chosen(now, Max(Hits(now)))
    IN  Among(update_matches(h))

(* update_highlighted_hints, when the mouse is over cell k. *)
update_highlighted_hints(h, k) == [h EXCEPT !.highlighted = highlighted_at(h.text, k)]

-----------------------------------------------------------------------------

HintsInit ==
    \E t \in HintTexts, persist \in BOOLEAN :
       hints = [text |-> t, persist |-> persist, active |-> FALSE, matches |-> <<>>, labels |-> <<>>, keys |-> <<>>,
                highlighted |-> {}, triggered |-> {}]

Untriggered(h) == [h EXCEPT !.triggered = {}]

HintsNext ==
    \/ ~hints.active /\ hints' = [Untriggered(hints) EXCEPT !.active = TRUE]
    \/ hints' = update_matches(Untriggered(hints))
    \/ \E c \in Alphabet : hints.active /\ hints' = keyboard_input(Untriggered(hints), c)
    \/ hints.keys # <<>> /\ hints' = update_matches([Untriggered(hints) EXCEPT !.keys = Front(@)])
    \/ hints.active /\ hints' = stop(Untriggered(hints))
    \/ \E k \in Viewport(hints.text) : hints' = update_highlighted_hints(Untriggered(hints), k)
    \/ \E hint \in hints.highlighted : hints' = trigger_hint(hints, hint)
    \/ \E t \in HintTexts : hints' = [Untriggered(hints) EXCEPT !.text = t]

-----------------------------------------------------------------------------

(* "It will always be a valid match for this hint": what is opened is on the
   screen at that moment, though the text may have changed after the hint was
   highlighted and the click or the keys came later. *)
TriggeredIsValid ==
    \A hint \in hints.triggered :
      IF hint.link # 0 THEN \A k \in hint.bounds.start..hint.bounds.end : hints.text.links[k] = hint.link
      ELSE \A k \in hint.bounds.start..hint.bounds.end : hints.text.chars[k] \in WordChars

=============================================================================
