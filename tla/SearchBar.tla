------------------------------- MODULE SearchBar -------------------------------
(***************************************************************************)
(* The search bar and the inline search (ActionContext in                  *)
(* velacritty/src/event.rs) on top of the terminal of module Term.  Where  *)
(* a match is, if any, is left open: a search has any result it can have   *)
(* (see RegexSearch for how one is found).  A match is one cell.           *)
(* The bar takes a line of the screen once the window has handled the      *)
(* pending update, which need not be before the next key.                  *)
(***************************************************************************)
EXTENDS Term

CONSTANTS
    MAX_SEARCH_HISTORY_SIZE,
    Chars,          \* characters typed
    MaxRegex,       \* bound on the length of a regex
    MaxDelta        \* bound on the lines the view is away, which outside vi mode nothing resets

ASSUME SearchAssumption == MAX_SEARCH_HISTORY_SIZE \in Nat \ {0}

VARIABLE bar

NoIndex == -1
None == {}

(* rows: the lines of the window; late: the event of the timer is queued;
   before: how far the vi cursor was below the terminal's cursor when the
   search was opened, unless an update was pending or the origin has moved. *)
NewBar(t) ==
    [t |-> t, rows |-> t.lines, index |-> NoIndex, history |-> <<>>,
     delta |-> 0, origin |-> Point(0, 0), focused |-> None, dfas |-> FALSE,
     timer |-> FALSE, late |-> FALSE, pending |-> FALSE, before |-> None]

search_active(b) == b.index # NoIndex
Vi(b) == Has(b.t, "VI")
Regex(b) == b.history[b.index + 1]

(* Faulty variant: the view is not scrolled back. *)
search_reset_state_KeepsView(b) ==
    LET s == [b EXCEPT !.timer = FALSE, !.focused = None]
    IN  IF ~Vi(b) THEN s ELSE [s EXCEPT !.t.vi = b.origin, !.delta = 0]

search_reset_state(b) ==
    LET s == [b EXCEPT !.timer = FALSE, !.focused = None]
    IN  IF ~Vi(b) THEN s
        ELSE [s EXCEPT !.t = scroll_display([b.t EXCEPT !.vi = b.origin], Delta(b.delta)),
                       !.delta = 0]

(* The results of a search: the first or the last cell of the grid, or none; of one while typing, also that
   there is none within the limit or that the text is no regex. *)
Results(b, typing) ==
    {[found |-> "match", at |-> p] : p \in {Point(-b.t.grid.hist, 0), Point(b.t.lines - 1, b.t.cols - 1)}}
    \cup {[found |-> f, at |-> Point(0, 0)] :
            f \in {"none"} \cup (IF typing THEN {"interrupted", "error"} ELSE {})}

goto_match(b, result) ==
    LET At(t) == [b EXCEPT !.t = t, !.focused = {result.at}, !.timer = FALSE,
                           !.delta = b.delta + b.t.grid.offset - t.grid.offset]
    IN  CASE ~b.dfas -> b
          [] b.dfas /\ result.found = "none" -> search_reset_state(b)
          [] b.dfas /\ result.found = "interrupted" -> [b EXCEPT !.timer = TRUE, !.focused = None]
          [] b.dfas /\ result.found = "match" ->
               At(IF Vi(b) THEN vi_goto_point(b.t, result.at)
                           ELSE scroll_to_point(b.t, result.at))

update_search(b, result) ==
    IF Regex(b) = <<>> THEN [search_reset_state(b) EXCEPT !.dfas = FALSE]
    ELSE goto_match([b EXCEPT !.dfas = result.found # "error"], result)

exit_search(b) == [b EXCEPT !.pending = TRUE, !.index = NoIndex, !.focused = None]

(* Faulty variant: not adjusted for the line the bar takes. *)
SearchOrigin_Unmoved(b, direction) == b.t.vi

(* "Adjust origin for content moving upward on search start." *)
SearchOrigin(b, direction) ==
    LET top    == -b.t.grid.offset - 1
        bottom == b.t.grid.cursor.line + 1 = b.t.lines
    IN  IF Vi(b) THEN Point(b.t.vi.line - (IF bottom THEN 1 ELSE 0), b.t.vi.col)
        ELSE IF direction = "Right" THEN Point(top, 0)
        ELSE Point(top + b.t.lines - 1, b.t.cols - 1)

start_search(b, direction) ==
    LET fresh   == b.history = <<>> \/ b.history[1] # <<>>
        history == IF fresh THEN <<<<>>>> \o b.history ELSE b.history
    IN  [b EXCEPT !.history = SubSeq(history, 1, MinOf(Len(history), MAX_SEARCH_HISTORY_SIZE)),
                  !.index = 0, !.focused = None, !.pending = TRUE,
                  !.origin = SearchOrigin(b, direction), !.delta = IF Vi(b) THEN 0 ELSE b.delta,
                  !.before = IF b.pending THEN None ELSE {b.t.vi.line - b.t.grid.cursor.line}]

(* Outside vi mode the focused match is selected. *)
cancel_search(b) ==
    LET s == IF Vi(b) THEN search_reset_state(b)
             ELSE [b EXCEPT !.t.sel = IF b.focused = None THEN @
                              ELSE {update(Selection("Simple", p, "Left"), p, "Right") :
                                      p \in b.focused}]
    IN  exit_search([s EXCEPT !.dfas = FALSE])

confirm_search(b, result) ==
    IF ~Vi(b) THEN cancel_search(b)
    ELSE exit_search(IF b.timer THEN goto_match(b, result) ELSE b)

(* "When currently in history, replace active regex with history on change." *)
EditRegex(b, r) == [b EXCEPT !.history[1] = r, !.index = 0]

search_input(b, r, result) ==
    LET s == EditRegex(b, r)
    IN  update_search(IF Vi(b) THEN s ELSE [s EXCEPT !.t.sel = NoSelection], result)

(* Deleting a word changes the entry of the history that is shown. *)
search_pop_word(b, result) ==
    update_search([b EXCEPT !.history[b.index + 1] = <<>>], result)

search_history_previous(b, result) ==
    IF b.index + 1 >= Len(b.history) THEN b ELSE update_search([b EXCEPT !.index = @ + 1], result)

search_history_next(b, result) ==
    IF b.index = 0 THEN b ELSE update_search([b EXCEPT !.index = @ - 1], result)

(* The next search starts behind the focused match, and later ones in front of
   what it finds. *)
advance_search_origin(b, direction, result) ==
    LET From(p) == IF direction = "Right" THEN add(Dims(b.t), "None", p, 1)
                   ELSE sub(Dims(b.t), "None", p, 1)
        OriginAt(c, p) == [c EXCEPT !.t = scroll_to_point(c.t, p), !.delta = 0, !.origin = p]
        Moved(c, p, there) ==
            LET moved == there.grid.offset - c.t.grid.offset
            IN  [c EXCEPT !.delta = moved, !.origin = p,
                          !.t = scroll_display(there, Delta(-moved))]
        NextOrigin(c, p) == Moved(c, p, scroll_to_point(c.t, p))
        Focused(c) == CHOOSE p \in c.focused : TRUE
        Onward(c) == IF c.focused = None THEN c ELSE NextOrigin(c, Focused(c))
    IN  Onward(goto_match(IF b.focused = None THEN b ELSE OriginAt(b, From(Focused(b))), result))

(* ActionContext::scroll: the search remembers how far the view was moved. *)
ScrollView(b, scroll) ==
    LET t == scroll_display(b.t, scroll)
    IN  [b EXCEPT !.t = t,
                  !.delta = IF search_active(b) THEN @ + b.t.grid.offset - t.grid.offset ELSE @]

(* ActionContext::toggle_vi_mode; a search ends first. *)
ToggleVi(b) ==
    LET s == IF Vi(b) THEN [b EXCEPT !.dfas = FALSE] ELSE [b EXCEPT !.t.sel = NoSelection]
    IN  [IF search_active(b) THEN cancel_search(s) ELSE s EXCEPT !.t = toggle_vi_mode(@)]

-----------------------------------------------------------------------------

SearchInit(t) == bar = NewBar([t EXCEPT !.grid.hist = t.config.history])

OpenSearch == \E direction \in {"Left", "Right"} : ~search_active(bar) /\ bar' = start_search(bar, direction)

Typed(b) == {Append(Regex(b), c) : c \in Chars} \cup {SubSeq(Regex(b), 1, Len(Regex(b)) - 1)}

TypeSearch ==
    /\ search_active(bar)
    /\ \E result \in Results(bar, TRUE) :
         \/ \E r \in Typed(bar) : Len(r) <= MaxRegex /\ bar' = search_input(bar, r, result)
         \/ bar' = search_pop_word(bar, result)
         \/ bar' = search_history_previous(bar, result)
         \/ bar' = search_history_next(bar, result)

FocusMatch ==
    /\ search_active(bar)
    /\ \E result \in Results(bar, FALSE), direction \in {"Left", "Right"} :
         bar' = [advance_search_origin(bar, direction, result) EXCEPT !.before = None]

CloseSearch ==
    /\ search_active(bar)
    /\ \/ bar' = cancel_search(bar)
       \/ \E result \in Results(bar, FALSE) :
            bar' = [confirm_search(bar, result) EXCEPT !.before = None]

(* The timer of the delayed search fires; its event is handled some time later. *)
SearchTimer ==
    \/ bar.timer /\ bar' = [bar EXCEPT !.timer = FALSE, !.late = TRUE]
    \/ bar.late /\ \E result \in Results(bar, FALSE) :
         bar' = goto_match([bar EXCEPT !.late = FALSE], result)

SearchView ==
    \/ \E lines \in {-1, 1} : bar' = ScrollView(bar, Delta(lines))
    \/ bar' = ToggleVi(bar)

(* Display::handle_update: the bar takes a line of the screen, unless it has only one
   (reserve_lines, MIN_SCREEN_LINES). *)
UpdateForBar ==
    /\ bar.pending
    /\ \E t \in TermResize(bar.t, bar.t.cols,
                         IF search_active(bar) THEN MaxOf(bar.rows - 1, 1) ELSE bar.rows) :
         bar' = [bar EXCEPT !.t = t, !.pending = FALSE]

SearchNext ==
    /\ OpenSearch \/ TypeSearch \/ FocusMatch \/ CloseSearch \/ SearchTimer \/ SearchView \/ UpdateForBar
    /\ bar'.delta \in -MaxDelta..MaxDelta

-----------------------------------------------------------------------------

(* The vi cursor stays in the grid: a search sets it to an origin that was
   moved for the line the bar will take, whether or not it has taken it. *)
SearchCursorInGrid == bar.t.vi \in GridPoints(Dims(bar.t))

(* The entry of the history that is shown exists, and the history has its size. *)
HistoryIndexValid ==
    /\ search_active(bar) => bar.index < Len(bar.history)
    /\ Len(bar.history) <= MAX_SEARCH_HISTORY_SIZE

(* Leaving the search of vi mode without confirming it puts the vi cursor back
   on the text it was on, once the bar has taken its line: it is as far from
   the terminal's cursor as when the search was opened, or as near to that line
   as the view goes. *)
CancelRestores ==
    [][(search_active(bar) /\ ~search_active(bar') /\ Vi(bar) /\ ~bar.pending
          /\ bar' = cancel_search(bar)) =>
         \A distance \in bar.before :
            bar'.t.vi.line =
                MaxOf(-bar'.t.grid.offset,
                      MinOf(bar'.t.lines - 1 - bar'.t.grid.offset, bar.t.grid.cursor.line + distance))]_bar

=============================================================================
