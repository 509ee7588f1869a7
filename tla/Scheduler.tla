------------------------------ MODULE Scheduler ------------------------------
(***************************************************************************)
(* The timers of the window thread (velacritty/src/scheduler.rs): a queue  *)
(* ordered by deadline, of which only the front is ever looked at.         *)
(*                                                                         *)
(* A timer is a record of the fields of `struct Timer`.  Deadlines are     *)
(* kept relative to now, in ticks: `left` is 0 once the deadline has been  *)
(* reached, and elapse() lets a tick pass.  `interval` is 0 for a timer    *)
(* that is not repeated.                                                   *)
(***************************************************************************)
EXTENDS Integers, Sequences, SequencesExt

schedule(timers, event, interval, repeat, id) ==
    LET later == {k \in DOMAIN timers : timers[k].left > interval}
        index == IF later = {} THEN Len(timers) + 1 ELSE Min(later)
    IN  InsertAt(timers, index,
                 [left |-> interval, event |-> event,
                  interval |-> IF repeat THEN interval ELSE 0, id |-> id])

(* Only the first timer of that id is removed. *)
unschedule(timers, id) ==
    LET found == {k \in DOMAIN timers : timers[k].id = id}
    IN  IF found = {} THEN timers ELSE RemoveAt(timers, Min(found))

scheduled(timers, id) == \E k \in DOMAIN timers : timers[k].id = id

(* VecDeque::retain, timer by timer. *)
retain(window, kept, t) == IF t.id.window # window THEN Append(kept, t) ELSE kept

unschedule_window(timers, window) ==
    FoldLeft(LAMBDA kept, t : retain(window, kept, t), <<>>, timers)

(* How many timers the loop of update() takes from the front. *)
due(timers) ==
    LET pending == {k \in DOMAIN timers : timers[k].left > 0}
    IN  IF pending = {} THEN Len(timers) ELSE Min(pending) - 1

reschedule(timers, t) ==
    IF t.interval # 0 THEN schedule(timers, t.event, t.interval, TRUE, t.id) ELSE timers

(* The timers that remain after update(), and the events that it sends. *)
update(timers) ==
    LET fired == SubSeq(timers, 1, due(timers))
    IN  [timers |-> FoldLeft(reschedule, SubSeq(timers, due(timers) + 1, Len(timers)), fired),
         events |-> [k \in DOMAIN fired |-> fired[k].event]]

elapse(timers) ==
    [k \in DOMAIN timers |->
        [timers[k] EXCEPT !.left = IF timers[k].left > 0 THEN timers[k].left - 1 ELSE 0]]

=============================================================================
