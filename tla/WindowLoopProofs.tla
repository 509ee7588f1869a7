-------------------------- MODULE WindowLoopProofs ---------------------------
(***************************************************************************)
(* The window thread, for every number of windows, every size of them,     *)
(* every set of timeouts and every sequence of events: the timers stay in  *)
(* order, unique and owned by open windows, no window waits for a frame or *)
(* a redraw that is not coming, and a late blink never hides a cursor that *)
(* has timed out.                                                          *)
(*                                                                         *)
(* First the operations of the Scheduler, for every queue: each keeps the  *)
(* timers ordered by deadline and the ids of the blink, timeout and        *)
(* debounce timers unique, and none loses a Frame timer that has not       *)
(* fired. Then the inductive invariant, LoopInv. Its conjuncts need each   *)
(* other: what a fired timer sends is delivered only because Frame timers  *)
(* carry Frame events (TimersOK), a handler may schedule for its window    *)
(* because winit redraws open windows only (ControlOK), and has_frame and  *)
(* requested_redraw are changed by the draws alone, which Handled says of  *)
(* every other handler.                                                    *)
(***************************************************************************)
EXTENDS WindowLoop, SequenceLaws

(* The step of the fold in update: a fired timer is scheduled again if it repeats. *)
reschedule_step(w, T, t) == reschedule(T, t)
U == INSTANCE FoldLaws WITH op <- reschedule_step
R == INSTANCE FoldLaws WITH op <- retain

(* The topics of timers, and the ids that timers of windows O may have. *)
Topic == {"BlinkCursor", "BlinkTimeout", "ResizeDebounce", "Frame"}
Ids(O) == [topic : Topic, window : O]
(* The events on the event loop proxy. *)
UserEvent ==
    [type : {"Wakeup", "Frame", "Exit", "Bell", "BlinkCursor", "BlinkCursorTimeout",
             "CursorBlinkingChange"}, window : Windows]
      \cup [type : {"Resize"}, window : Windows, size : Sizes]
(* A timer of a window in O. Whatever else a timer sends, a Frame timer sends the Frame
   event of its window. *)
Timer(O) == {t \in [left : Nat, event : UserEvent, interval : Nat, id : Ids(O)] :
               t.id.topic = "Frame" => t.event = Event("Frame", t.id.window)}

(* The queue is ordered by deadline. *)
Sorted(T) == \A i, j \in DOMAIN T : i < j => T[i].left <= T[j].left
(* No two timers of the same id, other than Frame timers, which request_frame schedules
   without unscheduling. *)
Unique(T) == \A i, j \in DOMAIN T :
                T[i].id = T[j].id /\ T[i].id.topic # "Frame" => i = j
(* The invariant of the queue, with O the windows that are open. *)
TimersOK(T, O) == T \in Seq(Timer(O)) /\ Sorted(T) /\ Unique(T)

(* What an element of the queue is. *)
LEMMA TimerFields ==
    ASSUME NEW O, NEW T \in Seq(Timer(O)), NEW k \in DOMAIN T
    PROVE  /\ T[k] \in Timer(O) /\ T[k].left \in Nat /\ T[k].interval \in Nat
           /\ T[k].id \in Ids(O) /\ T[k].event \in UserEvent
           /\ T[k].id.topic = "Frame" => T[k].event = Event("Frame", T[k].id.window)
  <1>1. T[k] \in Timer(O) BY ElementOfSeq, LenProperties
  <1>. QED BY <1>1 DEF Timer

(* Scheduler::schedule keeps the queue ordered, and adds exactly the timer of that id.
   An id other than a Frame id must not be scheduled yet. *)
LEMMA ScheduleKeeps ==
    ASSUME NEW O, NEW T, TimersOK(T, O), NEW event \in UserEvent, NEW interval \in Nat,
           NEW repeat \in BOOLEAN, NEW id \in Ids(O),
           id.topic = "Frame" => event = Event("Frame", id.window),
           id.topic = "Frame" \/ ~scheduled(T, id)
    PROVE  /\ TimersOK(schedule(T, event, interval, repeat, id), O)
           /\ \A i : scheduled(schedule(T, event, interval, repeat, id), i)
                       <=> scheduled(T, i) \/ i = id
  <1>. DEFINE later == {k \in DOMAIN T : T[k].left > interval}
              S == Timer(O)
  <1>0. T \in Seq(S) /\ Sorted(T) /\ Unique(T) BY DEF TimersOK
  <1>1. DOMAIN T = 1..Len(T) /\ Len(T) \in Nat BY <1>0, LenProperties
  <1>2. \A k \in 1..Len(T) : T[k].left \in Nat BY <1>0, <1>1, TimerFields, Zenon
  <1>3. PICK p : p = IF later = {} THEN Len(T) + 1 ELSE Min(later) OBVIOUS
  <1>4. /\ p \in 1..(Len(T) + 1)
        /\ \A k \in 1..(p - 1) : T[k].left <= interval
        /\ \A k \in p..Len(T) : T[k].left > interval
    <2>1. CASE later = {} BY <1>1, <1>2, <1>3, <2>1
    <2>2. CASE later # {}
      <3>1. p \in later /\ \A y \in later : p <= y
        <4>1. later \in SUBSET Nat BY <1>1
        <4>. HIDE DEF later
        <4>. QED BY <1>3, <2>2, <4>1, LeastNat
      <3>2. p \in 1..Len(T) /\ T[p].left > interval BY <1>1, <3>1
      <3>3. ASSUME NEW k \in 1..(p - 1) PROVE T[k].left <= interval
        <4>1. k \in 1..Len(T) /\ ~(p <= k) BY <1>1, <3>2
        <4>2. k \notin later BY <3>1, <4>1, Zenon
        <4>. QED BY <1>1, <1>2, <4>1, <4>2
      <3>4. ASSUME NEW k \in p..Len(T) PROVE T[k].left > interval
        <4>1. k \in 1..Len(T) /\ (k = p \/ p < k) BY <1>1, <3>2
        <4>2. p < k => T[p].left <= T[k].left BY <1>0, <1>1, <3>2, <4>1 DEF Sorted
        <4>. QED BY <1>2, <3>2, <4>1, <4>2
      <3>. QED BY <1>1, <3>2, <3>3, <3>4
    <2>. QED BY <2>1, <2>2
  <1>5. PICK e : e = [left |-> interval, event |-> event,
                      interval |-> IF repeat THEN interval ELSE 0, id |-> id] OBVIOUS
  <1>6. e \in S /\ e.left = interval /\ e.id = id BY <1>5 DEF Timer
  <1>7. PICK r : r = InsertAt(T, p, e) OBVIOUS
  <1>8. schedule(T, event, interval, repeat, id) = r
    BY <1>3, <1>5, <1>7, Zenon DEF schedule
  <1>9. /\ r \in Seq(S) /\ Len(r) = Len(T) + 1
        /\ \A k \in 1..(p - 1) : r[k] = T[k]
        /\ r[p] = e
        /\ \A k \in p..Len(T) : r[k + 1] = T[k]
    <2>. HIDE DEF S
    <2>. QED BY <1>0, <1>4, <1>6, <1>7, InsertAtElements
  <1>10. DOMAIN r = 1..(Len(T) + 1) BY <1>9, LenProperties
  <1>. HIDE DEF S, later
  <1>11. \A k \in 1..(Len(T) + 1) :
            \/ k = p /\ r[k] = e
            \/ k < p /\ k \in 1..Len(T) /\ r[k] = T[k] /\ T[k].left <= interval
            \/ \E j \in 1..Len(T) : k = j + 1 /\ p <= j /\ r[k] = T[j] /\ T[j].left > interval
    <2>. SUFFICES ASSUME NEW k \in 1..(Len(T) + 1)
                  PROVE \/ k = p /\ r[k] = e
                        \/ k < p /\ k \in 1..Len(T) /\ r[k] = T[k] /\ T[k].left <= interval
                        \/ \E j \in 1..Len(T) : k = j + 1 /\ p <= j /\ r[k] = T[j]
                                                  /\ T[j].left > interval
      OBVIOUS
    <2>1. CASE k = p BY <1>9, <2>1
    <2>2. CASE k < p
      <3>1. k \in 1..(p - 1) /\ k \in 1..Len(T) BY <1>1, <1>4, <2>2
      <3>. QED BY <1>4, <1>9, <2>2, <3>1
    <2>3. CASE k > p
      <3>0. k - 1 \in p..Len(T) /\ k = (k - 1) + 1 BY <1>1, <1>4, <2>3
      <3>1. PICK j \in p..Len(T) : k = j + 1 BY <3>0
      <3>2. j \in 1..Len(T) /\ p <= j BY <1>1, <1>4
      <3>3. r[j + 1] = T[j] /\ T[j].left > interval BY <1>4, <1>9
      <3>. QED BY <3>1, <3>2, <3>3
    <2>. QED BY <1>1, <1>4, <2>1, <2>2, <2>3
  <1>12. Sorted(r)
    <2>. SUFFICES ASSUME NEW i \in 1..(Len(T) + 1), NEW j \in 1..(Len(T) + 1), i < j
                  PROVE  r[i].left <= r[j].left
      BY <1>10 DEF Sorted
    <2>1. \A a, b \in 1..Len(T) : a < b => T[a].left <= T[b].left BY <1>0, <1>1 DEF Sorted
    <2>2. e.left = interval BY <1>6
    <2>. QED BY SMTT(60), <1>1, <1>2, <1>4, <1>11, <2>1, <2>2
  <1>13. Unique(r)
    <2>. SUFFICES ASSUME NEW i \in 1..(Len(T) + 1), NEW j \in 1..(Len(T) + 1),
                         r[i].id = r[j].id, r[i].id.topic # "Frame"
                  PROVE  i = j
      BY <1>10 DEF Unique
    <2>1. \A a, b \in 1..Len(T) : T[a].id = T[b].id /\ T[a].id.topic # "Frame" => a = b
      BY <1>0, <1>1 DEF Unique
    <2>2. \A a \in 1..Len(T) : T[a].id = id => id.topic = "Frame" BY <1>1 DEF scheduled
    <2>. QED BY SMTT(60), <1>1, <1>4, <1>6, <1>11, <2>1, <2>2
  <1>14. ASSUME NEW i PROVE scheduled(r, i) <=> scheduled(T, i) \/ i = id
    <2>1. scheduled(r, i) => scheduled(T, i) \/ i = id
      BY <1>1, <1>6, <1>10, <1>11 DEF scheduled
    <2>2. i = id => scheduled(r, i) BY <1>4, <1>6, <1>9, <1>10 DEF scheduled
    <2>3. ASSUME NEW j \in 1..Len(T), T[j].id = i PROVE scheduled(r, i)
      <3>1. CASE j \in 1..(p - 1)
        <4>1. r[j] = T[j] /\ j \in DOMAIN r BY <1>1, <1>9, <1>10, <3>1
        <4>. QED BY <2>3, <4>1 DEF scheduled
      <3>2. CASE j \in p..Len(T)
        <4>1. r[j + 1] = T[j] /\ j + 1 \in DOMAIN r BY <1>1, <1>9, <1>10, <3>2
        <4>. QED BY <2>3, <4>1 DEF scheduled
      <3>. QED BY <1>1, <1>4, <3>1, <3>2
    <2>. QED BY <1>1, <2>1, <2>2, <2>3 DEF scheduled
  <1>. QED BY <1>8, <1>9, <1>12, <1>13, <1>14, Zenon DEF TimersOK, S

(* Scheduler::unschedule removes a timer that is there at most once, and no other. *)
LEMMA UnscheduleKeeps ==
    ASSUME NEW O, NEW T, TimersOK(T, O), NEW id
    PROVE  /\ TimersOK(unschedule(T, id), O)
           /\ \A i : i # id => (scheduled(unschedule(T, id), i) <=> scheduled(T, i))
           /\ \A i : scheduled(unschedule(T, id), i) => scheduled(T, i)
           /\ id.topic # "Frame" => ~scheduled(unschedule(T, id), id)
  <1>. DEFINE found == {k \in DOMAIN T : T[k].id = id}
              S == Timer(O)
  <1>0. T \in Seq(S) /\ Sorted(T) /\ Unique(T) BY DEF TimersOK
  <1>1. DOMAIN T = 1..Len(T) /\ Len(T) \in Nat BY <1>0, LenProperties
  <1>2. CASE found = {}
    <2>1. unschedule(T, id) = T BY <1>2, Zenon DEF unschedule
    <2>2. ~scheduled(T, id) BY <1>2 DEF scheduled
    <2>. QED BY <2>1, <2>2
  <1>3. CASE found # {}
    <2>1. PICK p : p = Min(found) OBVIOUS
    <2>2. p \in found
      <3>1. found \in SUBSET Nat BY <1>1
      <3>. HIDE DEF found
      <3>. QED BY <1>3, <2>1, <3>1, LeastNat
    <2>3. p \in 1..Len(T) /\ T[p].id = id BY <1>1, <2>2
    <2>4. PICK r : r = RemoveAt(T, p) OBVIOUS
    <2>5. unschedule(T, id) = r BY <1>3, <2>1, <2>4, Zenon DEF unschedule
    <2>. HIDE DEF S, found
    <2>6. /\ r \in Seq(S) /\ Len(r) = Len(T) - 1
          /\ \A k \in 1..(p - 1) : r[k] = T[k]
          /\ \A k \in p..(Len(T) - 1) : r[k] = T[k + 1]
      BY <1>0, <2>3, <2>4, RemoveAtElements
    <2>7. DOMAIN r = 1..(Len(T) - 1) BY <2>6, LenProperties
    <2>8. ASSUME NEW k \in 1..(Len(T) - 1)
          PROVE  \E j \in 1..Len(T) : /\ r[k] = T[j] /\ j # p
                                      /\ (k < p /\ j = k) \/ (k >= p /\ j = k + 1)
      <3>1. CASE k < p
        <4>1. k \in 1..(p - 1) /\ k \in 1..Len(T) /\ k # p BY <1>1, <2>3, <3>1
        <4>. QED BY <2>6, <3>1, <4>1
      <3>2. CASE k >= p
        <4>1. k \in p..(Len(T) - 1) /\ k + 1 \in 1..Len(T) /\ k + 1 # p BY <1>1, <2>3, <3>2
        <4>. QED BY <2>6, <3>2, <4>1
      <3>. QED BY <2>3, <3>1, <3>2
    <2>9. Sorted(r)
      <3>. SUFFICES ASSUME NEW i \in 1..(Len(T) - 1), NEW j \in 1..(Len(T) - 1), i < j
                    PROVE  r[i].left <= r[j].left
        BY <2>7 DEF Sorted
      <3>1. PICK a \in 1..Len(T) : /\ r[i] = T[a] /\ a # p
                                   /\ (i < p /\ a = i) \/ (i >= p /\ a = i + 1)
        BY <2>8
      <3>2. PICK b \in 1..Len(T) : /\ r[j] = T[b] /\ b # p
                                   /\ (j < p /\ b = j) \/ (j >= p /\ b = j + 1)
        BY <2>8
      <3>3. a < b BY <2>3, <3>1, <3>2
      <3>. QED BY <1>0, <1>1, <3>1, <3>2, <3>3 DEF Sorted
    <2>10. Unique(r)
      <3>. SUFFICES ASSUME NEW i \in 1..(Len(T) - 1), NEW j \in 1..(Len(T) - 1),
                           r[i].id = r[j].id, r[i].id.topic # "Frame"
                    PROVE  i = j
        BY <2>7 DEF Unique
      <3>1. PICK a \in 1..Len(T) : /\ r[i] = T[a] /\ a # p
                                   /\ (i < p /\ a = i) \/ (i >= p /\ a = i + 1)
        BY <2>8
      <3>2. PICK b \in 1..Len(T) : /\ r[j] = T[b] /\ b # p
                                   /\ (j < p /\ b = j) \/ (j >= p /\ b = j + 1)
        BY <2>8
      <3>3. a = b BY <1>0, <1>1, <3>1, <3>2 DEF Unique
      <3>. QED BY <2>3, <3>1, <3>2, <3>3
    <2>11. ASSUME NEW i PROVE scheduled(r, i) => \E j \in 1..Len(T) : j # p /\ T[j].id = i
      BY <2>7, <2>8 DEF scheduled
    <2>12. ASSUME NEW i, i # id, scheduled(T, i) PROVE scheduled(r, i)
      <3>1. PICK j \in 1..Len(T) : T[j].id = i BY <1>1, <2>12 DEF scheduled
      <3>2. j # p BY <2>3, <2>12, <3>1
      <3>3. CASE j < p
        <4>1. j \in 1..(p - 1) /\ j \in 1..(Len(T) - 1) BY <1>1, <2>3, <3>3
        <4>. QED BY <2>6, <2>7, <3>1, <4>1 DEF scheduled
      <3>4. CASE j > p
        <4>1. PICK k \in p..(Len(T) - 1) : j = k + 1 BY <1>1, <2>3, <3>4
        <4>2. k \in 1..(Len(T) - 1) /\ r[k] = T[j] BY <2>3, <2>6, <4>1
        <4>. QED BY <2>7, <3>1, <4>2 DEF scheduled
      <3>. QED BY <2>3, <3>2, <3>3, <3>4
    <2>13. ASSUME id.topic # "Frame" PROVE ~scheduled(r, id)
      <3>1. \A j \in 1..Len(T) : T[j].id = id => j = p
        BY <1>0, <1>1, <2>3, <2>13 DEF Unique
      <3>. QED BY <2>11, <3>1
    <2>14. \A i : scheduled(r, i) => scheduled(T, i) BY <1>1, <2>11 DEF scheduled
    <2>. QED BY <2>5, <2>6, <2>9, <2>10, <2>12, <2>13, <2>14, Zenon DEF TimersOK, S
  <1>. QED BY <1>2, <1>3

(* Time that passes changes no id and no order. *)
LEMMA ElapseKeeps ==
    ASSUME NEW O, NEW T, TimersOK(T, O)
    PROVE  /\ TimersOK(elapse(T), O)
           /\ \A i : scheduled(elapse(T), i) <=> scheduled(T, i)
  <1>. DEFINE S == Timer(O)
  <1>0. T \in Seq(S) /\ Sorted(T) /\ Unique(T) BY DEF TimersOK
  <1>1. DOMAIN T = 1..Len(T) /\ Len(T) \in Nat BY <1>0, LenProperties
  <1>2. PICK r : r = elapse(T) OBVIOUS
  <1>3. ASSUME NEW k \in 1..Len(T)
        PROVE  /\ r[k] \in S /\ r[k].id = T[k].id
               /\ r[k].left = IF T[k].left > 0 THEN T[k].left - 1 ELSE 0
    <2>1. r[k] = [T[k] EXCEPT !.left = IF T[k].left > 0 THEN T[k].left - 1 ELSE 0]
      BY <1>1, <1>2, Zenon DEF elapse
    <2>2. PICK t : t = T[k] OBVIOUS
    <2>3. t \in S /\ t.left \in Nat BY <1>0, <1>1, <2>2, TimerFields
    <2>4. PICK n \in Nat : n = IF t.left > 0 THEN t.left - 1 ELSE 0 BY <2>3
    <2>5. r[k] = [t EXCEPT !.left = n] BY <2>1, <2>2, <2>4, Zenon
    <2>6. r[k] \in S /\ r[k].id = t.id /\ r[k].left = n BY <2>3, <2>5 DEF Timer
    <2>. QED BY <2>2, <2>4, <2>6, Zenon
  <1>4. DOMAIN r = 1..Len(T) BY <1>1, <1>2, Zenon DEF elapse
  <1>5. r \in Seq(S)
    <2>. HIDE DEF S
    <2>1. r = [k \in 1..Len(T) |-> r[k]] BY <1>1, <1>2, Zenon DEF elapse
    <2>2. r \in [1..Len(T) -> S] BY <1>3, <2>1, Zenon
    <2>. QED BY <1>1, <2>2, IsASeq
  <1>6. \A k \in 1..Len(T) : T[k].left \in Nat BY <1>0, <1>1, TimerFields, Zenon
  <1>7. Sorted(r)
    <2>. SUFFICES ASSUME NEW i \in 1..Len(T), NEW j \in 1..Len(T), i < j
                  PROVE  r[i].left <= r[j].left
      BY <1>4 DEF Sorted
    <2>1. T[i].left <= T[j].left BY <1>0, <1>1 DEF Sorted
    <2>2. T[i].left \in Nat /\ T[j].left \in Nat BY <1>6
    <2>3. /\ r[i].left = IF T[i].left > 0 THEN T[i].left - 1 ELSE 0
          /\ r[j].left = IF T[j].left > 0 THEN T[j].left - 1 ELSE 0
      BY <1>3
    <2>. QED BY <2>1, <2>2, <2>3
  <1>8. Unique(r)
    <2>. SUFFICES ASSUME NEW i \in 1..Len(T), NEW j \in 1..Len(T),
                         r[i].id = r[j].id, r[i].id.topic # "Frame"
                  PROVE  i = j
      BY <1>4 DEF Unique
    <2>1. r[i].id = T[i].id /\ r[j].id = T[j].id BY <1>3
    <2>. QED BY <1>0, <1>1, <2>1 DEF Unique
  <1>9. \A i : scheduled(r, i) <=> scheduled(T, i) BY <1>1, <1>3, <1>4 DEF scheduled
  <1>. QED BY <1>2, <1>5, <1>7, <1>8, <1>9, Zenon DEF TimersOK, S

(* Scheduler::unschedule_window leaves no timer of the window and all timers of the
   others. *)
LEMMA RetainKeeps ==
    ASSUME NEW O, NEW T, TimersOK(T, O), NEW w
    PROVE  /\ TimersOK(unschedule_window(T, w), O \ {w})
           /\ \A i : i.window # w /\ scheduled(T, i) => scheduled(unschedule_window(T, w), i)
  <1>. DEFINE S == Timer(O \ {w})
              n == Len(T)
  <1>0. T \in Seq(Timer(O)) /\ Sorted(T) /\ Unique(T) BY DEF TimersOK
  <1>1. DOMAIN T = 1..n /\ n \in Nat BY <1>0, LenProperties
  <1>2. PICK x : x = R!Fold(w, <<>>, T) OBVIOUS
  <1>3. unschedule_window(T, w) = x
    BY <1>2, Zenon DEF unschedule_window, R!Fold, FoldLeft, MapThenFoldSet, Max,
                       R!FoldLeft, R!MapThenFoldSet, R!Max
  <1>4. PICK t : R!Steps(w, <<>>, T, n, t, x)
    <2>. HIDE DEF n
    <2>. QED BY <1>1, <1>2, R!FoldTrace, Zenon
  <1>5. /\ t[0] = <<>> /\ t[n] = x
        /\ \A k \in 0..(n - 1) : t[k + 1] = retain(w, t[k], T[k + 1])
    BY <1>4, Zenon DEF R!Steps
  <1>6. \A k \in 1..n : T[k].left \in Nat /\ T[k] \in Timer(O)
    BY <1>0, <1>1, TimerFields, Zenon
  <1>. HIDE DEF n, S
  <1>. DEFINE P(k) == /\ TimersOK(t[k], O \ {w})
                      /\ \A i \in DOMAIN t[k] : \E j \in 1..k : t[k][i] = T[j]
                      /\ \A j \in 1..k : T[j].id.window # w => scheduled(t[k], T[j].id)
              H == {k \in Nat : k \in 0..n => P(k)}
  <1>7. 0 \in H
    <2>1. <<>> \in Seq(Timer(O \ {w})) /\ DOMAIN (<<>>) = {} BY EmptySeq
    <2>2. Sorted(<<>>) /\ Unique(<<>>) BY <2>1 DEF Sorted, Unique
    <2>3. 1..0 = {} OBVIOUS
    <2>. QED BY <1>5, <2>1, <2>2, <2>3, Zenon DEF TimersOK
  <1>8. ASSUME NEW k \in Nat, k \in H PROVE k + 1 \in H
    <2>0. k + 1 \in Nat OBVIOUS
    <2>. SUFFICES ASSUME k + 1 \in 0..n PROVE P(k + 1)
      BY <2>0, Zenon
    <2>1. k \in 0..n /\ k \in 0..(n - 1) /\ k + 1 \in 1..n BY <1>1
    <2>2. P(k) BY <1>8, <2>1, Zenon
    <2>3. PICK s, e : s = t[k] /\ e = T[k + 1] OBVIOUS
    <2>4. t[k + 1] = retain(w, s, e) BY <1>5, <2>1, <2>3, Zenon
    <2>5. e \in Timer(O) /\ e.left \in Nat BY <1>6, <2>1, <2>3, Zenon
    <2>6. /\ s \in Seq(S) /\ Sorted(s) /\ Unique(s)
          /\ \A i \in DOMAIN s : \E j \in 1..k : s[i] = T[j]
          /\ \A j \in 1..k : T[j].id.window # w => scheduled(s, T[j].id)
      BY <2>2, <2>3, Zenon DEF TimersOK, S
    <2>7. \A j \in 1..k : j \in 1..n /\ j < k + 1 /\ j # k + 1 BY <1>1, <2>1
    <2>8. \A j \in 1..(k + 1) : j \in 1..k \/ j = k + 1 OBVIOUS
    <2>9. \A j \in 1..k : j \in 1..(k + 1) OBVIOUS
    <2>10. CASE e.id.window = w
      <3>1. t[k + 1] = s BY <2>4, <2>10 DEF retain
      <3>. QED BY <2>3, <2>6, <2>8, <2>9, <2>10, <3>1, Zenon DEF TimersOK, S
    <2>11. CASE e.id.window # w
      <3>1. t[k + 1] = Append(s, e) BY <2>4, <2>11 DEF retain
      <3>2. e \in S BY <2>5, <2>11 DEF S, Timer, Ids
      <3>3. PICK r : r = Append(s, e) OBVIOUS
      <3>4. PICK m \in Nat : m = Len(s) BY <2>6, LenProperties
      <3>5. /\ r \in Seq(S) /\ Len(r) = m + 1 /\ r[m + 1] = e /\ \A i \in 1..m : r[i] = s[i]
            /\ DOMAIN s = 1..m /\ DOMAIN r = 1..(m + 1)
        BY <2>6, <3>2, <3>3, <3>4, AppendProperties, LenProperties
      <3>6. \A i \in 1..m : s[i].left <= e.left
        <4>. SUFFICES ASSUME NEW i \in 1..m PROVE s[i].left <= e.left
          OBVIOUS
        <4>1. PICK j \in 1..k : s[i] = T[j] BY <2>6, <3>5
        <4>2. j \in 1..n /\ j < k + 1 BY <2>7
        <4>3. T[j].left <= T[k + 1].left BY <1>0, <1>1, <2>1, <4>2, Zenon DEF Sorted
        <4>. QED BY <2>3, <4>1, <4>3
      <3>7. \A i \in 1..m : s[i].id # e.id \/ e.id.topic = "Frame"
        <4>. SUFFICES ASSUME NEW i \in 1..m, s[i].id = e.id, e.id.topic # "Frame" PROVE FALSE
          OBVIOUS
        <4>1. PICK j \in 1..k : s[i] = T[j] BY <2>6, <3>5
        <4>2. j \in 1..n /\ j # k + 1 BY <2>7
        <4>. QED BY <1>0, <1>1, <2>1, <2>3, <4>1, <4>2, Zenon DEF Unique
      <3>8. \A i \in 1..(m + 1) : (i \in 1..m /\ r[i] = s[i]) \/ (i = m + 1 /\ r[i] = e)
        BY <3>5
      <3>9. Sorted(r)
        <4>. SUFFICES ASSUME NEW i \in 1..(m + 1), NEW j \in 1..(m + 1), i < j
                      PROVE  r[i].left <= r[j].left
          BY <3>5 DEF Sorted
        <4>1. i \in 1..m /\ r[i] = s[i] BY <3>8
        <4>2. CASE j \in 1..m
          <5>1. r[j] = s[j] BY <3>5, <4>2
          <5>. QED BY <2>6, <3>5, <4>1, <4>2, <5>1, Zenon DEF Sorted
        <4>3. CASE j = m + 1 BY <3>5, <3>6, <4>1, <4>3
        <4>. QED BY <4>2, <4>3
      <3>10. Unique(r)
        <4>. SUFFICES ASSUME NEW i \in 1..(m + 1), NEW j \in 1..(m + 1),
                             r[i].id = r[j].id, r[i].id.topic # "Frame"
                      PROVE  i = j
          BY <3>5 DEF Unique
        <4>. QED BY <2>6, <3>5, <3>7, <3>8, ZenonT(60) DEF Unique
      <3>11. m + 1 \in 1..(m + 1) /\ \A i \in 1..m : i \in 1..(m + 1) OBVIOUS
      <3>12. \A i : scheduled(s, i) => scheduled(r, i)
        BY <3>5, <3>11, Zenon DEF scheduled
      <3>13. scheduled(r, e.id) BY <3>5, <3>11, Zenon DEF scheduled
      <3>14. k + 1 \in 1..(k + 1) OBVIOUS
      <3>15. \A i \in DOMAIN r : \E j \in 1..(k + 1) : r[i] = T[j]
        BY <2>3, <2>6, <2>9, <3>5, <3>8, <3>14, Zenon
      <3>16. \A j \in 1..(k + 1) : T[j].id.window # w => scheduled(r, T[j].id)
        BY <2>3, <2>6, <2>8, <3>12, <3>13, Zenon
      <3>. QED BY <3>1, <3>3, <3>5, <3>9, <3>10, <3>15, <3>16, Zenon DEF TimersOK, S
    <2>. QED BY <2>10, <2>11
  <1>9. P(n)
    <2>1. n \in H
      <3>. HIDE DEF H
      <3>. QED BY <1>1, <1>7, <1>8, NatSetInduction
    <2>2. n \in 0..n BY <1>1
    <2>. QED BY <2>1, <2>2, Zenon
  <1>10. ASSUME NEW i, i.window # w, scheduled(T, i) PROVE scheduled(x, i)
    <2>1. PICK j \in 1..n : T[j].id = i BY <1>1, <1>10, Zenon DEF scheduled
    <2>. QED BY <1>5, <1>9, <1>10, <2>1, Zenon
  <1>. QED BY <1>3, <1>5, <1>9, <1>10, Zenon

(* Scheduler::update takes no more timers than there are. *)
LEMMA DueBound ==
    ASSUME NEW O, NEW T \in Seq(Timer(O))
    PROVE  due(T) \in 0..Len(T)
  <1>. DEFINE pending == {k \in DOMAIN T : T[k].left > 0}
  <1>1. DOMAIN T = 1..Len(T) /\ Len(T) \in Nat BY LenProperties
  <1>2. CASE pending = {}
    <2>1. due(T) = Len(T) BY <1>2, Zenon DEF due
    <2>. QED BY <1>1, <2>1
  <1>3. CASE pending # {}
    <2>1. PICK p : p = Min(pending) OBVIOUS
    <2>2. p \in pending
      <3>1. pending \in SUBSET Nat BY <1>1
      <3>. HIDE DEF pending
      <3>. QED BY <1>3, <2>1, <3>1, LeastNat
    <2>3. due(T) = p - 1 BY <1>3, <2>1, Zenon DEF due
    <2>4. p \in 1..Len(T) BY <1>1, <2>2
    <2>. QED BY <1>1, <2>3, <2>4
  <1>. QED BY <1>2, <1>3

(* Scheduler::update keeps the queue ordered and its ids unique although it schedules
   the repeating timers again, and a Frame timer that leaves the queue has sent its
   event. *)
LEMMA UpdateKeeps ==
    ASSUME NEW O, NEW T, TimersOK(T, O)
    PROVE  /\ TimersOK(update(T).timers, O)
           /\ update(T).events \in Seq(UserEvent)
           /\ \A w : scheduled(T, TimerId("Frame", w)) =>
                 \/ scheduled(update(T).timers, TimerId("Frame", w))
                 \/ \E k \in DOMAIN update(T).events : update(T).events[k] = Event("Frame", w)
  <1>. DEFINE S == Timer(O)
  <1>0. T \in Seq(S) /\ Sorted(T) /\ Unique(T) BY DEF TimersOK
  <1>1. DOMAIN T = 1..Len(T) /\ Len(T) \in Nat BY <1>0, LenProperties
  <1>2. PICK d \in 0..Len(T) : d = due(T) BY <1>0, DueBound
  <1>3. PICK f, r : f = SubSeq(T, 1, d) /\ r = SubSeq(T, d + 1, Len(T)) OBVIOUS
  <1>4. d \in Nat /\ d <= Len(T) BY <1>1, <1>2
  <1>. HIDE DEF S
  <1>5. f \in Seq(S) /\ Len(f) = d /\ \A k \in 1..d : f[k] = T[k]
    BY <1>0, <1>1, <1>3, <1>4
  <1>6. r \in Seq(S) /\ Len(r) = Len(T) - d /\ \A k \in 1..(Len(T) - d) : r[k] = T[d + k]
    <2>1. r \in Seq(S) /\ Len(r) = Len(T) - d
      <3>0. d + 1 \in Int /\ Len(T) \in Int BY <1>1, <1>4
      <3>1. PICK m \in Int, n \in Int : m = d + 1 /\ n = Len(T) BY <3>0, Zenon
      <3>2. \A i \in m..n : T[i] \in S BY <1>0, <1>1, <1>4, <3>1, ElementOfSeq
      <3>3. /\ SubSeq(T, m, n) \in Seq(S)
            /\ Len(SubSeq(T, m, n)) = IF m <= n THEN n - m + 1 ELSE 0
        BY ONLY m \in Int, n \in Int, <3>2, SubSeqProperties
      <3>4. (IF m <= n THEN n - m + 1 ELSE 0) = n - d
        <4>1. m = d + 1 /\ d <= n /\ d \in Nat BY <1>4, <3>1
        <4>. QED BY ONLY <4>1, n \in Int
      <3>. QED BY <1>3, <3>1, <3>3, <3>4, Zenon
    <2>2. ASSUME NEW k \in 1..(Len(T) - d) PROVE r[k] = T[d + k]
      <3>1. r[k] = T[d + 1 + k - 1] BY <1>0, <1>1, <1>3, <1>4
      <3>2. d + 1 + k - 1 = d + k BY <1>4
      <3>. QED BY <3>1, <3>2
    <2>. QED BY <2>1, <2>2
  <1>7. DOMAIN f = 1..d /\ DOMAIN r = 1..(Len(T) - d) BY <1>5, <1>6, LenProperties
  <1>8. TimersOK(r, O)
    <2>1. ASSUME NEW i \in 1..(Len(T) - d), NEW j \in 1..(Len(T) - d), i < j
          PROVE  r[i].left <= r[j].left
      <3>1. d + i \in 1..Len(T) /\ d + j \in 1..Len(T) /\ d + i < d + j BY <1>1, <1>4, <2>1
      <3>2. T[d + i].left <= T[d + j].left BY <1>0, <1>1, <3>1, Zenon DEF Sorted
      <3>. QED BY <1>6, <3>2
    <2>2. ASSUME NEW i \in 1..(Len(T) - d), NEW j \in 1..(Len(T) - d),
                 r[i].id = r[j].id, r[i].id.topic # "Frame"
          PROVE  i = j
      <3>1. d + i \in 1..Len(T) /\ d + j \in 1..Len(T) BY <1>1, <1>4
      <3>2. r[i] = T[d + i] /\ r[j] = T[d + j] BY <1>6
      <3>3. d + i = d + j BY <1>0, <1>1, <2>2, <3>1, <3>2, Zenon DEF Unique
      <3>. QED BY <1>4, <3>3
    <2>. QED BY <1>6, <1>7, <2>1, <2>2, Zenon DEF TimersOK, Sorted, Unique, S
  <1>9. PICK x : x = U!Fold(0, r, f) OBVIOUS
  <1>10. update(T).timers = x /\ update(T).events = [k \in DOMAIN f |-> f[k].event]
    <2>1. U!Fold(0, r, f) = FoldLeft(reschedule, r, f)
      BY Zenon DEF reschedule_step, U!Fold, FoldLeft, MapThenFoldSet, Max,
                   U!FoldLeft, U!MapThenFoldSet, U!Max
    <2>2. update(T) = [timers |-> FoldLeft(reschedule, r, f),
                       events |-> [k \in DOMAIN f |-> f[k].event]]
      BY <1>2, <1>3, Zenon DEF update
    <2>3. PICK y : y = FoldLeft(reschedule, r, f) OBVIOUS
    <2>4. PICK z : z = [k \in DOMAIN f |-> f[k].event] OBVIOUS
    <2>5. update(T) = [timers |-> y, events |-> z] BY <2>2, <2>3, <2>4, Zenon
    <2>6. update(T).timers = y /\ update(T).events = z BY <2>5
    <2>. QED BY <1>9, <2>1, <2>3, <2>4, <2>6, Zenon
  <1>11. PICK t : U!Steps(0, r, f, d, t, x)
    BY <1>4, <1>7, <1>9, U!FoldTrace, Zenon
  <1>12. /\ t[0] = r /\ t[d] = x
         /\ \A k \in 0..(d - 1) : t[k + 1] = reschedule(t[k], f[k + 1])
    BY <1>11, Zenon DEF U!Steps, reschedule_step
  <1>13. ASSUME NEW k \in 1..d
         PROVE  /\ f[k].interval \in Nat /\ f[k].id \in Ids(O) /\ f[k].event \in UserEvent
                /\ f[k].id.topic = "Frame" => f[k].event = Event("Frame", f[k].id.window)
    <2>1. k \in DOMAIN f BY <1>7
    <2>. QED BY <1>5, <2>1, TimerFields, Zenon DEF S
  <1>14. \A i, j \in 1..d : f[i].id = f[j].id /\ f[i].id.topic # "Frame" => i = j
    <2>1. \A k \in 1..d : k \in 1..Len(T) BY <1>1, <1>4
    <2>. QED BY <1>0, <1>1, <1>5, <2>1, ZenonT(60) DEF Unique
  <1>15. \A i \in 1..d : f[i].id.topic # "Frame" => ~scheduled(r, f[i].id)
    <2>. SUFFICES ASSUME NEW i \in 1..d, f[i].id.topic # "Frame", scheduled(r, f[i].id)
                  PROVE  FALSE
      OBVIOUS
    <2>1. PICK j \in 1..(Len(T) - d) : r[j].id = f[i].id BY <1>7, Zenon DEF scheduled
    <2>2. i \in 1..Len(T) /\ d + j \in 1..Len(T) /\ i # d + j BY <1>1, <1>4
    <2>3. T[i].id = T[d + j].id /\ T[i].id.topic # "Frame" BY <1>5, <1>6, <2>1
    <2>. QED BY <1>0, <1>1, <2>2, <2>3, Zenon DEF Unique
  <1>. DEFINE P(k) == /\ TimersOK(t[k], O)
                      /\ \A i : scheduled(r, i) => scheduled(t[k], i)
                      /\ \A j \in (k + 1)..d :
                            f[j].id.topic # "Frame" => ~scheduled(t[k], f[j].id)
              H == {k \in Nat : k \in 0..d => P(k)}
  <1>16. 0 \in H
    <2>1. \A j \in (0 + 1)..d : j \in 1..d BY <1>4
    <2>. QED BY <1>8, <1>12, <1>15, <2>1, Zenon
  <1>17. ASSUME NEW k \in Nat, k \in H PROVE k + 1 \in H
    <2>0. k + 1 \in Nat OBVIOUS
    <2>. SUFFICES ASSUME k + 1 \in 0..d PROVE P(k + 1)
      BY <2>0, Zenon
    <2>1. k \in 0..d /\ k \in 0..(d - 1) /\ k + 1 \in 1..d /\ k + 1 \in (k + 1)..d BY <1>4
    <2>2. P(k) BY <1>17, <2>1, Zenon
    <2>3. PICK s, e : s = t[k] /\ e = f[k + 1] OBVIOUS
    <2>4. t[k + 1] = reschedule(s, e) BY <1>12, <2>1, <2>3, Zenon
    <2>5. \A j \in (k + 1 + 1)..d : j \in 1..d /\ j \in (k + 1)..d /\ j # k + 1 BY <1>4
    <2>6. /\ TimersOK(s, O)
          /\ \A i : scheduled(r, i) => scheduled(s, i)
          /\ \A j \in (k + 1)..d : f[j].id.topic # "Frame" => ~scheduled(s, f[j].id)
      BY <2>2, <2>3, Zenon
    <2>7. CASE e.interval = 0
      <3>1. t[k + 1] = s BY <2>4, <2>7 DEF reschedule
      <3>. QED BY <2>5, <2>6, <3>1, Zenon
    <2>8. CASE e.interval # 0
      <3>1. /\ e.interval \in Nat /\ e.id \in Ids(O) /\ e.event \in UserEvent
            /\ e.id.topic = "Frame" => e.event = Event("Frame", e.id.window)
            /\ e.id.topic = "Frame" \/ ~scheduled(s, e.id)
        BY <1>13, <2>1, <2>3, <2>6, Zenon
      <3>2. PICK q : q = schedule(s, e.event, e.interval, TRUE, e.id) OBVIOUS
      <3>3. t[k + 1] = q BY <2>4, <2>8, <3>2 DEF reschedule
      <3>4. PICK ev \in UserEvent, iv \in Nat, id \in Ids(O) :
               ev = e.event /\ iv = e.interval /\ id = e.id
        BY <3>1, Zenon
      <3>5. /\ TimersOK(schedule(s, ev, iv, TRUE, id), O)
            /\ \A i : scheduled(schedule(s, ev, iv, TRUE, id), i) <=> scheduled(s, i) \/ i = id
        <4>1. /\ id.topic = "Frame" => ev = Event("Frame", id.window)
              /\ id.topic = "Frame" \/ ~scheduled(s, id)
          BY <3>1, <3>4, Zenon
        <4>2. TRUE \in BOOLEAN /\ TimersOK(s, O) BY <2>6
        <4>. QED BY ONLY ZenonT(60), <4>1, <4>2, ev \in UserEvent, iv \in Nat, id \in Ids(O), ScheduleKeeps
      <3>6. TimersOK(q, O) /\ \A i : scheduled(q, i) <=> scheduled(s, i) \/ i = e.id
        BY <3>2, <3>4, <3>5, Zenon
      <3>7. ASSUME NEW j \in (k + 1 + 1)..d, f[j].id.topic # "Frame"
            PROVE  ~scheduled(q, f[j].id)
        <4>1. f[j].id # e.id BY <1>14, <2>1, <2>3, <2>5, <3>7, Zenon
        <4>2. ~scheduled(s, f[j].id) BY <2>5, <2>6, <3>7, Zenon
        <4>. QED BY <3>6, <4>1, <4>2, Zenon
      <3>. QED BY <2>6, <3>3, <3>6, <3>7, Zenon
    <2>. QED BY <2>7, <2>8
  <1>18. P(d)
    <2>1. d \in H
      <3>. HIDE DEF H
      <3>. QED BY <1>4, <1>16, <1>17, NatSetInduction
    <2>2. d \in 0..d BY <1>4
    <2>. QED BY <2>1, <2>2, Zenon
  <1>19. PICK v : v = [k \in DOMAIN f |-> f[k].event] OBVIOUS
  <1>20. DOMAIN v = 1..d /\ \A k \in 1..d : v[k] = f[k].event
    BY <1>7, <1>19, Zenon
  <1>21. v \in Seq(UserEvent)
    <2>1. v \in [1..d -> UserEvent] BY <1>7, <1>13, <1>19, Zenon
    <2>. QED BY <1>4, <2>1, IsASeq
  <1>22. ASSUME NEW w, scheduled(T, TimerId("Frame", w))
         PROVE  \/ scheduled(x, TimerId("Frame", w))
                \/ \E k \in DOMAIN v : v[k] = Event("Frame", w)
    <2>1. PICK j \in 1..Len(T) : T[j].id = TimerId("Frame", w)
      BY <1>1, <1>22, Zenon DEF scheduled
    <2>2. T[j].id.topic = "Frame" /\ T[j].id.window = w BY <2>1 DEF TimerId
    <2>3. CASE j \in 1..d
      <3>1. f[j] = T[j] BY <1>5, <2>3
      <3>2. v[j] = Event("Frame", w) BY <1>13, <1>20, <2>2, <2>3, <3>1
      <3>. QED BY <1>20, <2>3, <3>2, Zenon
    <2>4. CASE j \notin 1..d
      <3>1. PICK i \in 1..(Len(T) - d) : j = d + i
        <4>1. j - d \in 1..(Len(T) - d) /\ j = d + (j - d) BY <1>1, <1>4, <2>4
        <4>. QED BY <4>1
      <3>2. r[i].id = TimerId("Frame", w) BY <1>6, <2>1, <3>1
      <3>3. scheduled(r, TimerId("Frame", w)) BY <1>7, <3>2, Zenon DEF scheduled
      <3>. QED BY <1>12, <1>18, <3>3, Zenon
    <2>. QED BY <2>3, <2>4
  <1>23. update(T).timers = x /\ update(T).events = v BY <1>10, <1>19, Zenon
  <1>24. TimersOK(x, O) BY <1>12, <1>18, Zenon
  <1>. QED BY <1>21, <1>22, <1>23, <1>24, Zenon

-----------------------------------------------------------------------------
(* The handlers and the event loop *)

H == INSTANCE FoldLaws WITH op <- handle_one

(* The events of the desktop. *)
OsEvent ==
    [type : {"Resized"}, window : Windows, size : Sizes]
      \cup [type : {"Focused", "Occluded"}, window : Windows, on : BOOLEAN]
      \cup [type : {"Key", "CloseRequested"}, window : Windows]
(* The events in the queue of a window: those of the desktop, and the user events that
   Processor does not act on at once. *)
StagedEvent ==
    OsEvent \cup {e \in UserEvent : e.type \in {"Resize", "Bell", "BlinkCursor",
                                               "BlinkCursorTimeout", "CursorBlinkingChange"}}
(* The type of the state of a window. *)
WindowState ==
    [wayland : BOOLEAN, event_queue : Seq(StagedEvent), dirty : BOOLEAN, occluded : BOOLEAN,
     hold : BOOLEAN, has_frame : BOOLEAN, requested_redraw : BOOLEAN,
     pending : Nat, size : Nat, pty_size : Nat,
     focused : BOOLEAN, cursor_hidden : BOOLEAN, blink_timed_out : BOOLEAN,
     bell : Nat, frame_known : BOOLEAN, frame_synced : Int]

(* A cursor that has stopped blinking is shown. *)
CursorOK(x) == x.blink_timed_out => ~x.cursor_hidden
(* What a handler receives and leaves, with O the windows that are open. *)
ContextOK(c, O) ==
    /\ c = [win |-> c.win, timers |-> c.timers, sent |-> c.sent, redraw |-> c.redraw]
    /\ c.win \in WindowState /\ CursorOK(c.win)
    /\ TimersOK(c.timers, O)
    /\ c.sent \in Seq(UserEvent) /\ c.redraw \in BOOLEAN

(* No Frame timer of T is missing in S. *)
FramesKept(T, S) ==
    \A v : scheduled(T, TimerId("Frame", v)) => scheduled(S, TimerId("Frame", v))
(* What every handler of input::Processor keeps, between context c and context d: it
   neither asks for a redraw or a frame nor forgets that one was asked for. *)
Handled(c, d, O) ==
    /\ ContextOK(d, O)
    /\ d.redraw = c.redraw
    /\ d.win.has_frame = c.win.has_frame
    /\ d.win.requested_redraw = c.win.requested_redraw
    /\ FramesKept(c.timers, d.timers)

(* Two handlers in a row are a handler. *)
LEMMA HandledTrans ==
    ASSUME NEW O, NEW a, NEW b, NEW c, Handled(a, b, O), Handled(b, c, O)
    PROVE  Handled(a, c, O)
  BY Zenon DEF Handled, FramesKept

(* So is doing nothing. *)
LEMMA HandledSelf ==
    ASSUME NEW O, NEW c, ContextOK(c, O)
    PROVE  Handled(c, c, O)
  BY Zenon DEF Handled, FramesKept

(* A context put together from a new window state, new timers and new events. *)
LEMMA HandledParts ==
    ASSUME NEW O, NEW c, ContextOK(c, O), NEW d, NEW x \in WindowState, NEW T,
           NEW q \in Seq(UserEvent),
           d = [win |-> x, timers |-> T, sent |-> q, redraw |-> c.redraw],
           CursorOK(x), TimersOK(T, O), FramesKept(c.timers, T),
           x.has_frame = c.win.has_frame, x.requested_redraw = c.win.requested_redraw
    PROVE  Handled(c, d, O)
  <1>1. d.win = x /\ d.timers = T /\ d.sent = q /\ d.redraw = c.redraw
    OBVIOUS
  <1>. QED BY <1>1, Zenon DEF Handled, ContextOK

(* A blink, timeout or debounce timer that is not scheduled yet may be scheduled for an
   open window. *)
LEMMA ScheduleOne ==
    ASSUME NEW O \in SUBSET Windows, NEW w \in O, NEW T, TimersOK(T, O), NEW i \in Nat, NEW r \in BOOLEAN,
           NEW topic \in {"BlinkCursor", "BlinkTimeout", "ResizeDebounce"}, NEW e \in UserEvent,
           ~scheduled(T, TimerId(topic, w))
    PROVE  LET S == schedule(T, e, i, r, TimerId(topic, w))
           IN  /\ TimersOK(S, O) /\ FramesKept(T, S)
               /\ \A t : scheduled(S, TimerId(t, w)) => t = topic \/ scheduled(T, TimerId(t, w))
  <1>1. PICK id \in Ids(O) : id = TimerId(topic, w) BY DEF Ids, Topic, TimerId
  <1>3. id.topic # "Frame" BY <1>1 DEF TimerId
  <1>4. PICK S : S = schedule(T, e, i, r, id) OBVIOUS
  <1>5. TimersOK(S, O) /\ \A j : scheduled(S, j) <=> scheduled(T, j) \/ j = id
    BY <1>1, <1>3, <1>4, ScheduleKeeps
  <1>6. \A t : TimerId(t, w) = id => t = topic BY <1>1 DEF TimerId
  <1>. QED BY <1>1, <1>4, <1>5, <1>6, Zenon DEF FramesKept

(* Such a timer unscheduled is scheduled no more, and no Frame timer is lost. *)
LEMMA UnscheduleOne ==
    ASSUME NEW O, NEW w, NEW T, TimersOK(T, O),
           NEW topic \in {"BlinkCursor", "BlinkTimeout", "ResizeDebounce"}
    PROVE  LET S == unschedule(T, TimerId(topic, w))
           IN  /\ TimersOK(S, O) /\ FramesKept(T, S) /\ ~scheduled(S, TimerId(topic, w))
               /\ \A i : scheduled(S, i) => scheduled(T, i)
  <1>1. PICK id : id = TimerId(topic, w) OBVIOUS
  <1>2. id.topic # "Frame" /\ \A v : TimerId("Frame", v) # id BY <1>1 DEF TimerId
  <1>3. PICK S : S = unschedule(T, id) OBVIOUS
  <1>4. /\ TimersOK(S, O) /\ \A i : i # id => (scheduled(S, i) <=> scheduled(T, i))
        /\ ~scheduled(S, id) /\ \A i : scheduled(S, i) => scheduled(T, i)
    BY <1>2, <1>3, UnscheduleKeeps
  <1>. QED BY <1>1, <1>2, <1>3, <1>4, Zenon DEF FramesKept

(* A handler that changes the timers only. *)
LEMMA TimersChanged ==
    ASSUME NEW O, NEW c, ContextOK(c, O), NEW T, TimersOK(T, O), FramesKept(c.timers, T),
           NEW d, d = [c EXCEPT !.timers = T]
    PROVE  Handled(c, d, O) /\ d.timers = T /\ d.win = c.win
  <1>1. /\ c = [win |-> c.win, timers |-> c.timers, sent |-> c.sent, redraw |-> c.redraw]
        /\ c.win \in WindowState /\ CursorOK(c.win) /\ c.sent \in Seq(UserEvent)
    BY DEF ContextOK
  <1>2. d = [win |-> c.win, timers |-> T, sent |-> c.sent, redraw |-> c.redraw]
    BY <1>1
  <1>3. d.timers = T /\ d.win = c.win BY <1>2
  <1>4. Handled(c, d, O) BY <1>1, <1>2, HandledParts, Zenon
  <1>. QED BY <1>3, <1>4

(* A handler that changes the state of its window only. *)
LEMMA WinChanged ==
    ASSUME NEW O, NEW c, ContextOK(c, O), NEW x \in WindowState, CursorOK(x),
           x.has_frame = c.win.has_frame, x.requested_redraw = c.win.requested_redraw,
           NEW d, d = [c EXCEPT !.win = x]
    PROVE  Handled(c, d, O) /\ d.timers = c.timers /\ d.win = x
  <1>1. /\ c = [win |-> c.win, timers |-> c.timers, sent |-> c.sent, redraw |-> c.redraw]
        /\ TimersOK(c.timers, O) /\ FramesKept(c.timers, c.timers) /\ c.sent \in Seq(UserEvent)
    BY Zenon DEF ContextOK, FramesKept
  <1>2. d = [win |-> x, timers |-> c.timers, sent |-> c.sent, redraw |-> c.redraw]
    BY <1>1
  <1>3. d.timers = c.timers /\ d.win = x BY <1>2
  <1>4. Handled(c, d, O) BY <1>1, <1>2, HandledParts, Zenon
  <1>. QED BY <1>3, <1>4

(* schedule_blinking, once the blink timer has been unscheduled. *)
LEMMA BlinkingScheduled ==
    ASSUME NEW O \in SUBSET Windows, NEW w \in O, NEW c, ContextOK(c, O),
           ~scheduled(c.timers, TimerId("BlinkCursor", w))
    PROVE  LET d == schedule_blinking(w, c)
           IN  /\ Handled(c, d, O) /\ d.win = c.win
               /\ scheduled(d.timers, TimerId("BlinkTimeout", w))
                     => scheduled(c.timers, TimerId("BlinkTimeout", w))
  <1>1. PICK e \in UserEvent : e = Event("BlinkCursor", w) BY DEF UserEvent, Event
  <1>2. BlinkInterval \in Nat BY WindowAssumption
  <1>3. PICK T : T = schedule(c.timers, e, BlinkInterval, TRUE, TimerId("BlinkCursor", w)) OBVIOUS
  <1>4. TimersOK(c.timers, O) BY DEF ContextOK
  <1>5. /\ TimersOK(T, O) /\ FramesKept(c.timers, T)
        /\ \A t : scheduled(T, TimerId(t, w)) => t = "BlinkCursor" \/ scheduled(c.timers, TimerId(t, w))
    BY <1>2, <1>3, <1>4, ScheduleOne
  <1>6. scheduled(T, TimerId("BlinkTimeout", w)) => scheduled(c.timers, TimerId("BlinkTimeout", w))
    BY <1>5
  <1>7. PICK d : d = schedule_blinking(w, c) OBVIOUS
  <1>8. d = [c EXCEPT !.timers = T]
    BY <1>1, <1>3, <1>7, Zenon DEF schedule_blinking
  <1>9. Handled(c, d, O) /\ d.timers = T /\ d.win = c.win BY <1>5, <1>8, TimersChanged
  <1>. QED BY <1>6, <1>7, <1>9, Zenon

(* schedule_blinking_timeout, once the timeout timer has been unscheduled. *)
LEMMA TimeoutScheduled ==
    ASSUME NEW O \in SUBSET Windows, NEW w \in O, NEW c, ContextOK(c, O),
           ~scheduled(c.timers, TimerId("BlinkTimeout", w))
    PROVE  Handled(c, schedule_blinking_timeout(w, c), O)
  <1>1. PICK e \in UserEvent : e = Event("BlinkCursorTimeout", w) BY DEF UserEvent, Event
  <1>2. BlinkTimeout \in Nat BY WindowAssumption
  <1>3. PICK T : T = schedule(c.timers, e, BlinkTimeout, FALSE, TimerId("BlinkTimeout", w)) OBVIOUS
  <1>4. TimersOK(c.timers, O) BY DEF ContextOK
  <1>5. TimersOK(T, O) /\ FramesKept(c.timers, T)
    BY <1>2, <1>3, <1>4, ScheduleOne
  <1>7. PICK d : d = schedule_blinking_timeout(w, c) OBVIOUS
  <1>8. d = [c EXCEPT !.timers = T]
    BY <1>1, <1>3, <1>7, Zenon DEF schedule_blinking_timeout
  <1>. QED BY <1>5, <1>7, <1>8, TimersChanged, Zenon

(* update_cursor_blinking unschedules both timers, and either schedules both again or
   shows the cursor. *)
LEMMA BlinkingUpdated ==
    ASSUME NEW O \in SUBSET Windows, NEW w \in O, NEW c, ContextOK(c, O)
    PROVE  Handled(c, update_cursor_blinking(w, c), O)
  <1>0. /\ c = [win |-> c.win, timers |-> c.timers, sent |-> c.sent, redraw |-> c.redraw]
        /\ c.win \in WindowState /\ CursorOK(c.win) /\ TimersOK(c.timers, O) /\ c.sent \in Seq(UserEvent)
    BY DEF ContextOK
  <1>1. PICK S : S = unschedule(c.timers, TimerId("BlinkCursor", w)) OBVIOUS
  <1>2. /\ TimersOK(S, O) /\ FramesKept(c.timers, S) /\ ~scheduled(S, TimerId("BlinkCursor", w))
    BY <1>0, <1>1, UnscheduleOne
  <1>3. PICK T : T = unschedule(S, TimerId("BlinkTimeout", w)) OBVIOUS
  <1>4. /\ TimersOK(T, O) /\ FramesKept(S, T) /\ ~scheduled(T, TimerId("BlinkTimeout", w))
        /\ ~scheduled(T, TimerId("BlinkCursor", w))
    BY <1>2, <1>3, UnscheduleOne
  <1>5. FramesKept(c.timers, T) BY <1>2, <1>4 DEF FramesKept
  <1>6. PICK u : u = [c EXCEPT !.timers = T] OBVIOUS
  <1>7. Handled(c, u, O) /\ u.timers = T /\ u.win = c.win BY <1>4, <1>5, <1>6, TimersChanged
  <1>8. PICK y : y = [u.win EXCEPT !.blink_timed_out = FALSE] OBVIOUS
  <1>9. /\ y \in WindowState /\ CursorOK(y) /\ y.has_frame = u.win.has_frame
        /\ y.requested_redraw = u.win.requested_redraw
    BY <1>0, <1>7, <1>8 DEF WindowState, CursorOK
  <1>10. PICK t : t = [u EXCEPT !.win = y] OBVIOUS
  <1>11. ContextOK(u, O) BY <1>7 DEF Handled
  <1>12. Handled(u, t, O) /\ t.timers = T /\ t.win = y BY <1>7, <1>9, <1>10, <1>11, WinChanged
  <1>13. Handled(c, t, O) /\ ContextOK(t, O) BY <1>7, <1>12, HandledTrans, Zenon DEF Handled
  <1>14. t = [c EXCEPT !.timers = T, !.win.blink_timed_out = FALSE]
    BY <1>6, <1>8, <1>10, Zenon
  <1>15. CASE blinking[w] /\ c.win.focused
    <2>1. PICK d : d = schedule_blinking(w, t) OBVIOUS
    <2>2. Handled(t, d, O) /\ ~scheduled(d.timers, TimerId("BlinkTimeout", w))
      BY <1>4, <1>12, <1>13, <2>1, BlinkingScheduled
    <2>3. Handled(d, schedule_blinking_timeout(w, d), O)
      BY <2>2, TimeoutScheduled DEF Handled
    <2>4. update_cursor_blinking(w, c) = schedule_blinking_timeout(w, d)
      BY <1>1, <1>3, <1>14, <1>15, <2>1, Zenon DEF update_cursor_blinking
    <2>. QED BY <1>13, <2>2, <2>3, <2>4, HandledTrans, Zenon
  <1>16. CASE ~(blinking[w] /\ c.win.focused)
    <2>1. PICK z : z = [t.win EXCEPT !.cursor_hidden = FALSE, !.dirty = TRUE] OBVIOUS
    <2>2. /\ z \in WindowState /\ CursorOK(z) /\ z.has_frame = t.win.has_frame
          /\ z.requested_redraw = t.win.requested_redraw
      BY <1>9, <1>12, <2>1 DEF WindowState, CursorOK
    <2>3. PICK d : d = [t EXCEPT !.win = z] OBVIOUS
    <2>4. d = [t EXCEPT !.win.cursor_hidden = FALSE, !.win.dirty = TRUE]
      BY <2>1, <2>3, Zenon
    <2>5. Handled(t, d, O) BY <1>13, <2>2, <2>3, WinChanged, Zenon
    <2>6. update_cursor_blinking(w, c) = d
      BY <1>1, <1>3, <1>14, <1>16, <2>4, Zenon DEF update_cursor_blinking
    <2>. QED BY <1>13, <2>5, <2>6, HandledTrans, Zenon
  <1>. QED BY <1>15, <1>16

(* on_typing_start: the blink timer starts anew, or blinking starts again after the
   timeout. *)
LEMMA TypingHandled ==
    ASSUME NEW O \in SUBSET Windows, NEW w \in O, NEW c, ContextOK(c, O)
    PROVE  Handled(c, on_typing_start(w, c), O)
  <1>0. c.win \in WindowState /\ CursorOK(c.win) /\ TimersOK(c.timers, O) BY DEF ContextOK
  <1>1. CASE scheduled(c.timers, TimerId("BlinkCursor", w))
    <2>1. PICK T : T = unschedule(c.timers, TimerId("BlinkCursor", w)) OBVIOUS
    <2>2. /\ TimersOK(T, O) /\ FramesKept(c.timers, T) /\ ~scheduled(T, TimerId("BlinkCursor", w))
      BY <1>0, <2>1, UnscheduleOne
    <2>3. PICK u : u = [c EXCEPT !.timers = T] OBVIOUS
    <2>4. Handled(c, u, O) /\ u.timers = T /\ u.win = c.win BY <2>2, <2>3, TimersChanged
    <2>5. ContextOK(u, O) BY <2>4 DEF Handled
    <2>6. PICK t : t = schedule_blinking(w, u) OBVIOUS
    <2>7. Handled(u, t, O) /\ t.win = c.win BY <2>2, <2>4, <2>5, <2>6, BlinkingScheduled
    <2>8. ContextOK(t, O) /\ Handled(c, t, O) BY <2>4, <2>7, HandledTrans, Zenon DEF Handled
    <2>9. PICK b : b = (t.win.dirty \/ c.win.cursor_hidden) OBVIOUS
    <2>10. b \in BOOLEAN BY <2>9, Zenon
    <2>11. PICK z : z = [t.win EXCEPT !.cursor_hidden = FALSE, !.dirty = b] OBVIOUS
    <2>12. /\ z \in WindowState /\ CursorOK(z) /\ z.has_frame = t.win.has_frame
           /\ z.requested_redraw = t.win.requested_redraw
      BY <1>0, <2>7, <2>10, <2>11 DEF WindowState, CursorOK
    <2>13. PICK d : d = [t EXCEPT !.win = z] OBVIOUS
    <2>14. Handled(t, d, O) BY <2>8, <2>12, <2>13, WinChanged
    <2>15. d = [t EXCEPT !.win.cursor_hidden = FALSE, !.win.dirty = @ \/ c.win.cursor_hidden]
      <3>1. [t.win EXCEPT !.cursor_hidden = FALSE].dirty = t.win.dirty
        BY <1>0, <2>7 DEF WindowState
      <3>. QED BY <2>9, <2>11, <2>13, <3>1, Zenon
    <2>16. on_typing_start(w, c) = d BY <1>1, <2>1, <2>3, <2>6, <2>15, Zenon DEF on_typing_start
    <2>. QED BY <2>8, <2>14, <2>16, HandledTrans, Zenon
  <1>2. CASE ~scheduled(c.timers, TimerId("BlinkCursor", w)) /\ c.win.blink_timed_out
    BY <1>2, BlinkingUpdated, Zenon DEF on_typing_start
  <1>3. CASE ~scheduled(c.timers, TimerId("BlinkCursor", w)) /\ ~c.win.blink_timed_out
    BY <1>3, HandledSelf, Zenon DEF on_typing_start
  <1>. QED BY <1>1, <1>2, <1>3, Zenon

(* A resize restarts the debounce timer: the old one is unscheduled first. *)
LEMMA ResizedHandled ==
    ASSUME NEW O \in SUBSET Windows, NEW w \in O, NEW c, ContextOK(c, O), NEW size \in Sizes
    PROVE  Handled(c, Resized(w, c, size), O)
  <1>1. CASE size = 0 BY <1>1, HandledSelf, Zenon DEF Resized
  <1>2. CASE size # 0
    <2>0. TimersOK(c.timers, O) BY DEF ContextOK
    <2>1. PICK T : T = unschedule(c.timers, TimerId("ResizeDebounce", w)) OBVIOUS
    <2>2. /\ TimersOK(T, O) /\ FramesKept(c.timers, T) /\ ~scheduled(T, TimerId("ResizeDebounce", w))
      BY <2>0, <2>1, UnscheduleOne
    <2>3. PICK e \in UserEvent : e = [type |-> "Resize", window |-> w, size |-> size]
      BY DEF UserEvent
    <2>4. PICK S : S = schedule(T, e, ResizeDebounce, FALSE, TimerId("ResizeDebounce", w)) OBVIOUS
    <2>5. ResizeDebounce \in Nat BY WindowAssumption
    <2>6. TimersOK(S, O) /\ FramesKept(T, S) BY <2>2, <2>4, <2>5, ScheduleOne
    <2>7. FramesKept(c.timers, S) BY <2>2, <2>6 DEF FramesKept
    <2>8. PICK d : d = [c EXCEPT !.timers = S] OBVIOUS
    <2>9. Handled(c, d, O) BY <2>6, <2>7, <2>8, TimersChanged
    <2>10. Resized(w, c, size) = d BY <1>2, <2>1, <2>3, <2>4, <2>8, Zenon DEF Resized
    <2>. QED BY <2>9, <2>10
  <1>. QED BY <1>1, <1>2

(* A change of the focus updates the blinking. *)
LEMMA FocusedHandled ==
    ASSUME NEW O \in SUBSET Windows, NEW w \in O, NEW c, ContextOK(c, O), NEW on \in BOOLEAN
    PROVE  Handled(c, Focused(w, c, on), O)
  <1>0. c.win \in WindowState /\ CursorOK(c.win) BY DEF ContextOK
  <1>1. PICK b : b = (c.win.dirty \/ unfocused_hollow) OBVIOUS
  <1>2. b \in BOOLEAN BY <1>1, Zenon
  <1>3. PICK z : z = [c.win EXCEPT !.focused = on, !.dirty = b] OBVIOUS
  <1>4. /\ z \in WindowState /\ CursorOK(z) /\ z.has_frame = c.win.has_frame
        /\ z.requested_redraw = c.win.requested_redraw
    BY <1>0, <1>2, <1>3 DEF WindowState, CursorOK
  <1>5. PICK d : d = [c EXCEPT !.win = z] OBVIOUS
  <1>6. Handled(c, d, O) BY <1>4, <1>5, WinChanged
  <1>7. [c.win EXCEPT !.focused = on].dirty = c.win.dirty BY <1>0 DEF WindowState
  <1>8. d = [c EXCEPT !.win.focused = on, !.win.dirty = @ \/ unfocused_hollow]
    BY <1>1, <1>3, <1>5, <1>7, Zenon
  <1>9. Handled(d, update_cursor_blinking(w, d), O) BY <1>6, BlinkingUpdated DEF Handled
  <1>10. Focused(w, c, on) = update_cursor_blinking(w, d) BY <1>8, Zenon DEF Focused
  <1>. QED BY <1>6, <1>9, <1>10, HandledTrans, Zenon

(* A window asked to close sends Exit. *)
LEMMA CloseHandled ==
    ASSUME NEW O \in SUBSET Windows, NEW w \in O, NEW c, ContextOK(c, O)
    PROVE  Handled(c, CloseRequested(w, c), O)
  <1>0. /\ c = [win |-> c.win, timers |-> c.timers, sent |-> c.sent, redraw |-> c.redraw]
        /\ c.win \in WindowState /\ CursorOK(c.win) /\ TimersOK(c.timers, O)
        /\ FramesKept(c.timers, c.timers) /\ c.sent \in Seq(UserEvent)
    BY Zenon DEF ContextOK, FramesKept
  <1>1. PICK e \in UserEvent : e = Event("Exit", w) BY DEF UserEvent, Event
  <1>2. PICK q : q = Append(c.sent, e) OBVIOUS
  <1>3. q \in Seq(UserEvent) BY <1>0, <1>2, AppendProperties
  <1>4. PICK z : z = [c.win EXCEPT !.hold = FALSE] OBVIOUS
  <1>5. /\ z \in WindowState /\ CursorOK(z) /\ z.has_frame = c.win.has_frame
        /\ z.requested_redraw = c.win.requested_redraw
    BY <1>0, <1>4 DEF WindowState, CursorOK
  <1>6. PICK u : u = [c EXCEPT !.win = z] OBVIOUS
  <1>7. u = [win |-> z, timers |-> c.timers, sent |-> c.sent, redraw |-> c.redraw]
    BY <1>0, <1>6
  <1>8. PICK d : d = [u EXCEPT !.sent = q] OBVIOUS
  <1>9. d = [win |-> z, timers |-> c.timers, sent |-> q, redraw |-> c.redraw]
    BY <1>7, <1>8
  <1>10. u.sent = c.sent BY <1>7
  <1>11. CloseRequested(w, c) = d BY <1>1, <1>2, <1>4, <1>6, <1>8, <1>10, Zenon DEF CloseRequested
  <1>. QED BY <1>0, <1>3, <1>5, <1>9, <1>11, HandledParts, Zenon

(* A blink leaves a cursor alone that has timed out. *)
LEMMA BlinkHandled ==
    ASSUME NEW O \in SUBSET Windows, NEW c, ContextOK(c, O)
    PROVE  Handled(c, BlinkCursor(c), O)
  <1>0. c.win \in WindowState /\ CursorOK(c.win) BY DEF ContextOK
  <1>1. CASE c.win.blink_timed_out BY <1>1, HandledSelf, Zenon DEF BlinkCursor
  <1>2. CASE ~c.win.blink_timed_out
    <2>1. PICK b : b = ~c.win.cursor_hidden OBVIOUS
    <2>2. b \in BOOLEAN BY <2>1, Zenon
    <2>3. PICK z : z = [c.win EXCEPT !.cursor_hidden = b, !.dirty = TRUE] OBVIOUS
    <2>4. /\ z \in WindowState /\ CursorOK(z) /\ z.has_frame = c.win.has_frame
          /\ z.requested_redraw = c.win.requested_redraw
      BY <1>0, <1>2, <2>2, <2>3 DEF WindowState, CursorOK
    <2>5. PICK d : d = [c EXCEPT !.win = z] OBVIOUS
    <2>6. BlinkCursor(c) = d BY <1>2, <2>1, <2>3, <2>5, Zenon DEF BlinkCursor
    <2>. QED BY <2>4, <2>5, <2>6, WinChanged
  <1>. QED BY <1>1, <1>2

(* The timeout shows the cursor. *)
LEMMA TimeoutHandled ==
    ASSUME NEW O \in SUBSET Windows, NEW w \in O, NEW c, ContextOK(c, O)
    PROVE  Handled(c, BlinkCursorTimeout(w, c), O)
  <1>0. c.win \in WindowState /\ CursorOK(c.win) /\ TimersOK(c.timers, O) BY DEF ContextOK
  <1>1. PICK T : T = unschedule(c.timers, TimerId("BlinkCursor", w)) OBVIOUS
  <1>2. TimersOK(T, O) /\ FramesKept(c.timers, T) BY <1>0, <1>1, UnscheduleOne
  <1>3. PICK u : u = [c EXCEPT !.timers = T] OBVIOUS
  <1>4. Handled(c, u, O) /\ u.win = c.win BY <1>2, <1>3, TimersChanged
  <1>5. PICK z : z = [u.win EXCEPT !.blink_timed_out = TRUE, !.cursor_hidden = FALSE, !.dirty = TRUE]
    OBVIOUS
  <1>6. /\ z \in WindowState /\ CursorOK(z) /\ z.has_frame = u.win.has_frame
        /\ z.requested_redraw = u.win.requested_redraw
    BY <1>0, <1>4, <1>5 DEF WindowState, CursorOK
  <1>7. PICK d : d = [u EXCEPT !.win = z] OBVIOUS
  <1>8. ContextOK(u, O) BY <1>4 DEF Handled
  <1>9. Handled(u, d, O) BY <1>6, <1>7, <1>8, WinChanged
  <1>10. BlinkCursorTimeout(w, c) = d BY <1>1, <1>3, <1>5, <1>7, Zenon DEF BlinkCursorTimeout
  <1>. QED BY <1>4, <1>9, <1>10, HandledTrans, Zenon

(* Handlers that set a field that no property is about. *)
LEMMA FieldSet ==
    ASSUME NEW O, NEW c, ContextOK(c, O)
    PROVE  /\ \A on \in BOOLEAN : Handled(c, [c EXCEPT !.win.occluded = on], O)
           /\ \A size \in Nat : Handled(c, [c EXCEPT !.win.pending = size], O)
           /\ \A bell \in Nat : Handled(c, [c EXCEPT !.win.bell = bell], O)
           /\ Handled(c, [c EXCEPT !.win.event_queue = <<>>], O)
  <1>0. c.win \in WindowState /\ CursorOK(c.win) BY DEF ContextOK
  <1>1. ASSUME NEW on \in BOOLEAN PROVE Handled(c, [c EXCEPT !.win.occluded = on], O)
    <2>1. PICK z : z = [c.win EXCEPT !.occluded = on] OBVIOUS
    <2>2. /\ z \in WindowState /\ CursorOK(z) /\ z.has_frame = c.win.has_frame
          /\ z.requested_redraw = c.win.requested_redraw
      BY <1>0, <2>1 DEF WindowState, CursorOK
    <2>3. PICK d : d = [c EXCEPT !.win = z] OBVIOUS
    <2>4. [c EXCEPT !.win.occluded = on] = d BY <2>1, <2>3, Zenon
    <2>. QED BY <2>2, <2>3, <2>4, WinChanged
  <1>2. ASSUME NEW size \in Nat PROVE Handled(c, [c EXCEPT !.win.pending = size], O)
    <2>1. PICK z : z = [c.win EXCEPT !.pending = size] OBVIOUS
    <2>2. /\ z \in WindowState /\ CursorOK(z) /\ z.has_frame = c.win.has_frame
          /\ z.requested_redraw = c.win.requested_redraw
      BY <1>0, <2>1 DEF WindowState, CursorOK
    <2>3. PICK d : d = [c EXCEPT !.win = z] OBVIOUS
    <2>4. [c EXCEPT !.win.pending = size] = d BY <2>1, <2>3, Zenon
    <2>. QED BY <2>2, <2>3, <2>4, WinChanged
  <1>3. ASSUME NEW bell \in Nat PROVE Handled(c, [c EXCEPT !.win.bell = bell], O)
    <2>1. PICK z : z = [c.win EXCEPT !.bell = bell] OBVIOUS
    <2>2. /\ z \in WindowState /\ CursorOK(z) /\ z.has_frame = c.win.has_frame
          /\ z.requested_redraw = c.win.requested_redraw
      BY <1>0, <2>1 DEF WindowState, CursorOK
    <2>3. PICK d : d = [c EXCEPT !.win = z] OBVIOUS
    <2>4. [c EXCEPT !.win.bell = bell] = d BY <2>1, <2>3, Zenon
    <2>. QED BY <2>2, <2>3, <2>4, WinChanged
  <1>4. Handled(c, [c EXCEPT !.win.event_queue = <<>>], O)
    <2>1. PICK z : z = [c.win EXCEPT !.event_queue = <<>>] OBVIOUS
    <2>2. /\ z \in WindowState /\ CursorOK(z) /\ z.has_frame = c.win.has_frame
          /\ z.requested_redraw = c.win.requested_redraw
      BY <1>0, <2>1, EmptySeq DEF WindowState, CursorOK
    <2>3. PICK d : d = [c EXCEPT !.win = z] OBVIOUS
    <2>4. [c EXCEPT !.win.event_queue = <<>>] = d BY <2>1, <2>3, Zenon
    <2>. QED BY <2>2, <2>3, <2>4, WinChanged
  <1>. QED BY <1>1, <1>2, <1>3, <1>4

(* input::Processor::handle_event: one staged event. *)
LEMMA OneHandled ==
    ASSUME NEW O \in SUBSET Windows, NEW w \in O, NEW c, ContextOK(c, O), NEW e \in StagedEvent
    PROVE  Handled(c, handle_one(w, c, e), O)
  <1>1. /\ e.type \in {"Resized", "Focused", "Occluded", "Key", "CloseRequested",
                      "Resize", "Bell", "BlinkCursor", "BlinkCursorTimeout", "CursorBlinkingChange"}
        /\ e.type \in {"Resized", "Resize"} => e.size \in Sizes
        /\ e.type \in {"Focused", "Occluded"} => e.on \in BOOLEAN
    BY DEF StagedEvent, OsEvent, UserEvent
  <1>2. Sizes \in SUBSET Nat /\ BellDuration + 1 \in Nat BY WindowAssumption
  <1>3. CASE e.type = "Resized"
    <2>1. handle_one(w, c, e) = Resized(w, c, e.size) BY <1>3 DEF handle_one
    <2>2. e.size \in Sizes BY <1>1, <1>3
    <2>. QED BY <2>1, <2>2, ResizedHandled, Zenon
  <1>4. CASE e.type = "Focused"
    <2>1. handle_one(w, c, e) = Focused(w, c, e.on) BY <1>4 DEF handle_one
    <2>2. e.on \in BOOLEAN BY <1>1, <1>4
    <2>. QED BY <2>1, <2>2, FocusedHandled, Zenon
  <1>5. CASE e.type = "Occluded"
    <2>1. handle_one(w, c, e) = [c EXCEPT !.win.occluded = e.on] BY <1>5 DEF handle_one
    <2>2. e.on \in BOOLEAN BY <1>1, <1>5
    <2>3. PICK v \in BOOLEAN : v = e.on BY <2>2
    <2>4. Handled(c, [c EXCEPT !.win.occluded = v], O) BY FieldSet, Zenon
    <2>. QED BY <2>1, <2>3, <2>4, Zenon
  <1>6. CASE e.type = "Key"
    <2>1. handle_one(w, c, e) = on_typing_start(w, c) BY <1>6 DEF handle_one
    <2>. QED BY <2>1, TypingHandled, Zenon
  <1>7. CASE e.type = "CloseRequested"
    <2>1. handle_one(w, c, e) = CloseRequested(w, c) BY <1>7 DEF handle_one
    <2>. QED BY <2>1, CloseHandled, Zenon
  <1>8. CASE e.type = "Resize"
    <2>1. handle_one(w, c, e) = [c EXCEPT !.win.pending = e.size] BY <1>8 DEF handle_one
    <2>2. e.size \in Nat BY <1>1, <1>2, <1>8
    <2>3. PICK v \in Nat : v = e.size BY <2>2
    <2>4. Handled(c, [c EXCEPT !.win.pending = v], O) BY FieldSet, Zenon
    <2>. QED BY <2>1, <2>3, <2>4, Zenon
  <1>9. CASE e.type = "Bell"
    <2>1. handle_one(w, c, e) = [c EXCEPT !.win.bell = BellDuration + 1] BY <1>9 DEF handle_one
    <2>2. BellDuration + 1 \in Nat BY <1>2, <1>9
    <2>3. PICK v \in Nat : v = BellDuration + 1 BY <2>2
    <2>4. Handled(c, [c EXCEPT !.win.bell = v], O) BY FieldSet, Zenon
    <2>. QED BY <2>1, <2>3, <2>4, Zenon
  <1>10. CASE e.type = "BlinkCursor"
    <2>1. handle_one(w, c, e) = BlinkCursor(c) BY <1>10 DEF handle_one
    <2>. QED BY <2>1, BlinkHandled, Zenon
  <1>11. CASE e.type = "BlinkCursorTimeout"
    <2>1. handle_one(w, c, e) = BlinkCursorTimeout(w, c) BY <1>11 DEF handle_one
    <2>. QED BY <2>1, TimeoutHandled, Zenon
  <1>12. CASE e.type = "CursorBlinkingChange"
    <2>1. handle_one(w, c, e) = update_cursor_blinking(w, c) BY <1>12 DEF handle_one
    <2>. QED BY <2>1, BlinkingUpdated, Zenon
  <1>. QED BY <1>1, <1>3, <1>4, <1>5, <1>6, <1>7, <1>8, <1>9, <1>10, <1>11, <1>12

(* Display::handle_update. *)
LEMMA UpdateHandled ==
    ASSUME NEW O, NEW c, ContextOK(c, O)
    PROVE  Handled(c, handle_update(c), O)
  <1>0. c.win \in WindowState /\ CursorOK(c.win) BY DEF ContextOK
  <1>1. CASE c.win.pending = 0 BY <1>1, HandledSelf, Zenon DEF handle_update
  <1>2. CASE c.win.pending # 0
    <2>1. PICK p \in Nat : p = c.win.pending BY <1>0 DEF WindowState
    <2>2. PICK cells \in Nat : cells = p \div CellSize BY WindowAssumption
    <2>3. PICK z : z = [c.win EXCEPT !.size = p, !.pending = 0, !.pty_size = cells, !.dirty = TRUE]
      OBVIOUS
    <2>4. /\ z \in WindowState /\ CursorOK(z) /\ z.has_frame = c.win.has_frame
          /\ z.requested_redraw = c.win.requested_redraw
      BY <1>0, <2>3 DEF WindowState, CursorOK
    <2>5. PICK d : d = [c EXCEPT !.win = z] OBVIOUS
    <2>6. handle_update(c) = d
      BY <1>2, <2>1, <2>2, <2>3, <2>5, Zenon DEF handle_update
    <2>. QED BY <2>4, <2>5, <2>6, WinChanged
  <1>. QED BY <1>1, <1>2

(* WindowContext::handle_event: all staged events in order, by induction over the
   queue, and the display update. *)
LEMMA EventHandled ==
    ASSUME NEW O \in SUBSET Windows, NEW w \in O, NEW c, ContextOK(c, O)
    PROVE  Handled(c, handle_event(w, c), O)
  <1>1. CASE c.win.event_queue = <<>> BY <1>1, HandledSelf, Zenon DEF handle_event
  <1>2. CASE c.win.event_queue # <<>>
    <2>1. PICK s : s = c.win.event_queue OBVIOUS
    <2>2. s \in Seq(StagedEvent) BY <2>1 DEF ContextOK, WindowState
    <2>3. PICK n \in Nat : DOMAIN s = 1..n BY <2>2, LenProperties
    <2>4. PICK b : b = [c EXCEPT !.win.event_queue = <<>>] OBVIOUS
    <2>5. Handled(c, b, O) /\ ContextOK(b, O) BY <2>4, FieldSet, Zenon DEF Handled
    <2>6. PICK x : x = H!Fold(w, b, s) OBVIOUS
    <2>7. handle_event(w, c) = handle_update(x)
      <3>1. FoldLeft(LAMBDA d, e : handle_one(w, d, e), b, s) = x
        BY <2>6, Zenon DEF H!Fold, FoldLeft, MapThenFoldSet, Max, H!FoldLeft, H!MapThenFoldSet, H!Max
      <3>. QED BY <1>2, <2>1, <2>4, <3>1, Zenon DEF handle_event
    <2>8. PICK t : H!Steps(w, b, s, n, t, x) BY <2>3, <2>6, H!FoldTrace, Zenon
    <2>9. /\ t[0] = b /\ t[n] = x
          /\ \A k \in 0..(n - 1) : t[k + 1] = handle_one(w, t[k], s[k + 1])
      BY <2>8, Zenon DEF H!Steps
    <2>. DEFINE G == {k \in Nat : k \in 0..n => Handled(b, t[k], O)}
    <2>10. 0 \in G BY <2>5, <2>9, HandledSelf
    <2>11. ASSUME NEW k \in Nat, k \in G PROVE k + 1 \in G
      <3>0. k + 1 \in Nat OBVIOUS
      <3>1. SUFFICES ASSUME k + 1 \in 0..n PROVE Handled(b, t[k + 1], O) BY <3>0
      <3>2. k \in 0..n /\ k \in 0..(n - 1) /\ k + 1 \in 1..n BY <2>3, <3>1
      <3>3. Handled(b, t[k], O) BY <2>11, <3>2
      <3>4. s[k + 1] \in StagedEvent
        <4>1. Len(s) = n /\ k + 1 \in 1..Len(s) BY <2>2, <2>3, <3>2, LenProperties
        <4>. QED BY <2>2, <4>1, ElementOfSeq
      <3>5. ContextOK(t[k], O) BY <3>3, Zenon DEF Handled
      <3>6. Handled(t[k], handle_one(w, t[k], s[k + 1]), O) BY <3>4, <3>5, OneHandled
      <3>7. Handled(t[k], t[k + 1], O) BY <2>9, <3>2, <3>6, Zenon
      <3>. QED BY <3>3, <3>7, HandledTrans, Zenon
    <2>12. n \in G
      <3>. HIDE DEF G
      <3>. QED BY <2>10, <2>11, NatSetInduction
    <2>13. Handled(b, x, O) BY <2>9, <2>12
    <2>14. Handled(x, handle_update(x), O) BY <2>13, UpdateHandled DEF Handled
    <2>. QED BY <2>5, <2>7, <2>13, <2>14, HandledTrans, Zenon
  <1>. QED BY <1>1, <1>2

(* The parts of a context. *)
LEMMA ContextMade ==
    ASSUME NEW O, NEW x \in WindowState, CursorOK(x), NEW T, TimersOK(T, O),
           NEW q \in Seq(UserEvent), NEW r \in BOOLEAN, NEW d,
           d = [win |-> x, timers |-> T, sent |-> q, redraw |-> r]
    PROVE  /\ ContextOK(d, O)
           /\ d.win = x /\ d.timers = T /\ d.sent = q /\ d.redraw = r
  <1>1. d.win = x /\ d.timers = T /\ d.sent = q /\ d.redraw = r OBVIOUS
  <1>. QED BY <1>1, Zenon DEF ContextOK

(* Window::request_redraw asks winit unless an earlier request is pending. *)
LEMMA RedrawAsked ==
    ASSUME NEW O, NEW c, ContextOK(c, O), NEW d, d = request_redraw(c)
    PROVE  /\ ContextOK(d, O) /\ d.timers = c.timers /\ d.sent = c.sent
           /\ d.win.has_frame = c.win.has_frame
           /\ d.redraw = (c.redraw \/ ~c.win.requested_redraw)
  <1>0. /\ c = [win |-> c.win, timers |-> c.timers, sent |-> c.sent, redraw |-> c.redraw]
        /\ c.win \in WindowState /\ CursorOK(c.win) /\ TimersOK(c.timers, O)
        /\ c.sent \in Seq(UserEvent) /\ c.redraw \in BOOLEAN
    BY DEF ContextOK
  <1>1. PICK r : r = (c.redraw \/ ~c.win.requested_redraw) OBVIOUS
  <1>2. r \in BOOLEAN BY <1>1, Zenon
  <1>3. PICK z : z = [c.win EXCEPT !.requested_redraw = TRUE] OBVIOUS
  <1>4. z \in WindowState /\ CursorOK(z) /\ z.has_frame = c.win.has_frame
    BY <1>0, <1>3 DEF WindowState, CursorOK
  <1>5. PICK u : u = [c EXCEPT !.win = z] OBVIOUS
  <1>6. u = [win |-> z, timers |-> c.timers, sent |-> c.sent, redraw |-> c.redraw]
    BY <1>0, <1>5
  <1>7. d = [u EXCEPT !.redraw = r] BY <1>1, <1>3, <1>5, Zenon DEF request_redraw
  <1>8. d = [win |-> z, timers |-> c.timers, sent |-> c.sent, redraw |-> r]
    BY <1>6, <1>7
  <1>9. /\ ContextOK(d, O) /\ d.timers = c.timers /\ d.sent = c.sent /\ d.win = z /\ d.redraw = r
    BY <1>0, <1>2, <1>4, <1>8, ContextMade
  <1>. QED BY <1>1, <1>4, <1>9, Zenon

(* WindowContext::draw forgets the request before anything else. *)
LEMMA DrawStarted ==
    ASSUME NEW O, NEW c, ContextOK(c, O), NEW d, d = start_draw(c)
    PROVE  /\ ContextOK(d, O) /\ d.timers = c.timers /\ d.redraw = c.redraw
           /\ d.win.has_frame = c.win.has_frame /\ ~d.win.requested_redraw
  <1>0. /\ c = [win |-> c.win, timers |-> c.timers, sent |-> c.sent, redraw |-> c.redraw]
        /\ c.win \in WindowState /\ CursorOK(c.win) /\ TimersOK(c.timers, O)
        /\ c.sent \in Seq(UserEvent) /\ c.redraw \in BOOLEAN
    BY DEF ContextOK
  <1>1. PICK z : z = [c.win EXCEPT !.requested_redraw = FALSE] OBVIOUS
  <1>2. /\ z \in WindowState /\ CursorOK(z) /\ z.has_frame = c.win.has_frame
        /\ z.requested_redraw = FALSE
    BY <1>0, <1>1 DEF WindowState, CursorOK
  <1>3. d = [c EXCEPT !.win = z] BY <1>1, Zenon DEF start_draw
  <1>4. d = [win |-> z, timers |-> c.timers, sent |-> c.sent, redraw |-> c.redraw]
    BY <1>0, <1>3
  <1>5. ContextOK(d, O) /\ d.timers = c.timers /\ d.win = z /\ d.redraw = c.redraw
    BY <1>0, <1>2, <1>4, ContextMade
  <1>. QED BY <1>2, <1>5, Zenon

(* WindowContext::draw up to Display::draw: a visual bell asks for the next frame. *)
LEMMA DrawPrepared ==
    ASSUME NEW O, NEW c, ContextOK(c, O), ~c.win.requested_redraw, NEW d, d = prepare_draw(c)
    PROVE  /\ ContextOK(d, O) /\ d.timers = c.timers /\ d.win.has_frame = c.win.has_frame
           /\ d.win.requested_redraw => d.redraw
  <1>0. c.win \in WindowState /\ CursorOK(c.win) BY DEF ContextOK
  <1>1. PICK b : b = IF c.win.bell = 1 THEN 0 ELSE c.win.bell OBVIOUS
  <1>2. b \in Nat BY <1>0, <1>1 DEF WindowState
  <1>3. PICK z : z = [c.win EXCEPT !.dirty = FALSE, !.bell = b] OBVIOUS
  <1>4. /\ z \in WindowState /\ CursorOK(z) /\ z.has_frame = c.win.has_frame
        /\ z.requested_redraw = c.win.requested_redraw
    BY <1>0, <1>2, <1>3 DEF WindowState, CursorOK
  <1>5. PICK t : t = [c EXCEPT !.win = z] OBVIOUS
  <1>6. Handled(c, t, O) /\ t.timers = c.timers /\ t.win = z BY <1>4, <1>5, WinChanged
  <1>7. [c.win EXCEPT !.dirty = FALSE].bell = c.win.bell BY <1>0 DEF WindowState
  <1>8. t = [c EXCEPT !.win.dirty = FALSE, !.win.bell = IF @ = 1 THEN 0 ELSE @]
    BY <1>1, <1>3, <1>5, <1>7, Zenon
  <1>9. ContextOK(t, O) BY <1>6, Zenon DEF Handled
  <1>10. CASE c.win.bell = 0
    <2>1. d = t BY <1>8, <1>10, Zenon DEF prepare_draw
    <2>. QED BY <1>4, <1>6, <1>9, <2>1, Zenon
  <1>11. CASE c.win.bell # 0 /\ c.win.has_frame
    <2>1. d = request_redraw(t) BY <1>8, <1>11, Zenon DEF prepare_draw
    <2>2. /\ ContextOK(d, O) /\ d.timers = t.timers /\ d.win.has_frame = t.win.has_frame
          /\ d.redraw = (t.redraw \/ ~t.win.requested_redraw)
      BY <1>9, <2>1, RedrawAsked
    <2>. QED BY <1>4, <1>6, <2>2, Zenon
  <1>12. CASE c.win.bell # 0 /\ ~c.win.has_frame
    <2>1. PICK y : y = [t.win EXCEPT !.dirty = TRUE] OBVIOUS
    <2>2. /\ y \in WindowState /\ CursorOK(y) /\ y.has_frame = t.win.has_frame
          /\ y.requested_redraw = t.win.requested_redraw
      BY <1>4, <1>6, <2>1 DEF WindowState, CursorOK
    <2>3. d = [t EXCEPT !.win.dirty = TRUE] BY <1>8, <1>12, Zenon DEF prepare_draw
    <2>4. d = [t EXCEPT !.win = y] BY <2>1, <2>3, Zenon
    <2>5. Handled(t, d, O) /\ d.timers = t.timers /\ d.win = y BY <1>9, <2>2, <2>4, WinChanged
    <2>. QED BY <1>4, <1>6, <2>2, <2>5, Zenon DEF Handled
  <1>. QED BY <1>10, <1>11, <1>12, Zenon

(* FrameTimer::compute_timeout is never negative, and the timestamp that it keeps is an
   integer. *)
LEMMA FrameTimes ==
    ASSUME NEW c, c.win \in WindowState
    PROVE  compute_timeout(c) \in Nat /\ synced_timestamp(c) \in Int
  <1>1. PICK f \in Nat \ {0} : f = FrameInterval BY WindowAssumption
  <1>2. PICK n \in Int : n = c.win.frame_synced BY DEF WindowState
  <1>3. (n + f) \in Int /\ (0 - n) % f \in Int /\ 0 - ((0 - n) % f) \in Int BY SMT
  <1>4. compute_timeout(c) \in Nat
    BY <1>1, <1>2 DEF compute_timeout, next_frame
  <1>5. synced_timestamp(c) \in Int
    BY <1>1, <1>2, <1>3 DEF synced_timestamp, next_frame
  <1>. QED BY <1>4, <1>5

(* Display::request_frame takes has_frame away and schedules the Frame timer that gives
   it back. *)
LEMMA FrameAsked ==
    ASSUME NEW O \in SUBSET Windows, NEW w \in O, NEW c, ContextOK(c, O),
           NEW d, d = request_frame(w, c)
    PROVE  /\ ContextOK(d, O) /\ FramesKept(c.timers, d.timers)
           /\ scheduled(d.timers, TimerId("Frame", w))
           /\ d.redraw = c.redraw /\ d.win.requested_redraw = c.win.requested_redraw
  <1>0. /\ c = [win |-> c.win, timers |-> c.timers, sent |-> c.sent, redraw |-> c.redraw]
        /\ c.win \in WindowState /\ CursorOK(c.win) /\ TimersOK(c.timers, O)
        /\ c.sent \in Seq(UserEvent) /\ c.redraw \in BOOLEAN
    BY DEF ContextOK
  <1>1. PICK n \in Nat : n = compute_timeout(c) BY <1>0, FrameTimes
  <1>2. PICK m \in Int : m = synced_timestamp(c) BY <1>0, FrameTimes
  <1>3. PICK z : z = [c.win EXCEPT !.has_frame = FALSE, !.frame_known = TRUE, !.frame_synced = m]
    OBVIOUS
  <1>4. z \in WindowState /\ CursorOK(z) /\ z.requested_redraw = c.win.requested_redraw
    BY <1>0, <1>3 DEF WindowState, CursorOK
  <1>5. PICK id \in Ids(O) : id = TimerId("Frame", w) BY DEF Ids, Topic, TimerId
  <1>6. PICK e \in UserEvent : e = Event("Frame", w) BY DEF UserEvent, Event
  <1>7. id.topic = "Frame" /\ e = Event("Frame", id.window) BY <1>5, <1>6 DEF TimerId
  <1>8. PICK T : T = schedule(c.timers, e, n, FALSE, id) OBVIOUS
  <1>9. TimersOK(T, O) /\ \A i : scheduled(T, i) <=> scheduled(c.timers, i) \/ i = id
    <2>1. PICK S, r : S = c.timers /\ r = FALSE OBVIOUS
    <2>2. TimersOK(S, O) /\ r \in BOOLEAN BY <1>0, <2>1
    <2>3. T = schedule(S, e, n, r, id) BY <1>8, <2>1
    <2>4. TimersOK(T, O) /\ \A i : scheduled(T, i) <=> scheduled(S, i) \/ i = id
      BY ONLY <1>7, <2>2, <2>3, ScheduleKeeps, n \in Nat, id \in Ids(O), e \in UserEvent
    <2>. QED BY <2>1, <2>4
  <1>10. PICK u : u = [c EXCEPT !.win = z] OBVIOUS
  <1>11. u = [win |-> z, timers |-> c.timers, sent |-> c.sent, redraw |-> c.redraw] BY <1>0, <1>10
  <1>12. u.timers = c.timers BY <1>11
  <1>13. d = [u EXCEPT !.timers = T]
    BY <1>1, <1>2, <1>3, <1>5, <1>6, <1>8, <1>10, <1>12, Zenon DEF request_frame
  <1>14. d = [win |-> z, timers |-> T, sent |-> c.sent, redraw |-> c.redraw] BY <1>11, <1>13
  <1>15. ContextOK(d, O) /\ d.timers = T /\ d.win = z /\ d.redraw = c.redraw
    BY <1>0, <1>4, <1>9, <1>14, ContextMade
  <1>. QED BY <1>4, <1>5, <1>9, <1>15, Zenon DEF FramesKept

(* Time that passes changes neither flag and no cursor. *)
LEMMA TickPasses ==
    ASSUME NEW x \in WindowState, CursorOK(x)
    PROVE  /\ Elapsed(x) \in WindowState /\ CursorOK(Elapsed(x))
           /\ Elapsed(x).has_frame = x.has_frame
           /\ Elapsed(x).requested_redraw = x.requested_redraw
  <1>1. PICK b : b = IF x.bell > 1 THEN x.bell - 1 ELSE x.bell OBVIOUS
  <1>2. b \in Nat BY <1>1 DEF WindowState
  <1>3. PICK m : m = IF ~x.frame_known THEN x.frame_synced
                     ELSE IF x.frame_synced <= 0 - 2 * FrameInterval
                     THEN x.frame_synced - 1 + FrameInterval ELSE x.frame_synced - 1 OBVIOUS
  <1>4. m \in Int
    <2>1. x.frame_synced \in Int BY DEF WindowState
    <2>. QED BY <1>3, <2>1, WindowAssumption
  <1>5. PICK z : z = [x EXCEPT !.bell = b, !.frame_synced = m] OBVIOUS
  <1>6. /\ z \in WindowState /\ CursorOK(z) /\ z.has_frame = x.has_frame
        /\ z.requested_redraw = x.requested_redraw
    BY <1>2, <1>4, <1>5 DEF WindowState, CursorOK
  <1>7. [x EXCEPT !.bell = b].frame_synced = x.frame_synced BY <1>2 DEF WindowState
  <1>8. Elapsed(x) = z BY <1>1, <1>3, <1>5, <1>7, Zenon DEF Elapsed
  <1>. QED BY <1>6, <1>8, Zenon

(* The Frame event of window w is among the events q. *)
FrameSent(q, w) == \E k \in DOMAIN q : q[k] = Event("Frame", w)

(* Events sent later lose none that was sent before. *)
LEMMA FrameSentConcat ==
    ASSUME NEW a \in Seq(UserEvent), NEW b \in Seq(UserEvent), NEW w
    PROVE  /\ a \o b \in Seq(UserEvent)
           /\ FrameSent(a, w) => FrameSent(a \o b, w)
           /\ FrameSent(b, w) => FrameSent(a \o b, w)
  <1>1. PICK r : r = a \o b OBVIOUS
  <1>2. PICK e : e = Event("Frame", w) OBVIOUS
  <1>. HIDE DEF UserEvent
  <1>3. /\ r \in Seq(UserEvent) /\ Len(r) = Len(a) + Len(b)
        /\ \A i \in 1..Len(a) + Len(b) : r[i] = IF i <= Len(a) THEN a[i] ELSE b[i - Len(a)]
    BY <1>1, ConcatProperties
  <1>4. /\ DOMAIN r = 1..(Len(a) + Len(b)) /\ DOMAIN a = 1..Len(a) /\ DOMAIN b = 1..Len(b)
        /\ Len(a) \in Nat /\ Len(b) \in Nat
    BY <1>3, LenProperties
  <1>5. ASSUME NEW k \in DOMAIN a, a[k] = e PROVE \E i \in DOMAIN r : r[i] = e
    <2>1. k \in DOMAIN r /\ r[k] = e BY <1>3, <1>4, <1>5
    <2>. QED BY <2>1
  <1>6. ASSUME NEW k \in DOMAIN b, b[k] = e PROVE \E i \in DOMAIN r : r[i] = e
    <2>0. (Len(a) + k) - Len(a) = k /\ ~(Len(a) + k <= Len(a)) BY <1>4
    <2>1. Len(a) + k \in 1..(Len(a) + Len(b)) BY <1>4
    <2>2. r[Len(a) + k] = b[(Len(a) + k) - Len(a)] BY <1>3, <2>0, <2>1
    <2>3. Len(a) + k \in DOMAIN r /\ r[Len(a) + k] = e BY <1>4, <1>6, <2>0, <2>1, <2>2
    <2>. QED BY <2>3
  <1>. QED BY <1>1, <1>2, <1>3, <1>5, <1>6, Zenon DEF FrameSent

(* Another event delivered leaves the Frame event where it was. *)
LEMMA FrameSentTail ==
    ASSUME NEW q \in Seq(UserEvent), q # <<>>, NEW w, Head(q) # Event("Frame", w), FrameSent(q, w)
    PROVE  FrameSent(Tail(q), w)
  <1>1. PICK e : e = Event("Frame", w) OBVIOUS
  <1>. HIDE DEF UserEvent
  <1>2. PICK k \in DOMAIN q : q[k] = e BY <1>1, Zenon DEF FrameSent
  <1>3. DOMAIN q = 1..Len(q) /\ Len(q) \in Nat BY LenProperties
  <1>4. Head(q) = q[1] OBVIOUS
  <1>5. PICK r : r = Tail(q) OBVIOUS
  <1>6. r \in Seq(UserEvent) /\ Len(r) = Len(q) - 1 /\ \A i \in 1..Len(r) : r[i] = q[i + 1]
    BY <1>5, HeadTailProperties
  <1>7. k # 1 BY <1>1, <1>2, <1>4
  <1>8. DOMAIN r = 1..Len(r) BY <1>6, LenProperties
  <1>9. k - 1 \in 1..Len(r) /\ (k - 1) + 1 = k BY <1>3, <1>6, <1>7
  <1>10. k - 1 \in DOMAIN r /\ r[k - 1] = e BY <1>2, <1>6, <1>8, <1>9
  <1>. QED BY <1>1, <1>5, <1>10, Zenon DEF FrameSent

(* What the PTY thread sends is a sequence of user events. *)
LEMMA SeqOfTwo ==
    ASSUME NEW w \in Windows, NEW s, NEW t,
           {s, t} \subseteq {"Wakeup", "Exit", "Bell", "CursorBlinkingChange"}
    PROVE  /\ [k \in DOMAIN <<s>> |-> Event(<<s>>[k], w)] \in Seq(UserEvent)
           /\ [k \in DOMAIN <<s, t>> |-> Event(<<s, t>>[k], w)] \in Seq(UserEvent)
  <1>1. PICK a \in UserEvent, b \in UserEvent : a = Event(s, w) /\ b = Event(t, w)
    BY DEF UserEvent, Event
  <1>2. [k \in DOMAIN <<s>> |-> Event(<<s>>[k], w)] = <<a>> BY <1>1
  <1>3. [k \in DOMAIN <<s, t>> |-> Event(<<s, t>>[k], w)] = <<a, b>> BY <1>1
  <1>4. <<a>> \in Seq(UserEvent) /\ <<a, b>> \in Seq(UserEvent)
    <2>. HIDE DEF UserEvent
    <2>. QED OBVIOUS
  <1>. QED BY <1>2, <1>3, <1>4, Zenon

(* The event loop itself: everything that is still to be handled is of an open window. *)
ControlOK ==
    /\ open \in SUBSET Windows /\ exiting \in BOOLEAN
    /\ pc \in {"dispatch", "about_to_wait"}
    /\ todo \in SUBSET open /\ (pc = "dispatch" => todo = {})
    /\ redraw \in SUBSET open
(* The windows, those already closed included. *)
WindowsOK ==
    /\ win \in [Windows -> WindowState]
    /\ \A w \in Windows : CursorOK(win[w])
(* The events under way. *)
QueuesOK ==
    /\ os_events \in Seq(OsEvent)
    /\ user_events \in Seq(UserEvent)
(* A window without a frame has a Frame timer or a Frame event. *)
FramesComing ==
    \A w \in open :
        ~win[w].has_frame => scheduled(timers, TimerId("Frame", w)) \/ FrameSent(user_events, w)
(* A window that has asked for a redraw is on the list of winit. *)
RedrawsOwed == \A w \in open : win[w].requested_redraw => w \in redraw

(* The inductive invariant. *)
LoopInv ==
    /\ ControlOK /\ WindowsOK /\ QueuesOK
    /\ TimersOK(timers, open)
    /\ FramesComing /\ RedrawsOwed

(* A window that has just been opened. *)
LEMMA NewWindowOK ==
    ASSUME NEW w \in Windows, NEW b \in BOOLEAN
    PROVE  /\ NewWindow(w, b) \in WindowState /\ CursorOK(NewWindow(w, b))
           /\ NewWindow(w, b).has_frame /\ ~NewWindow(w, b).requested_redraw
  <1>1. PICK s \in Nat : s = FirstSize
    <2>1. FirstSize \in Sizes \ {0} BY WindowAssumption DEF FirstSize
    <2>. QED BY <2>1, WindowAssumption
  <1>2. PICK n \in Nat : n = s \div CellSize BY WindowAssumption
  <1>3. PICK q : q = <<>> OBVIOUS
  <1>4. q \in Seq(StagedEvent) BY <1>3, EmptySeq
  <1>. QED BY <1>1, <1>2, <1>3, <1>4 DEF NewWindow, WindowState, CursorOK

(* The invariant holds at the start. *)
LEMMA InitOK == Init => LoopInv
  <1>. SUFFICES ASSUME Init PROVE LoopInv OBVIOUS
  <1>1. ControlOK BY DEF Init, ControlOK
  <1>2. PICK b \in BOOLEAN : win = [w \in Windows |-> NewWindow(w, b)]
    BY WindowAssumption DEF Init
  <1>3. ASSUME NEW w \in Windows
        PROVE  /\ win[w] \in WindowState /\ CursorOK(win[w])
               /\ win[w].has_frame /\ ~win[w].requested_redraw
    BY <1>2, NewWindowOK
  <1>4. WindowsOK BY <1>2, <1>3 DEF WindowsOK
  <1>5. QueuesOK BY EmptySeq DEF Init, QueuesOK
  <1>6. TimersOK(timers, open)
    <2>1. timers = <<>> BY DEF Init
    <2>2. timers \in Seq(Timer(open)) BY <2>1, EmptySeq
    <2>3. DOMAIN timers = {} BY <2>1
    <2>. QED BY <2>2, <2>3 DEF TimersOK, Sorted, Unique
  <1>7. open = Windows BY DEF Init
  <1>8. FramesComing /\ RedrawsOwed BY <1>3, <1>7 DEF FramesComing, RedrawsOwed
  <1>. QED BY <1>1, <1>4, <1>5, <1>6, <1>8 DEF LoopInv

(* The context in which the handlers of window w begin. *)
LEMMA ContextOfWindow ==
    ASSUME LoopInv, NEW w \in open
    PROVE  /\ ContextOK(Context(w), open) /\ w \in Windows /\ Context(w).win = win[w]
           /\ Context(w).timers = timers /\ Context(w).redraw = FALSE
  <1>1. w \in Windows BY DEF LoopInv, ControlOK
  <1>2. win[w] \in WindowState /\ CursorOK(win[w]) BY <1>1 DEF LoopInv, WindowsOK
  <1>3. TimersOK(timers, open) BY DEF LoopInv
  <1>4. PICK q : q = <<>> OBVIOUS
  <1>5. q \in Seq(UserEvent) BY <1>4, EmptySeq
  <1>6. PICK x, d, r : x = win[w] /\ d = Context(w) /\ r = FALSE OBVIOUS
  <1>7. d = [win |-> x, timers |-> timers, sent |-> q, redraw |-> r]
    BY <1>4, <1>6, Zenon DEF Context
  <1>8. x \in WindowState /\ CursorOK(x) /\ r \in BOOLEAN BY <1>2, <1>6, Zenon
  <1>9. /\ ContextOK(d, open) /\ d.win = x /\ d.timers = timers /\ d.redraw = r
    BY ONLY <1>3, <1>5, <1>7, <1>8, ContextMade
  <1>. QED BY <1>1, <1>6, <1>9, Zenon

(* A handler of window w leaves with context c. *)
Left(w, c) ==
    /\ ContextOK(c, open)
    /\ FramesKept(timers, c.timers)
    /\ ~c.win.has_frame => ~win[w].has_frame \/ scheduled(c.timers, TimerId("Frame", w))

(* Where a handler of window w has been left, all parts of the invariant but ControlOK
   hold again. *)
LEMMA LeftKeeps ==
    ASSUME LoopInv, NEW w \in open, NEW c, Left(w, c),
           win' = [win EXCEPT ![w] = c.win], timers' = c.timers,
           user_events' = user_events \o c.sent, os_events' = os_events, open' = open,
           redraw' \in SUBSET open, redraw \ {w} \subseteq redraw',
           c.win.requested_redraw => w \in redraw'
    PROVE  WindowsOK' /\ QueuesOK' /\ TimersOK(timers, open)' /\ FramesComing' /\ RedrawsOwed'
  <1>0. w \in Windows /\ open \in SUBSET Windows BY DEF LoopInv, ControlOK
  <1>1. /\ c.win \in WindowState /\ CursorOK(c.win) /\ TimersOK(c.timers, open)
        /\ c.sent \in Seq(UserEvent)
    BY DEF Left, ContextOK
  <1>2. /\ win \in [Windows -> WindowState] /\ \A v \in Windows : CursorOK(win[v])
        /\ user_events \in Seq(UserEvent)
    BY DEF LoopInv, WindowsOK, QueuesOK
  <1>3. \A v \in Windows : win'[v] = IF v = w THEN c.win ELSE win[v] BY <1>0, <1>2
  <1>4. WindowsOK'
    <2>1. win' \in [Windows -> WindowState] BY <1>0, <1>1, <1>2
    <2>2. \A v \in Windows : CursorOK(win'[v]) BY <1>1, <1>2, <1>3, Zenon
    <2>. QED BY <2>1, <2>2 DEF WindowsOK, CursorOK
  <1>5. QueuesOK' BY <1>1, <1>2, FrameSentConcat DEF LoopInv, QueuesOK
  <1>6. TimersOK(timers, open)' BY <1>1, Zenon DEF TimersOK, Sorted, Unique
  <1>7. ASSUME NEW v \in open, ~win'[v].has_frame
        PROVE  scheduled(timers', TimerId("Frame", v)) \/ FrameSent(user_events', v)
    <2>1. v \in Windows BY <1>0
    <2>2. ~win[v].has_frame \/ scheduled(timers', TimerId("Frame", v))
      BY <1>3, <1>7, <2>1, Zenon DEF Left
    <2>3. CASE ~win[v].has_frame
      <3>1. scheduled(timers, TimerId("Frame", v)) \/ FrameSent(user_events, v)
        BY <2>3, Zenon DEF LoopInv, FramesComing
      <3>2. scheduled(timers, TimerId("Frame", v)) => scheduled(timers', TimerId("Frame", v))
        BY Zenon DEF Left, FramesKept
      <3>3. FrameSent(user_events, v) => FrameSent(user_events', v)
        BY <1>1, <1>2, FrameSentConcat
      <3>. QED BY <3>1, <3>2, <3>3, Zenon
    <2>. QED BY <2>2, <2>3, Zenon
  <1>8. FramesComing' BY <1>7, Zenon DEF FramesComing, FrameSent, scheduled, TimerId, Event
  <1>9. RedrawsOwed'
    <2>1. ASSUME NEW v \in open, win'[v].requested_redraw PROVE v \in redraw'
      <3>1. CASE v = w BY <1>0, <1>3, <2>1, <3>1, Zenon
      <3>2. CASE v # w
        <4>1. win[v].requested_redraw BY <1>0, <1>3, <2>1, <3>2
        <4>2. v \in redraw BY <4>1, Zenon DEF LoopInv, RedrawsOwed
        <4>. QED BY <3>2, <4>2
      <3>. QED BY <3>1, <3>2
    <2>. QED BY <2>1 DEF RedrawsOwed
  <1>. QED BY <1>4, <1>5, <1>6, <1>8, <1>9

(* The staged events of window w are handled before winit waits. *)
LEMMA StagedHandled ==
    ASSUME LoopInv, NEW w \in Windows, HandleStaged(w)
    PROVE  LoopInv'
  <1>0. /\ pc = "about_to_wait" /\ w \in open /\ todo' = todo \ {w} /\ pc' = pc
        /\ open' = open /\ exiting' = exiting /\ os_events' = os_events
    BY DEF HandleStaged, LoopInv, ControlOK, outVars
  <1>1. PICK c : /\ c = handle_event(w, Context(w))
                 /\ Leave(w, IF win[w].event_queue # <<>> /\ wants_redraw(c)
                              THEN request_redraw(c) ELSE c)
    BY Zenon DEF HandleStaged
  <1>2. open \in SUBSET Windows /\ redraw \in SUBSET open BY DEF LoopInv, ControlOK
  <1>3. PICK b : b = Context(w) OBVIOUS
  <1>4. ContextOK(b, open) /\ b.win = win[w] /\ b.timers = timers /\ b.redraw = FALSE
    BY <1>0, <1>3, ContextOfWindow
  <1>5. Handled(b, c, open) BY <1>0, <1>1, <1>2, <1>3, <1>4, EventHandled
  <1>6. /\ ContextOK(c, open) /\ c.redraw = FALSE /\ c.win.has_frame = win[w].has_frame
        /\ c.win.requested_redraw = win[w].requested_redraw /\ FramesKept(timers, c.timers)
    BY <1>4, <1>5, Zenon DEF Handled
  <1>7. PICK d : /\ Leave(w, d)
                 /\ d = request_redraw(c) \/ d = c
    BY <1>1, Zenon
  <1>8. /\ ContextOK(d, open) /\ d.timers = c.timers /\ d.win.has_frame = win[w].has_frame
        /\ d.win.requested_redraw => d.redraw \/ win[w].requested_redraw
    <2>1. CASE d = request_redraw(c)
      <3>1. /\ ContextOK(d, open) /\ d.timers = c.timers /\ d.win.has_frame = c.win.has_frame
            /\ d.redraw = (c.redraw \/ ~c.win.requested_redraw)
        BY <1>6, <2>1, RedrawAsked
      <3>. QED BY <1>6, <3>1, Zenon
    <2>2. CASE d = c BY <1>6, <2>2, Zenon
    <2>. QED BY <1>7, <2>1, <2>2
  <1>9. Left(w, d) BY <1>6, <1>8, Zenon DEF Left
  <1>10. /\ win' = [win EXCEPT ![w] = d.win] /\ timers' = d.timers
         /\ redraw' = (redraw \cup IF d.redraw THEN {w} ELSE {})
         /\ user_events' = user_events \o d.sent
    BY <1>7 DEF Leave
  <1>11. win[w].requested_redraw => w \in redraw
    BY <1>0 DEF LoopInv, RedrawsOwed
  <1>12. /\ redraw' \in SUBSET open /\ redraw \ {w} \subseteq redraw'
         /\ d.win.requested_redraw => w \in redraw'
    BY <1>0, <1>2, <1>8, <1>10, <1>11
  <1>13. WindowsOK' /\ QueuesOK' /\ TimersOK(timers, open)' /\ FramesComing' /\ RedrawsOwed'
    BY <1>0, <1>9, <1>10, <1>12, LeftKeeps
  <1>14. ControlOK' BY <1>0, <1>12 DEF LoopInv, ControlOK
  <1>. QED BY <1>13, <1>14 DEF LoopInv

(* Window w is redrawn. *)
LEMMA WindowRedrawn ==
    ASSUME LoopInv, NEW w \in Windows, RedrawRequested(w)
    PROVE  LoopInv'
  <1>0. /\ pc = "dispatch" /\ w \in open /\ todo' = todo /\ pc' = pc
        /\ open' = open /\ exiting' = exiting /\ os_events' = os_events
    BY DEF RedrawRequested, LoopInv, ControlOK, outVars
  <1>1. PICK c : /\ c = start_draw(handle_event(w, Context(w)))
                 /\ \/ Redrawn(w, c)
                    \/ Redrawn(w, prepare_draw(c))
                    \/ Redrawn(w, request_frame(w, prepare_draw(c)))
    BY Zenon DEF RedrawRequested
  <1>2. open \in SUBSET Windows /\ redraw \in SUBSET open BY DEF LoopInv, ControlOK
  <1>3. PICK b : b = Context(w) OBVIOUS
  <1>4. ContextOK(b, open) /\ b.win = win[w] /\ b.timers = timers /\ b.redraw = FALSE
    BY <1>0, <1>3, ContextOfWindow
  <1>5. PICK a : a = handle_event(w, b) OBVIOUS
  <1>6. Handled(b, a, open) BY <1>0, <1>2, <1>4, <1>5, EventHandled
  <1>7. ContextOK(a, open) /\ a.win.has_frame = win[w].has_frame /\ FramesKept(timers, a.timers)
    BY <1>4, <1>6, Zenon DEF Handled
  <1>8. /\ ContextOK(c, open) /\ c.timers = a.timers
        /\ c.win.has_frame = a.win.has_frame /\ ~c.win.requested_redraw
    BY <1>1, <1>3, <1>5, <1>7, DrawStarted
  <1>9. PICK d : Redrawn(w, d) /\ Left(w, d) /\ (d.win.requested_redraw => d.redraw)
    <2>1. Left(w, c) BY <1>7, <1>8, Zenon DEF Left
    <2>2. PICK p : p = prepare_draw(c) OBVIOUS
    <2>3. /\ ContextOK(p, open) /\ p.timers = c.timers /\ p.win.has_frame = c.win.has_frame
          /\ p.win.requested_redraw => p.redraw
      BY <1>8, <2>2, DrawPrepared
    <2>4. Left(w, p) BY <1>7, <1>8, <2>3, Zenon DEF Left
    <2>5. PICK f : f = request_frame(w, p) OBVIOUS
    <2>6. /\ ContextOK(f, open) /\ FramesKept(p.timers, f.timers)
          /\ scheduled(f.timers, TimerId("Frame", w))
          /\ f.redraw = p.redraw /\ f.win.requested_redraw = p.win.requested_redraw
      BY <1>0, <1>2, <2>3, <2>5, FrameAsked
    <2>7. Left(w, f) /\ (f.win.requested_redraw => f.redraw)
      BY <1>7, <1>8, <2>3, <2>6, Zenon DEF Left, FramesKept
    <2>. QED BY <1>1, <1>8, <2>1, <2>2, <2>3, <2>4, <2>5, <2>7, Zenon
  <1>10. /\ win' = [win EXCEPT ![w] = d.win] /\ timers' = d.timers
         /\ redraw' = IF d.redraw THEN redraw ELSE redraw \ {w}
         /\ user_events' = user_events \o d.sent
    BY <1>9 DEF Redrawn
  <1>11. w \in redraw BY DEF RedrawRequested
  <1>12. /\ redraw' \in SUBSET open /\ redraw \ {w} \subseteq redraw'
         /\ d.win.requested_redraw => w \in redraw'
    BY <1>2, <1>9, <1>10, <1>11
  <1>13. WindowsOK' /\ QueuesOK' /\ TimersOK(timers, open)' /\ FramesComing' /\ RedrawsOwed'
    BY <1>0, <1>9, <1>10, <1>12, LeftKeeps
  <1>14. ControlOK' BY <1>0, <1>12 DEF LoopInv, ControlOK
  <1>. QED BY <1>13, <1>14 DEF LoopInv

(* A step that takes no frame away from a window keeps the invariant if it loses no
   timer, no Frame event and no redraw. *)
LEMMA StepKeeps ==
    ASSUME LoopInv, ControlOK', QueuesOK', TimersOK(timers, open)', WindowsOK',
           open' \subseteq open,
           \A v \in open' : ~win'[v].has_frame => ~win[v].has_frame,
           \A v \in open' : scheduled(timers, TimerId("Frame", v)) =>
              scheduled(timers', TimerId("Frame", v)) \/ FrameSent(user_events', v),
           \A v \in open' : FrameSent(user_events, v) => win'[v].has_frame \/ FrameSent(user_events', v),
           \A v \in open' : win'[v].requested_redraw => v \in redraw' \/ win[v].requested_redraw,
           \A v \in open' : v \in redraw => v \in redraw'
    PROVE  LoopInv'
  <1>1. ASSUME NEW v \in open', ~win'[v].has_frame
        PROVE  scheduled(timers', TimerId("Frame", v)) \/ FrameSent(user_events', v)
    <2>1. scheduled(timers, TimerId("Frame", v)) \/ FrameSent(user_events, v)
      BY <1>1, Zenon DEF LoopInv, FramesComing
    <2>. QED BY <1>1, <2>1, Zenon
  <1>2. FramesComing' BY <1>1, Zenon DEF FramesComing, FrameSent, scheduled, TimerId, Event
  <1>3. ASSUME NEW v \in open', win'[v].requested_redraw PROVE v \in redraw'
    BY <1>3, Zenon DEF LoopInv, RedrawsOwed
  <1>4. RedrawsOwed' BY <1>3, Zenon DEF RedrawsOwed
  <1>. QED BY <1>2, <1>4 DEF LoopInv

(* What is common to the user events. *)
LEMMA UserEventTaken ==
    ASSUME LoopInv, NEW type, NextUserEvent(type)
    PROVE  /\ pc = "dispatch" /\ pc' = pc /\ todo' = todo /\ os_events' = os_events /\ todo = {}
           /\ user_events' \in Seq(UserEvent) /\ QueuesOK'
           /\ Head(user_events) \in UserEvent /\ Head(user_events).type = type
           /\ Head(user_events).window \in Windows
           /\ \A v : FrameSent(user_events, v) /\ (type # "Frame" \/ v # Head(user_events).window)
                    => FrameSent(user_events', v)
  <1>1. /\ pc = "dispatch" /\ pc' = pc /\ todo' = todo /\ os_events' = os_events
        /\ user_events # <<>> /\ Head(user_events).type = type /\ user_events' = Tail(user_events)
    BY DEF NextUserEvent, outVars
  <1>2. user_events \in Seq(UserEvent) BY DEF LoopInv, QueuesOK
  <1>3. Head(user_events) \in UserEvent /\ user_events' \in Seq(UserEvent)
    <2>. HIDE DEF UserEvent
    <2>. QED BY <1>1, <1>2, HeadTailProperties
  <1>4. Head(user_events).window \in Windows BY <1>3 DEF UserEvent
  <1>5. ASSUME NEW v, FrameSent(user_events, v), type # "Frame" \/ v # Head(user_events).window
        PROVE  FrameSent(user_events', v)
    <2>1. Event("Frame", v).type = "Frame" /\ Event("Frame", v).window = v BY DEF Event
    <2>2. Head(user_events) # Event("Frame", v) BY <1>1, <1>5, <2>1, Zenon
    <2>. QED BY <1>1, <1>2, <1>5, <2>2, FrameSentTail
  <1>. QED BY <1>1, <1>3, <1>4, <1>5 DEF LoopInv, QueuesOK, ControlOK

(* The state of one window replaced. *)
LEMMA WindowReplaced ==
    ASSUME LoopInv, NEW w \in Windows, NEW x \in WindowState, CursorOK(x),
           win' = [win EXCEPT ![w] = x]
    PROVE  /\ WindowsOK' /\ win'[w] = x
           /\ \A v \in Windows : v # w => win'[v] = win[v]
  <1>1. win \in [Windows -> WindowState] /\ \A v \in Windows : CursorOK(win[v])
    BY DEF LoopInv, WindowsOK
  <1>2. win' \in [Windows -> WindowState] BY <1>1
  <1>3. win'[w] = x /\ \A v \in Windows : v # w => win'[v] = win[v] BY <1>1
  <1>4. \A v \in Windows : CursorOK(win'[v]) BY <1>1, <1>3, Zenon
  <1>. QED BY <1>2, <1>3, <1>4 DEF WindowsOK, CursorOK

(* An event appended to the queue of its window, if it is still open. *)
LEMMA EventStaged ==
    ASSUME LoopInv, NEW e \in StagedEvent,
           win' = IF e.window \in open
                  THEN [win EXCEPT ![e.window].event_queue = Append(@, e)] ELSE win
    PROVE  /\ WindowsOK'
           /\ \A v \in Windows : /\ win'[v].has_frame = win[v].has_frame
                                /\ win'[v].requested_redraw = win[v].requested_redraw
  <1>1. CASE e.window \in open
    <2>1. PICK w \in Windows : w = e.window BY <1>1 DEF LoopInv, ControlOK
    <2>2. win[w] \in WindowState /\ CursorOK(win[w]) BY DEF LoopInv, WindowsOK
    <2>3. PICK q : q = Append(win[w].event_queue, e) OBVIOUS
    <2>4. q \in Seq(StagedEvent)
      <3>1. win[w].event_queue \in Seq(StagedEvent) BY <2>2 DEF WindowState
      <3>. HIDE DEF StagedEvent
      <3>. QED BY <2>3, <3>1, AppendProperties
    <2>5. PICK x : x = [win[w] EXCEPT !.event_queue = q] OBVIOUS
    <2>6. /\ x \in WindowState /\ CursorOK(x) /\ x.has_frame = win[w].has_frame
          /\ x.requested_redraw = win[w].requested_redraw
      BY <2>2, <2>4, <2>5 DEF WindowState, CursorOK
    <2>7. win' = [win EXCEPT ![w] = x] BY <1>1, <2>1, <2>3, <2>5, Zenon
    <2>8. WindowsOK' /\ win'[w] = x /\ \A v \in Windows : v # w => win'[v] = win[v]
      BY <2>6, <2>7, WindowReplaced
    <2>. QED BY <2>6, <2>8, Zenon
  <1>2. CASE e.window \notin open
    <2>1. win' = win BY <1>2
    <2>. QED BY <2>1 DEF LoopInv, WindowsOK, CursorOK
  <1>. QED BY <1>1, <1>2

(* Timers left alone. *)
LEMMA TimersStay ==
    ASSUME LoopInv, timers' = timers, open' = open
    PROVE  TimersOK(timers, open)'
  BY DEF LoopInv, TimersOK, Sorted, Unique

(* window_event *)
LEMMA WindowEventKeeps ==
    ASSUME LoopInv, window_event PROVE LoopInv'
  <1>1. /\ os_events # <<>> /\ os_events' = Tail(os_events)
        /\ timers' = timers /\ open' = open /\ exiting' = exiting /\ pc' = pc /\ todo' = todo
        /\ redraw' = redraw /\ user_events' = user_events
    BY DEF window_event
  <1>2. os_events \in Seq(OsEvent) BY DEF LoopInv, QueuesOK
  <1>3. Head(os_events) \in OsEvent /\ os_events' \in Seq(OsEvent)
    <2>. HIDE DEF OsEvent
    <2>. QED BY <1>1, <1>2, HeadTailProperties
  <1>4. PICK e \in StagedEvent : e = Head(os_events) BY <1>3 DEF StagedEvent
  <1>5. win' = IF e.window \in open
               THEN [win EXCEPT ![e.window].event_queue = Append(@, e)] ELSE win
    BY <1>4, Zenon DEF window_event
  <1>6. /\ WindowsOK'
        /\ \A v \in Windows : /\ win'[v].has_frame = win[v].has_frame
                             /\ win'[v].requested_redraw = win[v].requested_redraw
    BY <1>5, EventStaged
  <1>7. ControlOK' /\ open \in SUBSET Windows BY <1>1 DEF LoopInv, ControlOK
  <1>8. QueuesOK' BY <1>1, <1>3 DEF LoopInv, QueuesOK
  <1>9. TimersOK(timers, open)' BY <1>1, TimersStay
  <1>. QED BY <1>1, <1>6, <1>7, <1>8, <1>9, StepKeeps

(* A user event is staged. *)
LEMMA StageKeeps ==
    ASSUME LoopInv,
           NEW type \in {"Resize", "Bell", "BlinkCursor", "BlinkCursorTimeout", "CursorBlinkingChange"},
           StageUserEvent(type)
    PROVE  LoopInv'
  <1>1. /\ NextUserEvent(type) /\ timers' = timers /\ open' = open /\ exiting' = exiting
        /\ redraw' = redraw
    BY DEF StageUserEvent
  <1>2. /\ pc' = pc /\ todo' = todo /\ QueuesOK'
        /\ Head(user_events) \in UserEvent /\ Head(user_events).type = type
        /\ \A v : FrameSent(user_events, v) => FrameSent(user_events', v)
    BY <1>1, UserEventTaken
  <1>3. PICK e \in StagedEvent : e = Head(user_events) BY <1>2 DEF StagedEvent
  <1>4. win' = IF e.window \in open
               THEN [win EXCEPT ![e.window].event_queue = Append(@, e)] ELSE win
    BY <1>3, Zenon DEF StageUserEvent
  <1>5. /\ WindowsOK'
        /\ \A v \in Windows : /\ win'[v].has_frame = win[v].has_frame
                             /\ win'[v].requested_redraw = win[v].requested_redraw
    BY <1>4, EventStaged
  <1>6. ControlOK' /\ open \in SUBSET Windows BY <1>1, <1>2 DEF LoopInv, ControlOK
  <1>7. TimersOK(timers, open)' BY <1>1, TimersStay
  <1>. QED BY <1>1, <1>2, <1>5, <1>6, <1>7, StepKeeps

(* Wakeup and Frame act on their window at once. *)
LEMMA ImmediatelyKeeps ==
    ASSUME LoopInv, NEW w \in Windows, NEW b \in BOOLEAN, NEW c, ContextOK(c, open),
           c.redraw = FALSE, c.win.requested_redraw = win[w].requested_redraw,
           Immediately(w, c, b)
    PROVE  /\ WindowsOK' /\ redraw' \in SUBSET open /\ redraw \subseteq redraw'
           /\ \A v \in Windows : v # w => win'[v] = win[v]
           /\ w \in open => win'[w].has_frame = c.win.has_frame
           /\ w \notin open => win'[w] = win[w]
           /\ \A v \in open : win'[v].requested_redraw => v \in redraw' \/ win[v].requested_redraw
  <1>1. redraw \in SUBSET open BY DEF LoopInv, ControlOK
  <1>2. CASE w \in open
    <2>1. PICK d : /\ d = request_redraw(c) \/ d = c
                   /\ win' = [win EXCEPT ![w] = d.win]
                   /\ redraw' = (redraw \cup IF d.redraw THEN {w} ELSE {})
      BY <1>2, Zenon DEF Immediately
    <2>2. /\ ContextOK(d, open) /\ d.win.has_frame = c.win.has_frame
          /\ d.win.requested_redraw => d.redraw \/ win[w].requested_redraw
      <3>1. CASE d = request_redraw(c)
        <4>1. /\ ContextOK(d, open) /\ d.win.has_frame = c.win.has_frame
              /\ d.redraw = (c.redraw \/ ~c.win.requested_redraw)
          BY <3>1, RedrawAsked
        <4>. QED BY <4>1, Zenon
      <3>2. CASE d = c BY <3>2, Zenon
      <3>. QED BY <2>1, <3>1, <3>2
    <2>3. d.win \in WindowState /\ CursorOK(d.win) BY <2>2 DEF ContextOK
    <2>4. WindowsOK' /\ win'[w] = d.win /\ \A v \in Windows : v # w => win'[v] = win[v]
      BY <2>1, <2>3, WindowReplaced
    <2>5. ASSUME NEW v \in open, win'[v].requested_redraw
          PROVE  v \in redraw' \/ win[v].requested_redraw
      <3>0. v \in Windows BY DEF LoopInv, ControlOK
      <3>1. CASE v = w
        <4>1. d.redraw \/ win[w].requested_redraw BY <2>2, <2>4, <2>5, <3>1, Zenon
        <4>. QED BY <2>1, <3>1, <4>1
      <3>2. CASE v # w BY <2>4, <2>5, <3>0, <3>2, Zenon
      <3>. QED BY <3>1, <3>2
    <2>6. redraw' \in SUBSET open /\ redraw \subseteq redraw' BY <1>1, <1>2, <2>1
    <2>. QED BY <1>2, <2>2, <2>4, <2>5, <2>6, Zenon
  <1>3. CASE w \notin open
    <2>1. win' = win /\ redraw' = redraw BY <1>3 DEF Immediately
    <2>. QED BY <1>1, <1>3, <2>1 DEF LoopInv, WindowsOK, CursorOK
  <1>. QED BY <1>2, <1>3

(* Wakeup *)
LEMMA WakeupKeeps ==
    ASSUME LoopInv, Wakeup PROVE LoopInv'
  <1>1. /\ NextUserEvent("Wakeup") /\ timers' = timers /\ open' = open /\ exiting' = exiting
    BY DEF Wakeup
  <1>2. PICK w : w = Head(user_events).window OBVIOUS
  <1>3. /\ pc' = pc /\ todo' = todo /\ QueuesOK' /\ w \in Windows
        /\ \A v : FrameSent(user_events, v) => FrameSent(user_events', v)
    BY <1>1, <1>2, UserEventTaken
  <1>4. PICK c : c = [Context(w) EXCEPT !.win.dirty = TRUE] OBVIOUS
  <1>5. Immediately(w, c, win[w].has_frame) BY <1>2, <1>4, Zenon DEF Wakeup
  <1>7. /\ WindowsOK' /\ redraw' \in SUBSET open /\ redraw \subseteq redraw'
        /\ \A v \in Windows : win'[v].has_frame = win[v].has_frame
        /\ \A v \in open : win'[v].requested_redraw => v \in redraw' \/ win[v].requested_redraw
    <2>1. CASE w \in open
      <3>1. PICK b : b = Context(w) OBVIOUS
      <3>2. /\ ContextOK(b, open) /\ b.win = win[w] /\ b.redraw = FALSE
        BY <2>1, <3>1, ContextOfWindow
      <3>3. PICK x : x = [b.win EXCEPT !.dirty = TRUE] OBVIOUS
      <3>4. b.win \in WindowState /\ CursorOK(b.win) BY <3>2 DEF ContextOK
      <3>5. /\ x \in WindowState /\ CursorOK(x) /\ x.has_frame = b.win.has_frame
            /\ x.requested_redraw = b.win.requested_redraw
        BY <3>3, <3>4 DEF WindowState, CursorOK
      <3>6. c = [b EXCEPT !.win = x] BY <1>4, <3>1, <3>3, Zenon
      <3>7. Handled(b, c, open) BY <3>2, <3>5, <3>6, WinChanged
      <3>8. /\ ContextOK(c, open) /\ c.redraw = FALSE /\ c.win.has_frame = win[w].has_frame
            /\ c.win.requested_redraw = win[w].requested_redraw
        BY <3>2, <3>7, Zenon DEF Handled
      <3>9. PICK h : h = win[w].has_frame OBVIOUS
      <3>10. h \in BOOLEAN BY <3>2, <3>4, <3>9 DEF WindowState
      <3>11. Immediately(w, c, h) BY <1>5, <3>9
      <3>. QED BY <1>3, <2>1, <3>8, <3>10, <3>11, ImmediatelyKeeps
    <2>2. CASE w \notin open
      <3>1. win' = win /\ redraw' = redraw BY <1>5, <2>2, Zenon DEF Immediately
      <3>. QED BY <3>1 DEF LoopInv, WindowsOK, ControlOK, CursorOK
    <2>. QED BY <2>1, <2>2
  <1>8. ControlOK' /\ open \in SUBSET Windows BY <1>1, <1>3, <1>7 DEF LoopInv, ControlOK
  <1>9. TimersOK(timers, open)' BY <1>1, TimersStay
  <1>. QED BY <1>1, <1>3, <1>7, <1>8, <1>9, StepKeeps

(* Frame: the window that loses its Frame event has got its frame. *)
LEMMA FrameKeeps ==
    ASSUME LoopInv, Frame PROVE LoopInv'
  <1>1. /\ NextUserEvent("Frame") /\ timers' = timers /\ open' = open /\ exiting' = exiting
    BY DEF Frame
  <1>2. PICK w : w = Head(user_events).window OBVIOUS
  <1>3. /\ pc' = pc /\ todo' = todo /\ QueuesOK' /\ w \in Windows
        /\ \A v : v # w /\ FrameSent(user_events, v) => FrameSent(user_events', v)
    BY <1>1, <1>2, UserEventTaken
  <1>4. PICK c : c = [Context(w) EXCEPT !.win.has_frame = TRUE] OBVIOUS
  <1>5. Immediately(w, c, win[w].dirty) BY <1>2, <1>4, Zenon DEF Frame
  <1>6. open \in SUBSET Windows BY DEF LoopInv, ControlOK
  <1>7. /\ WindowsOK' /\ redraw' \in SUBSET open /\ redraw \subseteq redraw'
        /\ \A v \in open : v # w => win'[v].has_frame = win[v].has_frame
        /\ \A v \in open : v = w => win'[v].has_frame
        /\ \A v \in open : win'[v].requested_redraw => v \in redraw' \/ win[v].requested_redraw
    <2>1. CASE w \in open
      <3>1. PICK b : b = Context(w) OBVIOUS
      <3>2. /\ ContextOK(b, open) /\ b.win = win[w] /\ b.redraw = FALSE
        BY <2>1, <3>1, ContextOfWindow
      <3>3. PICK x : x = [b.win EXCEPT !.has_frame = TRUE] OBVIOUS
      <3>4. b.win \in WindowState /\ CursorOK(b.win) BY <3>2 DEF ContextOK
      <3>5. /\ x \in WindowState /\ CursorOK(x) /\ x.has_frame = TRUE
            /\ x.requested_redraw = b.win.requested_redraw
        BY <3>3, <3>4 DEF WindowState, CursorOK
      <3>6. c = [b EXCEPT !.win = x] BY <1>4, <3>1, <3>3, Zenon
      <3>7. /\ b = [win |-> b.win, timers |-> b.timers, sent |-> b.sent, redraw |-> b.redraw]
            /\ TimersOK(b.timers, open) /\ b.sent \in Seq(UserEvent) /\ b.redraw \in BOOLEAN
        BY <3>2 DEF ContextOK
      <3>8. c = [win |-> x, timers |-> b.timers, sent |-> b.sent, redraw |-> b.redraw]
        BY <3>6, <3>7
      <3>9. ContextOK(c, open) /\ c.win = x /\ c.redraw = b.redraw
        BY <3>5, <3>7, <3>8, ContextMade
      <3>10. /\ ContextOK(c, open) /\ c.redraw = FALSE /\ c.win.has_frame
             /\ c.win.requested_redraw = win[w].requested_redraw
        BY <3>2, <3>5, <3>9, Zenon
      <3>11. PICK h : h = win[w].dirty OBVIOUS
      <3>12. h \in BOOLEAN BY <3>2, <3>4, <3>11 DEF WindowState
      <3>13. Immediately(w, c, h) BY <1>5, <3>11
      <3>14. /\ WindowsOK' /\ redraw' \in SUBSET open /\ redraw \subseteq redraw'
             /\ \A v \in Windows : v # w => win'[v] = win[v]
             /\ win'[w].has_frame = c.win.has_frame
             /\ \A v \in open : win'[v].requested_redraw => v \in redraw' \/ win[v].requested_redraw
        BY <1>3, <2>1, <3>10, <3>12, <3>13, ImmediatelyKeeps
      <3>15. ASSUME NEW v \in open
             PROVE  /\ v # w => win'[v].has_frame = win[v].has_frame
                    /\ v = w => win'[v].has_frame
        BY <1>6, <3>10, <3>14
      <3>. QED BY <3>14, <3>15, Zenon
    <2>2. CASE w \notin open
      <3>1. win' = win /\ redraw' = redraw BY <1>5, <2>2, Zenon DEF Immediately
      <3>2. \A v \in open : v # w BY <2>2
      <3>. QED BY <3>1, <3>2 DEF LoopInv, WindowsOK, ControlOK, CursorOK
    <2>. QED BY <2>1, <2>2
  <1>8. ControlOK' BY <1>1, <1>3, <1>7 DEF LoopInv, ControlOK
  <1>9. TimersOK(timers, open)' BY <1>1, TimersStay
  <1>10. \A v \in open' : FrameSent(user_events, v) => win'[v].has_frame \/ FrameSent(user_events', v)
    BY <1>1, <1>3, <1>7, Zenon
  <1>11. \A v \in open' : ~win'[v].has_frame => ~win[v].has_frame
    BY <1>1, <1>7, Zenon
  <1>. QED BY <1>1, <1>3, <1>7, <1>8, <1>9, <1>10, <1>11, StepKeeps

(* Exit: with the window go its timers and its redraw. *)
LEMMA ExitKeeps ==
    ASSUME LoopInv, Exit PROVE LoopInv'
  <1>1. NextUserEvent("Exit") /\ win' = win BY DEF Exit
  <1>2. PICK w : w = Head(user_events).window OBVIOUS
  <1>3. /\ pc = "dispatch" /\ pc' = pc /\ todo' = todo /\ todo = {} /\ QueuesOK'
        /\ \A v : FrameSent(user_events, v) => FrameSent(user_events', v)
    BY <1>1, UserEventTaken
  <1>4. WindowsOK' BY <1>1 DEF LoopInv, WindowsOK, CursorOK
  <1>5. CASE UNCHANGED <<open, timers, redraw, exiting>>
    <2>1. ControlOK' BY <1>3, <1>5 DEF LoopInv, ControlOK
    <2>2. TimersOK(timers, open)' BY <1>5, TimersStay
    <2>. QED BY <1>1, <1>3, <1>4, <1>5, <2>1, <2>2, StepKeeps
  <1>6. CASE /\ open' = open \ {w} /\ timers' = unschedule_window(timers, w)
             /\ redraw' = redraw \ {w} /\ exiting' \in BOOLEAN
    <2>1. ControlOK' BY <1>3, <1>6 DEF LoopInv, ControlOK
    <2>2. TimersOK(timers, open) BY DEF LoopInv
    <2>3. PICK T, O : T = timers' /\ O = open' OBVIOUS
    <2>4. TimersOK(T, O) /\ \A i : i.window # w /\ scheduled(timers, i) => scheduled(T, i)
      BY <1>6, <2>2, <2>3, RetainKeeps
    <2>5. TimersOK(timers, open)' BY <2>3, <2>4 DEF TimersOK, Sorted, Unique
    <2>6. \A v \in open' : scheduled(timers, TimerId("Frame", v)) => scheduled(timers', TimerId("Frame", v))
      <3>1. \A v \in open' : TimerId("Frame", v).window # w BY <1>6 DEF TimerId
      <3>. QED BY <2>3, <2>4, <3>1, Zenon
    <2>7. \A v \in open' : v \in redraw => v \in redraw' BY <1>6
    <2>. QED BY <1>1, <1>3, <1>4, <1>6, <2>1, <2>5, <2>6, <2>7, StepKeeps
  <1>7. exiting' \in BOOLEAN \/ UNCHANGED <<open, timers, redraw, exiting>>
    BY Zenon DEF Exit
  <1>. QED BY <1>2, <1>5, <1>6, <1>7 DEF Exit

(* about_to_wait *)
LEMMA WaitKeeps ==
    ASSUME LoopInv, about_to_wait PROVE LoopInv'
  <1>1. /\ pc' = "about_to_wait" /\ todo' = open
        /\ UNCHANGED <<timers, open, win, exiting, redraw, user_events, os_events>>
    BY DEF about_to_wait, outVars
  <1>2. ControlOK' BY <1>1 DEF LoopInv, ControlOK
  <1>3. TimersOK(timers, open)' BY <1>1, TimersStay
  <1>4. WindowsOK' /\ QueuesOK' BY <1>1 DEF LoopInv, WindowsOK, QueuesOK, CursorOK
  <1>. QED BY <1>1, <1>2, <1>3, <1>4, StepKeeps

(* The timers that are due send their events. *)
LEMMA TimersUpdated ==
    ASSUME LoopInv, UpdateTimers PROVE LoopInv'
  <1>1. /\ timers' = update(timers).timers /\ user_events' = user_events \o update(timers).events
        /\ pc' = "dispatch" /\ todo = {}
        /\ UNCHANGED <<open, win, exiting, todo, redraw, os_events>>
    BY DEF UpdateTimers, outVars
  <1>2. PICK T, q : T = update(timers).timers /\ q = update(timers).events OBVIOUS
  <1>3. TimersOK(timers, open) /\ user_events \in Seq(UserEvent) BY DEF LoopInv, QueuesOK
  <1>4. /\ TimersOK(T, open) /\ q \in Seq(UserEvent)
        /\ \A v : scheduled(timers, TimerId("Frame", v)) =>
                     scheduled(T, TimerId("Frame", v)) \/ FrameSent(q, v)
    BY <1>2, <1>3, UpdateKeeps, Zenon DEF FrameSent
  <1>5. timers' = T /\ user_events' = user_events \o q BY <1>1, <1>2, Zenon
  <1>6. /\ user_events' \in Seq(UserEvent)
        /\ \A v : FrameSent(user_events, v) => FrameSent(user_events', v)
        /\ \A v : FrameSent(q, v) => FrameSent(user_events', v)
    BY <1>3, <1>4, <1>5, FrameSentConcat
  <1>7. ControlOK' BY <1>1 DEF LoopInv, ControlOK
  <1>8. TimersOK(timers, open)' BY <1>1, <1>4, <1>5 DEF TimersOK, Sorted, Unique
  <1>9. WindowsOK' /\ QueuesOK' BY <1>1, <1>6 DEF LoopInv, WindowsOK, QueuesOK, CursorOK
  <1>10. \A v \in open' : scheduled(timers, TimerId("Frame", v)) =>
              scheduled(timers', TimerId("Frame", v)) \/ FrameSent(user_events', v)
    BY <1>4, <1>5, <1>6, Zenon
  <1>. QED BY <1>1, <1>6, <1>7, <1>8, <1>9, <1>10, StepKeeps

(* A tick. *)
LEMMA TickKeeps ==
    ASSUME LoopInv, Tick PROVE LoopInv'
  <1>1. /\ timers' = elapse(timers) /\ win' = [w \in Windows |-> Elapsed(win[w])]
        /\ UNCHANGED <<open, exiting, pc, todo, redraw, user_events, os_events>>
    BY DEF Tick, outVars
  <1>2. PICK T : T = elapse(timers) OBVIOUS
  <1>3. TimersOK(timers, open) BY DEF LoopInv
  <1>4. TimersOK(T, open) /\ \A i : scheduled(T, i) <=> scheduled(timers, i)
    BY <1>2, <1>3, ElapseKeeps
  <1>5. TimersOK(timers, open)' BY <1>1, <1>2, <1>4 DEF TimersOK, Sorted, Unique
  <1>6. ASSUME NEW v \in Windows
        PROVE  /\ win'[v] \in WindowState /\ CursorOK(win'[v])
               /\ win'[v].has_frame = win[v].has_frame
               /\ win'[v].requested_redraw = win[v].requested_redraw
    <2>1. win[v] \in WindowState /\ CursorOK(win[v]) BY DEF LoopInv, WindowsOK
    <2>2. win'[v] = Elapsed(win[v]) BY <1>1
    <2>. QED BY <2>1, <2>2, TickPasses, Zenon
  <1>7. WindowsOK'
    <2>1. win' = [v \in Windows |-> win'[v]] BY <1>1
    <2>2. win' \in [Windows -> WindowState] BY <1>6, <2>1
    <2>. QED BY <1>6, <2>2 DEF WindowsOK, CursorOK
  <1>8. ControlOK' /\ QueuesOK' /\ open \in SUBSET Windows
    BY <1>1 DEF LoopInv, ControlOK, QueuesOK
  <1>9. \A v : scheduled(timers, TimerId("Frame", v)) => scheduled(timers', TimerId("Frame", v))
    BY <1>1, <1>2, <1>4, Zenon
  <1>. QED BY <1>1, <1>5, <1>6, <1>7, <1>8, <1>9, StepKeeps

(* An event of the desktop. *)
LEMMA DesktopKeeps ==
    ASSUME LoopInv, NEW kind, NEW e \in OsEvent, DesktopEvent(kind, e)
    PROVE  LoopInv'
  <1>1. /\ os_events' = Append(os_events, e)
        /\ UNCHANGED <<timers, open, win, exiting, pc, todo, redraw, user_events>>
    BY DEF DesktopEvent, Deliver
  <1>2. os_events' \in Seq(OsEvent)
    <2>1. os_events \in Seq(OsEvent) BY DEF LoopInv, QueuesOK
    <2>. HIDE DEF OsEvent
    <2>. QED BY <1>1, <2>1, AppendProperties
  <1>3. ControlOK' /\ WindowsOK' /\ QueuesOK' /\ TimersOK(timers, open)'
    BY <1>1, <1>2 DEF LoopInv, ControlOK, WindowsOK, QueuesOK, CursorOK, TimersOK, Sorted, Unique
  <1>. QED BY <1>1, <1>3, StepKeeps

(* A redraw that the desktop wants. *)
LEMMA ExposeKeeps ==
    ASSUME LoopInv, NEW w \in open, Expose(w)
    PROVE  LoopInv'
  <1>1. /\ redraw' = redraw \cup {w}
        /\ UNCHANGED <<timers, open, win, exiting, pc, todo, os_events, user_events>>
    BY DEF Expose, Deliver
  <1>2. ControlOK' /\ WindowsOK' /\ QueuesOK' /\ TimersOK(timers, open)'
    BY <1>1 DEF LoopInv, ControlOK, WindowsOK, QueuesOK, CursorOK, TimersOK, Sorted, Unique
  <1>. QED BY <1>1, <1>2, StepKeeps

(* Events of the PTY thread. *)
LEMMA TerminalKeeps ==
    ASSUME LoopInv, NEW w, NEW kind, NEW types, TerminalEvents(w, kind, types),
           [k \in DOMAIN types |-> Event(types[k], w)] \in Seq(UserEvent)
    PROVE  LoopInv'
  <1>1. PICK q \in Seq(UserEvent) : q = [k \in DOMAIN types |-> Event(types[k], w)] OBVIOUS
  <1>2. /\ user_events' = user_events \o q
        /\ UNCHANGED <<timers, open, win, exiting, pc, todo, os_events, redraw>>
    BY <1>1 DEF TerminalEvents, Deliver
  <1>3. user_events \in Seq(UserEvent) BY DEF LoopInv, QueuesOK
  <1>4. /\ user_events' \in Seq(UserEvent)
        /\ \A v : FrameSent(user_events, v) => FrameSent(user_events', v)
    BY <1>2, <1>3, FrameSentConcat
  <1>5. ControlOK' /\ WindowsOK' /\ QueuesOK' /\ TimersOK(timers, open)'
    BY <1>2, <1>4 DEF LoopInv, ControlOK, WindowsOK, QueuesOK, CursorOK, TimersOK, Sorted, Unique
  <1>. QED BY <1>2, <1>4, <1>5, StepKeeps

(* Everything that comes from outside. *)
LEMMA OutsideKeeps ==
    ASSUME LoopInv, Outside PROVE LoopInv'
  <1>1. open \in SUBSET Windows BY DEF LoopInv, ControlOK
  <1>2. ASSUME NEW w \in open, NEW size \in Sizes, Resizing(w, size) PROVE LoopInv'
    <2>1. PICK e \in OsEvent : e = [type |-> "Resized", window |-> w, size |-> size]
      BY <1>1 DEF OsEvent
    <2>. QED BY <1>2, <2>1, DesktopKeeps DEF Resizing
  <1>3. ASSUME NEW w \in open, NEW kind \in {"Focused", "Occluded"}, NEW on \in BOOLEAN,
               Switching(w, kind, on)
        PROVE  LoopInv'
    <2>1. PICK e \in OsEvent : e = [type |-> kind, window |-> w, on |-> on]
      BY <1>1 DEF OsEvent
    <2>. QED BY <1>3, <2>1, DesktopKeeps DEF Switching
  <1>4. ASSUME NEW w \in open, NEW kind \in {"Key", "CloseRequested"}, Input(w, kind)
        PROVE  LoopInv'
    <2>1. PICK e \in OsEvent : e = Event(kind, w) BY <1>1 DEF OsEvent, Event
    <2>. QED BY <1>4, <2>1, DesktopKeeps DEF Input
  <1>5. ASSUME NEW w \in open, Expose(w) PROVE LoopInv' BY <1>5, ExposeKeeps
  <1>6. ASSUME NEW w \in open,
               NEW types \in {<<"Wakeup">>, <<"Bell", "Wakeup">>}, Output(w, types)
        PROVE  LoopInv'
    <2>1. TerminalEvents(w, "Output", types) BY <1>6 DEF Output
    <2>2. [k \in DOMAIN types |-> Event(types[k], w)] \in Seq(UserEvent)
      <3>1. w \in Windows BY <1>1
      <3>2. /\ [k \in DOMAIN <<"Wakeup">> |-> Event(<<"Wakeup">>[k], w)] \in Seq(UserEvent)
            /\ [k \in DOMAIN <<"Bell", "Wakeup">> |-> Event(<<"Bell", "Wakeup">>[k], w)]
                  \in Seq(UserEvent)
        <4>1. PICK s, t : s = "Wakeup" /\ t = "Bell" OBVIOUS
        <4>2. {s, t} \subseteq {"Wakeup", "Exit", "Bell", "CursorBlinkingChange"} BY <4>1
        <4>3. /\ [k \in DOMAIN <<s>> |-> Event(<<s>>[k], w)] \in Seq(UserEvent)
              /\ [k \in DOMAIN <<t, s>> |-> Event(<<t, s>>[k], w)] \in Seq(UserEvent)
          BY <3>1, <4>2, SeqOfTwo
        <4>. QED BY <4>1, <4>3, Zenon
      <3>. QED BY <3>2, Zenon
    <2>. QED BY <2>1, <2>2, TerminalKeeps
  <1>7. ASSUME NEW w \in open, CursorStyle(w) PROVE LoopInv'
    <2>1. PICK s, t : s = "CursorBlinkingChange" /\ t = "Wakeup" OBVIOUS
    <2>2. {s, t} \subseteq {"Wakeup", "Exit", "Bell", "CursorBlinkingChange"} BY <2>1
    <2>3. [k \in DOMAIN <<s, t>> |-> Event(<<s, t>>[k], w)] \in Seq(UserEvent)
      BY <1>1, <2>2, SeqOfTwo
    <2>4. TerminalEvents(w, "CursorStyle", <<s, t>>) BY <1>7, <2>1, Zenon DEF CursorStyle
    <2>. QED BY <2>3, <2>4, TerminalKeeps
  <1>8. ASSUME NEW w \in open, ChildExit(w) PROVE LoopInv'
    <2>1. PICK s, t : s = "Exit" /\ t = "Wakeup" OBVIOUS
    <2>2. {s, t} \subseteq {"Wakeup", "Exit", "Bell", "CursorBlinkingChange"} BY <2>1
    <2>3. [k \in DOMAIN <<s, t>> |-> Event(<<s, t>>[k], w)] \in Seq(UserEvent)
      BY <1>1, <2>2, SeqOfTwo
    <2>4. TerminalEvents(w, "ChildExit", <<s, t>>) BY <1>8, <2>1, Zenon DEF ChildExit
    <2>. QED BY <2>3, <2>4, TerminalKeeps
  <1>. QED BY <1>2, <1>3, <1>4, <1>5, <1>6, <1>7, <1>8, Zenon DEF Outside

(* Stuttering. *)
LEMMA UnchangedKeeps == LoopInv /\ UNCHANGED vars => LoopInv'
  <1>. SUFFICES ASSUME LoopInv, UNCHANGED vars PROVE LoopInv' OBVIOUS
  <1>1. UNCHANGED <<timers, open, win, exiting, pc, todo, os_events, redraw, user_events>>
    BY DEF vars, loopVars, outVars
  <1>2. ControlOK' /\ WindowsOK' /\ QueuesOK' /\ TimersOK(timers, open)'
    BY <1>1 DEF LoopInv, ControlOK, WindowsOK, QueuesOK, CursorOK, TimersOK, Sorted, Unique
  <1>. QED BY <1>1, <1>2, StepKeeps

(* The invariant of the window thread. *)
LEMMA LoopInvariant == Spec => []LoopInv
  <1>1. LoopInv /\ [Next]_vars => LoopInv'
    <2>. SUFFICES ASSUME LoopInv, Next PROVE LoopInv' BY UnchangedKeeps
    <2>1. CASE Outside BY <2>1, OutsideKeeps
    <2>2. CASE Tick BY <2>2, TickKeeps
    <2>3. CASE window_event BY <2>3, WindowEventKeeps
    <2>4. CASE \E w \in Windows : RedrawRequested(w) BY <2>4, WindowRedrawn, Zenon
    <2>5. CASE user_event
      <3>1. CASE Wakeup BY <3>1, WakeupKeeps
      <3>2. CASE Frame BY <3>2, FrameKeeps
      <3>3. CASE Exit BY <3>3, ExitKeeps
      <3>4. CASE \E type \in {"Resize", "Bell", "BlinkCursor", "BlinkCursorTimeout",
                              "CursorBlinkingChange"} : StageUserEvent(type)
        BY <3>4, StageKeeps, Zenon
      <3>. QED BY <2>5, <3>1, <3>2, <3>3, <3>4, Zenon DEF user_event
    <2>6. CASE about_to_wait BY <2>6, WaitKeeps
    <2>7. CASE \E w \in Windows : HandleStaged(w) BY <2>7, StagedHandled, Zenon
    <2>8. CASE UpdateTimers BY <2>8, TimersUpdated
    <2>. QED BY <2>1, <2>2, <2>3, <2>4, <2>5, <2>6, <2>7, <2>8, Zenon DEF Next, Loop
  <1>. QED BY <1>1, InitOK, PTL DEF Spec

(* Scheduler::update may look only at the front of its queue, no timer outlives its
   window (Scheduler::unschedule_window) and the blink, timeout and debounce timers
   never pile up, in every reachable state. *)
THEOREM TimersNeverOutliveWindows == Spec => []TimersSound
  <1>1. LoopInv => TimersSound
    <2>. SUFFICES ASSUME LoopInv PROVE TimersSound OBVIOUS
    <2>1. timers \in Seq(Timer(open)) /\ Sorted(timers) /\ Unique(timers)
      BY DEF LoopInv, TimersOK
    <2>2. TimersSorted BY <2>1, Zenon DEF TimersSorted, Sorted
    <2>3. ASSUME NEW k \in DOMAIN timers PROVE timers[k].id.window \in open
      <3>1. timers[k].id \in Ids(open) BY <2>1, TimerFields
      <3>. QED BY <3>1 DEF Ids
    <2>. QED BY <2>1, <2>2, <2>3, Zenon DEF TimersSound, TimersOwned, Unique
  <1>. QED BY <1>1, LoopInvariant, PTL

(* No window waits for ever for the frame that Display::request_frame asked for, and
   none believes in a redraw that winit does not owe (Window::request_redraw), in every
   reachable state. *)
THEOREM NoFrameIsLost == Spec => []FramesOwed
  <1>1. LoopInv => FramesOwed
    <2>. SUFFICES ASSUME LoopInv PROVE FramesOwed OBVIOUS
    <2>1. ASSUME NEW w, FrameSent(user_events, w) PROVE Queued(w, "Frame")
      <3>1. PICK k \in DOMAIN user_events : user_events[k] = Event("Frame", w)
        BY <2>1, Zenon DEF FrameSent
      <3>2. user_events[k].type = "Frame" /\ user_events[k].window = w BY <3>1 DEF Event
      <3>. QED BY <3>2, Zenon DEF Queued
    <2>. QED BY <2>1, Zenon DEF LoopInv, FramesComing, RedrawsOwed, FramesOwed, FrameComing, RedrawOwed
  <1>. QED BY <1>1, LoopInvariant, PTL

(* A BlinkCursor event that comes after BlinkCursorTimeout never leaves the cursor
   hidden, in every reachable state. *)
THEOREM LateBlinkIgnored == Spec => []TimedOutCursorShown
  <1>1. LoopInv => TimedOutCursorShown
    BY DEF LoopInv, ControlOK, WindowsOK, CursorOK, TimedOutCursorShown
  <1>. QED BY <1>1, LoopInvariant, PTL

=============================================================================
