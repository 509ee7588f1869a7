---------------------------- MODULE PtyLoopProofs ----------------------------
(***************************************************************************)
(* The PTY event loop, for every output of the child, every list of inputs *)
(* and every buffer size. First the fair mutex between the PTY reader and  *)
(* the window thread: who holds which lock when, and that a waiting thread *)
(* is never overtaken. Then the two streams: what the child prints reaches *)
(* the screen once and in order, what the user types reaches the PTY once  *)
(* and in order, every variable keeps its type, and a synchronized update  *)
(* is cut short only by its timeout or after a message of the window.      *)
(*                                                                         *)
(* The inductive invariants are LockDiscipline itself, OutputInv (the      *)
(* numbered output in the parser, the read buffer and the kernel is a      *)
(* prefix of what was emitted, all of it while the child lives), InputInv  *)
(* (the bytes written, in progress, queued and in the channel are the      *)
(* bytes sent), FlagsInv and ControlInv (types), and TimeoutInv (where the *)
(* reader believes in a timeout there was one, or a message).              *)
(***************************************************************************)
EXTENDS PtyLoop, SequenceLaws

LEMMA ThreadsDistinct ==
    /\ Threads = {reader, ui} /\ reader # ui
    /\ Nobody # reader /\ Nobody # ui
  BY ThreadsAssumption, PtyAssumption DEF reader, ui

LEMMA InitLocks == Init => LockDiscipline
  BY ThreadsDistinct DEF Init, MutexInit, LockDiscipline

LEMMA ChildLocks == LockDiscipline /\ Child => LockDiscipline'
  BY DEF LockDiscipline, Child, mutexVars, pollVars, uiVars

LEMMA PollLocks ==
    ASSUME LockDiscipline,
           \/ PollWait \/ CheckTimeout \/ drain_recv_channel
           \/ ChildEvent \/ ReadWriteEvent \/ EventsHandled
    PROVE  LockDiscipline'
  <1>1. CASE PollWait
    BY <1>1 DEF PollWait, LockDiscipline, mutexVars, uiVars
  <1>2. CASE CheckTimeout
    BY <1>2 DEF CheckTimeout, LockDiscipline, mutexVars, uiVars
  <1>3. CASE RecvInput
    BY <1>3 DEF RecvInput, LockDiscipline, mutexVars, uiVars, pollVars
  <1>4. CASE RecvResize
    BY <1>4 DEF RecvResize, LockDiscipline, mutexVars, uiVars, pollVars
  <1>5. CASE RecvShutdown
    BY <1>5 DEF RecvShutdown, LockDiscipline, mutexVars, uiVars
  <1>6. CASE ChannelEmpty
    BY <1>6 DEF ChannelEmpty, LockDiscipline, mutexVars, uiVars
  <1>7. CASE ChildEvent
    BY <1>7 DEF ChildEvent, LockDiscipline, mutexVars, uiVars
  <1>8. CASE ReadWriteEvent
    BY <1>8 DEF ReadWriteEvent, LockDiscipline, mutexVars, uiVars
  <1>9. CASE EventsHandled
    BY <1>9 DEF EventsHandled, LockDiscipline, mutexVars, uiVars
  <1>. QED
    BY <1>1, <1>2, <1>3, <1>4, <1>5, <1>6, <1>7, <1>8, <1>9 DEF drain_recv_channel

(* The two places where the reader locks the terminal for one statement. *)
LEMMA StatementLocks ==
    ASSUME LockDiscipline, StopSyncNext \/ StopSync \/ ExitNext \/ Exit
    PROVE  LockDiscipline'
  <1>1. CASE StopSyncNext
    BY <1>1, ThreadsDistinct DEF StopSyncNext, lock_next, lease, LockDiscipline, uiVars
  <1>2. CASE StopSync
    BY <1>2, ThreadsDistinct DEF StopSync, LockDiscipline, uiVars
  <1>3. CASE ExitNext
    BY <1>3, ThreadsDistinct DEF ExitNext, lock_next, lease, LockDiscipline, uiVars
  <1>4. CASE Exit
    BY <1>4, ThreadsDistinct DEF Exit, LockDiscipline, uiVars
  <1>. QED BY <1>1, <1>2, <1>3, <1>4

LEMMA ReadLocks == LockDiscipline /\ pty_read => LockDiscipline'
  <1>. SUFFICES ASSUME LockDiscipline, pty_read PROVE LockDiscipline'
    OBVIOUS
  <1>1. CASE Lease
    BY <1>1, ThreadsDistinct DEF Lease, lease, LockDiscipline, uiVars
  <1>2. CASE ReadSome
    BY <1>2 DEF ReadSome, LockDiscipline, mutexVars, uiVars
  <1>3. CASE ReadWouldBlock
    BY <1>3 DEF ReadWouldBlock, LockDiscipline, mutexVars, uiVars
  <1>4. CASE ReadError
    BY <1>4, ThreadsDistinct DEF ReadError, drop_lease, LockDiscipline, uiVars
  <1>5. CASE TryLock
    BY <1>5, ThreadsDistinct DEF TryLock, lock_unfair, LockDiscipline, mutexVars, uiVars
  <1>6. CASE ForceLock
    BY <1>6, ThreadsDistinct DEF ForceLock, lock_unfair, LockDiscipline, uiVars
  <1>7. CASE Parse
    BY <1>7 DEF Parse, LockDiscipline, mutexVars, uiVars
  <1>8. CASE FinishRead
    <2>1. pc' \in {"exit_next", "write", "events"}
      BY <1>8 DEF FinishRead
    <2>. QED BY <1>8, <2>1, ThreadsDistinct DEF FinishRead, drop_lease, LockDiscipline, uiVars
  <1>. QED BY <1>1, <1>2, <1>3, <1>4, <1>5, <1>6, <1>7, <1>8 DEF pty_read

LEMMA WriteLocks == LockDiscipline /\ pty_write => LockDiscipline'
  <1>. SUFFICES ASSUME LockDiscipline, pty_write PROVE LockDiscipline'
    OBVIOUS
  <1>1. CASE WriteSome
    BY <1>1 DEF WriteSome, LockDiscipline, mutexVars, pollVars, uiVars
  <1>2. CASE WriteWouldBlock
    BY <1>2 DEF WriteWouldBlock, LockDiscipline, mutexVars, uiVars
  <1>3. CASE WriteError
    BY <1>3 DEF WriteError, LockDiscipline, mutexVars, uiVars
  <1>4. CASE WriteDone
    BY <1>4 DEF WriteDone, LockDiscipline, mutexVars, uiVars
  <1>. QED BY <1>1, <1>2, <1>3, <1>4 DEF pty_write

LEMMA WindowLocks == LockDiscipline /\ Window => LockDiscipline'
  <1>. SUFFICES ASSUME LockDiscipline, Window PROVE LockDiscipline'
    OBVIOUS
  <1>0. pc' = pc BY DEF Window, pollVars
  <1>1. CASE SendInput
    BY <1>0, <1>1 DEF SendInput, Send, LockDiscipline, mutexVars
  <1>2. CASE SendResize
    BY <1>0, <1>2 DEF SendResize, Send, LockDiscipline, mutexVars
  <1>3. CASE CloseWindow
    BY <1>0, <1>3 DEF CloseWindow, Send, LockDiscipline, mutexVars
  <1>4. CASE Notify
    BY <1>0, <1>4 DEF Notify, LockDiscipline, mutexVars
  <1>5. CASE UiLockNext
    BY <1>0, <1>5, ThreadsDistinct DEF UiLockNext, lock_next, lease, LockDiscipline
  <1>6. CASE UiLockData
    BY <1>0, <1>6, ThreadsDistinct DEF UiLockData, lock_data, LockDiscipline
  <1>7. CASE UiUnlock
    BY <1>0, <1>7, ThreadsDistinct DEF UiUnlock, unlock, LockDiscipline
  <1>. QED BY <1>1, <1>2, <1>3, <1>4, <1>5, <1>6, <1>7 DEF Window

LEMMA NextLocks == LockDiscipline /\ [Next]_vars => LockDiscipline'
  <1>1. LockDiscipline /\ EventLoop => LockDiscipline'
    BY PollLocks, StatementLocks, ReadLocks, WriteLocks DEF EventLoop
  <1>2. LockDiscipline /\ UNCHANGED vars => LockDiscipline'
    BY DEF LockDiscipline, vars, mutexVars, pollVars, uiVars
  <1>. QED BY <1>1, <1>2, ChildLocks, WindowLocks DEF Next

(* The locks of the reader and of the window thread are where the code says,
   in every reachable state and for every child, input and buffer size. *)
THEOREM LocksDisciplined == Spec => []LockDiscipline
  BY InitLocks, NextLocks, PTL DEF Spec

(* No step gives the terminal to a thread while another one is next. *)
LEMMA StepKeepsWaiter ==
    ASSUME LockDiscipline, [Next]_vars, NEW t \in Threads, next = t
    PROVE  data' \in {data, Nobody, t}
  <1>1. CASE Child BY <1>1 DEF Child, mutexVars
  <1>2. CASE UNCHANGED vars BY <1>2 DEF vars, mutexVars
  <1>3. CASE Window
    <2>1. CASE UNCHANGED mutexVars BY <2>1 DEF mutexVars
    <2>2. CASE UiLockNext BY <2>2 DEF UiLockNext, lock_next, lease
    <2>3. CASE UiLockData BY <2>3 DEF UiLockData, lock_data
    <2>4. CASE UiUnlock BY <2>4 DEF UiUnlock, unlock
    <2>. QED BY <1>3, <2>1, <2>2, <2>3, <2>4
              DEF Window, SendInput, SendResize, CloseWindow, Notify
  <1>4. CASE EventLoop
    <2>1. CASE UNCHANGED mutexVars BY <2>1 DEF mutexVars
    <2>2. CASE StopSyncNext \/ ExitNext \/ Lease
      BY <2>2 DEF StopSyncNext, ExitNext, Lease, lock_next, lease
    <2>3. CASE StopSync \/ Exit BY <2>3 DEF StopSync, Exit
    <2>4. CASE ReadError \/ FinishRead
      BY <2>4 DEF ReadError, FinishRead, drop_lease
    <2>5. CASE TryLock \/ ForceLock
      <3>1. next = reader BY <2>5 DEF LockDiscipline, TryLock, ForceLock
      <3>. QED BY <2>5, <3>1 DEF TryLock, ForceLock, lock_unfair, mutexVars
    <2>6. \/ UNCHANGED mutexVars \/ StopSyncNext \/ ExitNext \/ Lease \/ StopSync \/ Exit
          \/ ReadError \/ FinishRead \/ TryLock \/ ForceLock
      BY <1>4 DEF EventLoop, PollWait, CheckTimeout, drain_recv_channel, RecvInput,
                  RecvResize, RecvShutdown, ChannelEmpty, ChildEvent, ReadWriteEvent,
                  EventsHandled, pty_read, ReadSome, ReadWouldBlock, Parse, pty_write,
                  WriteSome, WriteWouldBlock, WriteError, WriteDone
    <2>. QED BY <2>1, <2>2, <2>3, <2>4, <2>5, <2>6
  <1>. QED BY <1>1, <1>2, <1>3, <1>4 DEF Next

(* The mutex is fair between the two threads: once a thread has reserved `next`,
   by lock() or by a lease, the other one cannot lock the terminal again before
   it, although the reader locks with the unfair functions. *)
THEOREM FairBetweenThreads == Spec => WaiterIsNext
  <1>1. LockDiscipline /\ [Next]_vars
          => [\A t \in Threads : next = t => data' \in {data, Nobody, t}]_vars
    BY StepKeepsWaiter
  <1>. QED BY <1>1, LocksDisciplined, PTL DEF Spec, WaiterIsNext

-----------------------------------------------------------------------------
(* The streams *)

(* The step of the fold in advance: one item of what was read, parsed by parser p. *)
advance_step(w, p, item) == advance_one(p, item)
F == INSTANCE FoldLaws WITH op <- advance_step

-----------------------------------------------------------------------------
(* The output *)

(* The first n items, in order. *)
Upto(n) == [k \in 1..n |-> k]
(* The output between the child and the screen: parsed, held back, read, in the kernel. *)
Seen == screen \o sync_buf \o buf \o tty

(* The state of the parser: outside of an update nothing is held back. *)
Parser == [syncing : BOOLEAN, sync_buf : Seq(Nat), screen : Seq(Nat)]
ParserOK(p) == p \in Parser /\ (~p.syncing => p.sync_buf = <<>>)

(* One item through the parser: it is appended to what was parsed or held back, and
   nothing else changes place. *)
LEMMA AdvanceOne ==
    ASSUME NEW p, ParserOK(p), NEW item \in Nat
    PROVE  /\ ParserOK(advance_one(p, item))
           /\ advance_one(p, item).screen \o advance_one(p, item).sync_buf
                = Append(p.screen \o p.sync_buf, item)
  <1>0. PICK a \in BOOLEAN, b \in Seq(Nat), c \in Seq(Nat) :
           p = [syncing |-> a, sync_buf |-> b, screen |-> c]
    BY DEF ParserOK, Parser
  <1>1. p.syncing = a /\ p.sync_buf = b /\ p.screen = c /\ (~a => b = <<>>)
    BY <1>0 DEF ParserOK
  <1>2. CASE ~a
    <2>1. advance_one(p, item)
            = [syncing |-> (script[item] = "begin"), sync_buf |-> b, screen |-> Append(c, item)]
      BY <1>0, <1>1, <1>2, Zenon DEF advance_one
    <2>2. PICK d \in BOOLEAN : d = (script[item] = "begin") OBVIOUS
    <2>. QED BY <1>1, <1>2, <2>1, <2>2 DEF ParserOK, Parser
  <1>3. CASE a /\ script[item] = "end"
    <2>1. advance_one(p, item)
            = [syncing |-> FALSE, sync_buf |-> <<>>, screen |-> c \o Append(b, item)]
      BY <1>0, <1>1, <1>3, Zenon DEF advance_one
    <2>2. (c \o Append(b, item)) \o <<>> = Append(c \o b, item)
      OBVIOUS
    <2>. QED BY <1>1, <2>1, <2>2 DEF ParserOK, Parser
  <1>4. CASE a /\ script[item] # "end"
    <2>1. advance_one(p, item) = [syncing |-> a, sync_buf |-> Append(b, item), screen |-> c]
      BY <1>0, <1>1, <1>4, Zenon DEF advance_one
    <2>2. c \o Append(b, item) = Append(c \o b, item)
      OBVIOUS
    <2>. QED BY <1>1, <1>4, <2>1, <2>2 DEF ParserOK, Parser
  <1>. QED BY <1>2, <1>3, <1>4

(* A buffer through the parser: all items are taken, in order. *)
LEMMA Advance ==
    ASSUME NEW items \in Seq(Nat),
           screen \in Seq(Nat), sync_buf \in Seq(Nat), syncing \in BOOLEAN,
           ~syncing => sync_buf = <<>>
    PROVE  /\ ParserOK(advance(items))
           /\ advance(items).screen \o advance(items).sync_buf
                = (screen \o sync_buf) \o items
  <1>. DEFINE b == [syncing |-> syncing, sync_buf |-> sync_buf, screen |-> screen]
              n == Len(items)
  <1>1. n \in Nat /\ DOMAIN items = 1..n /\ \A k \in 1..n : items[k] \in Nat
    BY LenProperties
  <1>2. PICK p : p = F!Fold(0, b, items) OBVIOUS
  <1>a. advance(items) = p
    BY <1>2, Zenon DEF advance, advance_step, F!Fold, FoldLeft, MapThenFoldSet, Max,
                       F!FoldLeft, F!MapThenFoldSet, F!Max
  <1>3. PICK t : F!Steps(0, b, items, n, t, p)
    <2>. HIDE DEF b, n
    <2>. QED BY <1>1, <1>2, F!FoldTrace, Zenon
  <1>b. /\ t[0] = b
        /\ \A k \in 0..(n - 1) : t[k + 1] = advance_one(t[k], items[k + 1])
        /\ t[n] = p
    BY <1>3, Zenon DEF F!Steps, advance_step
  <1>4. ParserOK(b) /\ b.screen \o b.sync_buf = screen \o sync_buf
    BY DEF ParserOK, Parser
  <1>. HIDE DEF b
  <1>. DEFINE H == {k \in Nat : k \in 0..n =>
                       /\ ParserOK(t[k])
                       /\ t[k].screen \o t[k].sync_buf
                            = (screen \o sync_buf) \o SubSeq(items, 1, k)}
  <1>5. 0 \in H
    <2>1. SubSeq(items, 1, 0) = <<>> OBVIOUS
    <2>2. (screen \o sync_buf) \o <<>> = screen \o sync_buf OBVIOUS
    <2>. QED BY <1>b, <1>4, <2>1, <2>2
  <1>6. ASSUME NEW k \in Nat, k \in H PROVE k + 1 \in H
    <2>0. k + 1 \in Nat OBVIOUS
    <2>. SUFFICES ASSUME k + 1 \in 0..n
                  PROVE  /\ ParserOK(t[k + 1])
                         /\ t[k + 1].screen \o t[k + 1].sync_buf
                              = (screen \o sync_buf) \o SubSeq(items, 1, k + 1)
      BY <2>0, Zenon
    <2>1. k + 1 \in 1..n /\ k \in 0..n /\ k \in 0..(n - 1) BY <1>1
    <2>2. t[k + 1] = advance_one(t[k], items[k + 1]) BY <1>b, <2>1, Zenon
    <2>3. /\ ParserOK(t[k])
          /\ t[k].screen \o t[k].sync_buf = (screen \o sync_buf) \o SubSeq(items, 1, k)
      BY <1>6, <2>1
    <2>4. items[k + 1] \in Nat BY <1>1, <2>1
    <2>5. /\ ParserOK(t[k + 1])
          /\ t[k + 1].screen \o t[k + 1].sync_buf
               = Append((screen \o sync_buf) \o SubSeq(items, 1, k), items[k + 1])
      BY <2>2, <2>3, <2>4, AdvanceOne, Zenon
    <2>6. Append((screen \o sync_buf) \o SubSeq(items, 1, k), items[k + 1])
            = (screen \o sync_buf) \o SubSeq(items, 1, k + 1)
      <3>1. PICK old : old = screen \o sync_buf OBVIOUS
      <3>2. old \in Seq(Nat) BY <3>1, ConcatProperties
      <3>3. Append(old \o SubSeq(items, 1, k), items[k + 1]) = old \o SubSeq(items, 1, k + 1)
        <4>1. k \in 0..(Len(items) - 1) BY <1>1, <2>1
        <4>. QED BY <3>2, <4>1, AppendNext
      <3>. QED BY <3>1, <3>3
    <2>. QED BY <2>5, <2>6
  <1>7. n \in H
    <2>. HIDE DEF H
    <2>. QED BY <1>1, <1>5, <1>6, NatSetInduction
  <1>8. SubSeq(items, 1, n) = items OBVIOUS
  <1>9. n \in 0..n BY <1>1
  <1>. QED BY <1>a, <1>b, <1>7, <1>8, <1>9, Zenon

(* The next item behind the first n. *)
LEMMA UptoAppend ==
    ASSUME NEW n \in Nat
    PROVE  Append(Upto(n), n + 1) = Upto(n + 1)
  <1>1. Upto(n) \in Seq(Nat) /\ Len(Upto(n)) = n /\ Upto(n + 1) \in Seq(Nat)
        /\ Len(Upto(n + 1)) = n + 1
    BY DEF Upto
  <1>2. \A k \in 1..n : Upto(n)[k] = k /\ Upto(n + 1)[k] = k
    BY DEF Upto
  <1>3. Upto(n + 1)[n + 1] = n + 1
    BY DEF Upto
  <1>. QED BY <1>1, <1>2, <1>3

(* The first n items cut in two. *)
LEMMA UptoSplit ==
    ASSUME NEW n \in Nat, NEW x \in Seq(Nat), NEW y \in Seq(Nat), x \o y = Upto(n)
    PROVE  /\ x = Upto(Len(x)) /\ Len(x) + Len(y) = n
           /\ \A k \in 1..Len(y) : y[k] \in 1..n
  <1>1. Len(x \o y) = n /\ \A k \in 1..n : (x \o y)[k] = k
    BY DEF Upto
  <1>2. Len(x) \in Nat /\ Len(y) \in Nat /\ Len(x) + Len(y) = n
    BY <1>1
  <1>3. \A k \in 1..Len(x) : x[k] = k
    BY <1>1, <1>2
  <1>4. \A k \in 1..Len(y) : y[k] = Len(x) + k
    <2>. SUFFICES ASSUME NEW k \in 1..Len(y) PROVE y[k] = Len(x) + k
      OBVIOUS
    <2>1. Len(x) + k \in 1..n BY <1>2
    <2>2. (x \o y)[Len(x) + k] = y[k] BY <1>2
    <2>. QED BY <1>1, <2>1, <2>2
  <1>5. x = Upto(Len(x)) BY <1>3 DEF Upto
  <1>. QED BY <1>2, <1>4, <1>5

(* Inductive invariant of the output: the items are consecutive from the first on, and
   all of them are there while the child lives. *)
OutputInv ==
    /\ script \in Seq({"text", "begin", "end"})
    /\ emitted \in 0..Len(script)
    /\ exited \in BOOLEAN /\ syncing \in BOOLEAN
    /\ screen \in Seq(Nat) /\ sync_buf \in Seq(Nat) /\ buf \in Seq(Nat) /\ tty \in Seq(Nat)
    /\ Len(buf) <= READ_BUFFER_SIZE
    /\ ~syncing => sync_buf = <<>>
    /\ \E n \in 0..emitted : Seen = Upto(n) /\ (~exited => n = emitted)

outVars == <<script, emitted, exited, syncing, screen, sync_buf, buf, tty>>

(* The parts of the output are sequences of item numbers. *)
LEMMA SeenTypes ==
    OutputInv => /\ screen \o sync_buf \in Seq(Nat)
                 /\ screen \o sync_buf \o buf \in Seq(Nat)
                 /\ Seen \in Seq(Nat)
  <1>. SUFFICES ASSUME OutputInv
                PROVE  /\ screen \o sync_buf \in Seq(Nat)
                       /\ screen \o sync_buf \o buf \in Seq(Nat)
                       /\ Seen \in Seq(Nat)
    OBVIOUS
  <1>1. screen \in Seq(Nat) /\ sync_buf \in Seq(Nat) /\ buf \in Seq(Nat) /\ tty \in Seq(Nat)
    BY DEF OutputInv
  <1>2. screen \o sync_buf \in Seq(Nat) BY ONLY <1>1
  <1>3. screen \o sync_buf \o buf \in Seq(Nat) BY ONLY <1>1, <1>2
  <1>4. screen \o sync_buf \o buf \o tty \in Seq(Nat) BY ONLY <1>1, <1>3
  <1>. QED BY <1>2, <1>3, <1>4 DEF Seen

(* Nothing is printed at first. *)
LEMMA InitOutput == Init => OutputInv
  <1>. SUFFICES ASSUME Init PROVE OutputInv
    OBVIOUS
  <1>1. /\ script \in Seq({"text", "begin", "end"}) /\ emitted = 0 /\ exited = FALSE
        /\ syncing = FALSE /\ screen = <<>> /\ sync_buf = <<>> /\ buf = <<>> /\ tty = <<>>
    BY PtyAssumption DEF Init
  <1>2. Seen = Upto(0)
    BY <1>1 DEF Seen, Upto
  <1>3. emitted \in 0..Len(script) /\ 0 \in 0..emitted /\ Len(buf) <= READ_BUFFER_SIZE
    BY <1>1, PtyAssumption
  <1>4. screen \in Seq(Nat) /\ sync_buf \in Seq(Nat) /\ buf \in Seq(Nat) /\ tty \in Seq(Nat)
    BY <1>1
  <1>. QED BY <1>1, <1>2, <1>3, <1>4, Zenon DEF OutputInv

(* The child prints. *)
LEMMA EmitOutput == OutputInv /\ Emit /\ UNCHANGED parseVars => OutputInv'
  <1>. SUFFICES ASSUME OutputInv, Emit, UNCHANGED parseVars PROVE OutputInv'
    OBVIOUS
  <1>1. Seen = Upto(emitted) BY DEF OutputInv, Emit
  <1>2. /\ emitted \in Nat /\ emitted + 1 \in Nat /\ emitted + 1 \in 0..Len(script)
        /\ Append(tty, emitted + 1) \in Seq(Nat)
    BY DEF OutputInv, Emit
  <1>3. Seen' = Append(Seen, emitted + 1)
    <2>1. /\ screen' = screen /\ sync_buf' = sync_buf /\ buf' = buf
          /\ tty' = Append(tty, emitted + 1)
      BY DEF Emit, parseVars
    <2>2. PICK a : a = screen \o sync_buf \o buf
      OBVIOUS
    <2>3. a \in Seq(Nat) /\ tty \in Seq(Nat) /\ emitted + 1 \in Nat
      BY <1>2, <2>2, SeenTypes DEF OutputInv
    <2>4. a \o Append(tty, emitted + 1) = Append(a \o tty, emitted + 1)
      BY ONLY <2>3
    <2>. QED BY <2>1, <2>2, <2>4 DEF Seen
  <1>4. Seen' = Upto(emitted') /\ emitted' = emitted + 1
    BY <1>1, <1>2, <1>3, UptoAppend DEF Emit
  <1>5. UNCHANGED <<script, exited, buf, syncing, sync_buf, screen>>
    BY DEF Emit, parseVars
  <1>6. tty' \in Seq(Nat) BY <1>2 DEF Emit
  <1>7. emitted' \in 0..Len(script') /\ emitted' \in 0..emitted' BY <1>2, <1>4, <1>5
  <1>. QED BY <1>4, <1>5, <1>6, <1>7 DEF OutputInv

(* A read moves items from the kernel to the buffer. *)
LEMMA ReadSomeOutput == OutputInv /\ ReadSome => OutputInv'
  <1>. SUFFICES ASSUME OutputInv, ReadSome PROVE OutputInv'
    OBVIOUS
  <1>1. UNCHANGED <<script, emitted, exited, syncing, sync_buf, screen>>
    BY DEF ReadSome
  <1>2. PICK n \in 0..Len(tty) :
           /\ n + Len(buf) <= READ_BUFFER_SIZE
           /\ buf' = buf \o SubSeq(tty, 1, n)
           /\ tty' = SubSeq(tty, n + 1, Len(tty))
    BY DEF ReadSome
  <1>3. buf \in Seq(Nat) /\ tty \in Seq(Nat) /\ READ_BUFFER_SIZE \in Nat
    BY PtyAssumption DEF OutputInv
  <1>4. PICK x, y : x = SubSeq(tty, 1, n) /\ y = SubSeq(tty, n + 1, Len(tty))
    OBVIOUS
  <1>5. x \in Seq(Nat) /\ y \in Seq(Nat) /\ x \o y = tty /\ Len(x) = n
    BY <1>3, <1>4, SplitSeq
  <1>6. PICK a : a = screen \o sync_buf OBVIOUS
  <1>7. (a \o (buf \o x)) \o y = (a \o buf) \o (x \o y)
    <2>1. a \in Seq(Nat) /\ buf \in Seq(Nat) /\ x \in Seq(Nat) /\ y \in Seq(Nat)
      BY <1>3, <1>5, <1>6, SeenTypes
    <2>2. Cat(Cat(a, Cat(buf, x)), y) = Cat(Cat(a, buf), Cat(x, y))
      BY <2>1, CatMove
    <2>. QED BY <2>2, Zenon DEF Cat
  <1>8. Seen' = Seen
    BY <1>1, <1>2, <1>4, <1>5, <1>6, <1>7 DEF Seen
  <1>9. buf \o x \in Seq(Nat) /\ Len(buf \o x) = Len(buf) + n /\ Len(buf) \in Nat
    <2>1. buf \in Seq(Nat) /\ x \in Seq(Nat) /\ Len(x) = n BY <1>3, <1>5
    <2>. QED BY ONLY <2>1
  <1>10. buf' \in Seq(Nat) /\ tty' \in Seq(Nat) /\ Len(buf') = Len(buf) + n
    BY <1>2, <1>4, <1>5, <1>9, Zenon
  <1>11. Len(buf') <= READ_BUFFER_SIZE
    BY <1>2, <1>3, <1>9, <1>10
  <1>. QED BY <1>1, <1>8, <1>10, <1>11 DEF OutputInv

(* A failing read drops the buffer, the last part of what was seen, and only after the
   child is gone. *)
LEMMA ReadErrorOutput == OutputInv /\ ReadError => OutputInv'
  <1>. SUFFICES ASSUME OutputInv, ReadError PROVE OutputInv'
    OBVIOUS
  <1>1. /\ UNCHANGED <<script, emitted, exited, syncing, sync_buf, screen, tty>>
        /\ tty = <<>> /\ exited /\ buf' = <<>>
    BY DEF ReadError, childVars
  <1>2. PICK n \in 0..emitted : Seen = Upto(n)
    BY DEF OutputInv
  <1>3. PICK a : a = screen \o sync_buf OBVIOUS
  <1>a. a \in Seq(Nat) BY <1>3, SeenTypes
  <1>4. Seen = a \o buf /\ Seen' = a /\ buf \in Seq(Nat)
    <2>1. buf \in Seq(Nat) /\ a \o buf \in Seq(Nat) BY <1>3, SeenTypes DEF OutputInv
    <2>2. (a \o buf) \o <<>> = a \o buf /\ (a \o <<>>) \o <<>> = a
      BY ONLY <2>1, <1>a
    <2>. QED BY <1>1, <1>3, <2>1, <2>2 DEF Seen
  <1>5. emitted \in Nat /\ n \in Nat BY DEF OutputInv
  <1>6. a = Upto(Len(a)) /\ Len(a) \in 0..n
    <2>1. a = Upto(Len(a)) /\ Len(a) + Len(buf) = n
      BY <1>2, <1>4, <1>5, <1>a, UptoSplit
    <2>2. Len(a) \in Nat /\ Len(buf) \in Nat BY <1>4, <1>a
    <2>. QED BY <1>5, <2>1, <2>2
  <1>7. Len(a) \in 0..emitted BY <1>5, <1>6
  <1>8. buf' \in Seq(Nat) /\ Len(buf') <= READ_BUFFER_SIZE
    BY <1>1, PtyAssumption
  <1>. QED BY <1>1, <1>4, <1>6, <1>7, <1>8 DEF OutputInv

(* The timeout of an update shows what was held back. *)
LEMMA StopSyncOutput == OutputInv /\ StopSync => OutputInv'
  <1>. SUFFICES ASSUME OutputInv, StopSync PROVE OutputInv'
    OBVIOUS
  <1>1. /\ UNCHANGED <<script, emitted, exited, buf, tty>>
        /\ screen' = screen \o sync_buf /\ sync_buf' = <<>> /\ syncing' = FALSE
    BY DEF StopSync, childVars
  <1>2. screen' \in Seq(Nat) /\ screen' \o <<>> = screen' /\ sync_buf' \in Seq(Nat)
    BY <1>1, SeenTypes
  <1>3. Seen' = Seen
    BY <1>1, <1>2 DEF Seen
  <1>. QED BY <1>1, <1>2, <1>3 DEF OutputInv

(* Parsing empties the buffer into the parser. *)
LEMMA ParseOutput == OutputInv /\ Parse => OutputInv'
  <1>. SUFFICES ASSUME OutputInv, Parse PROVE OutputInv'
    OBVIOUS
  <1>1. PICK p : /\ p = advance(buf)
                 /\ syncing' = p.syncing /\ sync_buf' = p.sync_buf /\ screen' = p.screen
    BY DEF Parse
  <1>2. UNCHANGED <<script, emitted, exited, tty>> /\ buf' = <<>>
    BY DEF Parse, childVars
  <1>3. ParserOK(p) /\ p.screen \o p.sync_buf = (screen \o sync_buf) \o buf
    BY <1>1, Advance DEF OutputInv
  <1>4. /\ syncing' \in BOOLEAN /\ sync_buf' \in Seq(Nat) /\ screen' \in Seq(Nat)
        /\ ~syncing' => sync_buf' = <<>>
    BY <1>1, <1>3 DEF ParserOK, Parser
  <1>5. (screen' \o sync_buf') \o <<>> = screen' \o sync_buf'
    BY <1>4
  <1>6. Seen' = Seen
    BY <1>1, <1>2, <1>3, <1>5 DEF Seen
  <1>7. buf' \in Seq(Nat) /\ Len(buf') <= READ_BUFFER_SIZE
    BY <1>2, PtyAssumption
  <1>. QED BY <1>2, <1>4, <1>6, <1>7 DEF OutputInv

-----------------------------------------------------------------------------
(* The input *)

(* The bytes of inputs and the messages of the channel. *)
Byte == Nat \X Nat
Message == [type : {"Input"}, bytes : Seq(Byte)]
             \cup [type : {"Resize"}, size : 0..MaxResizes] \cup [type : {"Shutdown"}]
MsgBytes(m) == IF m.type = "Input" THEN m.bytes ELSE <<>>
Contents(c) == [k \in 1..Len(c) |-> MsgBytes(c[k])]
Sent(n) == [k \in 1..n |-> InputBytes(k)]

(* What a message holds. *)
LEMMA MsgType ==
    \A m \in Message : /\ MsgBytes(m) \in Seq(Byte)
                       /\ m.type = "Resize" => m.size \in 0..MaxResizes
                       /\ m.type # "Input" => MsgBytes(m) = <<>>
  <1>. SUFFICES ASSUME NEW m \in Message
                PROVE  /\ MsgBytes(m) \in Seq(Byte)
                       /\ m.type = "Resize" => m.size \in 0..MaxResizes
                       /\ m.type # "Input" => MsgBytes(m) = <<>>
    OBVIOUS
  <1>1. CASE m \in [type : {"Input"}, bytes : Seq(Byte)] BY <1>1 DEF MsgBytes
  <1>2. CASE m \in [type : {"Resize"}, size : 0..MaxResizes]
    <2>1. m.type = "Resize" /\ m.size \in 0..MaxResizes BY <1>2
    <2>. QED BY <2>1, EmptySeq DEF MsgBytes
  <1>3. CASE m \in [type : {"Shutdown"}]
    <2>1. m.type = "Shutdown" BY <1>3
    <2>. QED BY <2>1, EmptySeq DEF MsgBytes
  <1>. QED BY <1>1, <1>2, <1>3 DEF Message

(* The byte strings of the messages in the channel. *)
LEMMA ContentsType ==
    ASSUME NEW c \in Seq(Message)
    PROVE  Contents(c) \in Seq(Seq(Byte)) /\ Len(Contents(c)) = Len(c)
  <1>1. \A k \in 1..Len(c) : c[k] \in Message BY ElementOfSeq
  <1>2. \A k \in 1..Len(c) : MsgBytes(c[k]) \in Seq(Byte) BY <1>1, MsgType, Zenon
  <1>3. PICK T : T = Seq(Byte) OBVIOUS
  <1>4. PICK f : f = Contents(c) OBVIOUS
  <1>5. Len(c) \in Nat BY LenProperties
  <1>6. f \in [1..Len(c) -> T] BY <1>2, <1>3, <1>4, Zenon DEF Contents
  <1>7. f \in Seq(T) /\ Len(f) = Len(c) BY ONLY <1>5, <1>6
  <1>. QED BY <1>3, <1>4, <1>7, Zenon

(* A message is put behind the others. *)
LEMMA ContentsAppend ==
    ASSUME NEW c \in Seq(Message), NEW m \in Message
    PROVE  Contents(Append(c, m)) = Append(Contents(c), MsgBytes(m))
  <1>1. PICK d : d = Append(c, m) OBVIOUS
  <1>2. /\ d \in Seq(Message) /\ Len(d) = Len(c) + 1 /\ Len(c) \in Nat
        /\ d[Len(c) + 1] = m /\ \A k \in 1..Len(c) : d[k] = c[k]
    BY <1>1, AppendProperties, LenProperties
  <1>3. PICK g : g = Contents(c) OBVIOUS
  <1>4. PICK h : h = Contents(d) OBVIOUS
  <1>5. PICK T : T = Seq(Byte) OBVIOUS
  <1>6. PICK b \in T : b = MsgBytes(m) BY <1>5, MsgType
  <1>7. g \in Seq(T) /\ h \in Seq(T) /\ Len(g) = Len(c) /\ Len(h) = Len(c) + 1
    BY <1>2, <1>3, <1>4, <1>5, ContentsType, Zenon
  <1>8. \A k \in 1..Len(c) : h[k] = g[k]
    <2>. SUFFICES ASSUME NEW k \in 1..Len(c) PROVE h[k] = g[k]
      OBVIOUS
    <2>1. k \in 1..Len(d) /\ d[k] = c[k] BY <1>2
    <2>2. h[k] = MsgBytes(d[k]) BY <1>4, <2>1, Zenon DEF Contents
    <2>3. g[k] = MsgBytes(c[k]) BY <1>3, Zenon DEF Contents
    <2>. QED BY <2>1, <2>2, <2>3, Zenon
  <1>9. h[Len(c) + 1] = b
    <2>1. Len(c) + 1 \in 1..Len(d) BY <1>2
    <2>2. h[Len(c) + 1] = MsgBytes(d[Len(c) + 1]) BY <1>4, <2>1, Zenon DEF Contents
    <2>. QED BY <1>2, <1>6, <2>2, Zenon
  <1>10. h = Append(g, b)
    <2>1. PICK n \in Nat : n = Len(c) BY <1>2
    <2>2. /\ g \in Seq(T) /\ h \in Seq(T) /\ Len(g) = n /\ Len(h) = n + 1 /\ h[n + 1] = b
          /\ b \in T /\ \A k \in 1..n : h[k] = g[k]
      BY <1>7, <1>8, <1>9, <2>1, Zenon
    <2>. QED BY ONLY <2>2, n \in Nat
  <1>. QED BY <1>1, <1>3, <1>4, <1>6, <1>10, Zenon

(* The first message is taken away. *)
LEMMA ContentsTail ==
    ASSUME NEW c \in Seq(Message), c # <<>>
    PROVE  /\ Contents(c) # <<>> /\ Head(Contents(c)) = MsgBytes(Head(c))
           /\ Tail(Contents(c)) = Contents(Tail(c))
  <1>1. PICK d : d = Tail(c) OBVIOUS
  <1>2. /\ d \in Seq(Message) /\ Len(d) + 1 = Len(c) /\ Len(d) \in Nat
        /\ Head(c) = c[1] /\ \A k \in 1..Len(d) : d[k] = c[k + 1]
    BY <1>1, HeadTailProperties, LenProperties
  <1>3. PICK g : g = Contents(c) OBVIOUS
  <1>4. PICK h : h = Contents(d) OBVIOUS
  <1>5. PICK T : T = Seq(Byte) OBVIOUS
  <1>7. g \in Seq(T) /\ h \in Seq(T) /\ Len(g) = Len(c) /\ Len(h) = Len(d)
    BY <1>2, <1>3, <1>4, <1>5, ContentsType, Zenon
  <1>8. \A k \in 1..Len(d) : h[k] = g[k + 1]
    <2>. SUFFICES ASSUME NEW k \in 1..Len(d) PROVE h[k] = g[k + 1]
      OBVIOUS
    <2>1. k + 1 \in 1..Len(c) /\ d[k] = c[k + 1] BY <1>2
    <2>2. h[k] = MsgBytes(d[k]) BY <1>4, Zenon DEF Contents
    <2>3. g[k + 1] = MsgBytes(c[k + 1]) BY <1>3, <2>1, Zenon DEF Contents
    <2>. QED BY <2>1, <2>2, <2>3, Zenon
  <1>9. g[1] = MsgBytes(Head(c))
    <2>1. 1 \in 1..Len(c) BY <1>2
    <2>2. g[1] = MsgBytes(c[1]) BY <1>3, <2>1, Zenon DEF Contents
    <2>. QED BY <1>2, <2>2, Zenon
  <1>10. g # <<>> /\ Head(g) = g[1] /\ Tail(g) = h
    <2>1. PICK n \in Nat : n = Len(d) BY <1>2
    <2>2. /\ g \in Seq(T) /\ h \in Seq(T) /\ Len(h) = n /\ Len(g) = n + 1
          /\ \A k \in 1..n : h[k] = g[k + 1]
      BY <1>2, <1>7, <1>8, <2>1, Zenon
    <2>. QED BY ONLY <2>2, n \in Nat
  <1>. QED BY <1>1, <1>3, <1>4, <1>9, <1>10, Zenon

(* The input between the window and the PTY: in the channel, in the write list, in
   progress and written. *)
Pending == FlattenSeq(Contents(chan))
Queued == FlattenSeq(write_list)
Stream == Cat(Cat(Cat(written, writing), Queued), Pending)

(* Inductive invariant of the input: the four parts, one behind the other, are the
   bytes of all inputs sent. *)
InputInv ==
    /\ inputs \in 0..Len(InputSizes)
    /\ resizes \in 0..MaxResizes /\ pty_size \in 0..MaxResizes
    /\ written \in Seq(Byte) /\ writing \in Seq(Byte)
    /\ write_list \in Seq(Seq(Byte)) /\ chan \in Seq(Message)
    /\ Stream = FlattenSeq(Sent(inputs))

inVars == <<inputs, resizes, pty_size, written, writing, write_list, chan>>

(* The invariant gives the property that the runs check. *)
LEMMA InputExact == InputInv => InputExactlyOnce
  BY Zenon DEF InputInv, InputExactlyOnce, Stream, Queued, Pending, QueuedBytes, SentBytes,
               Cat, Contents, MsgBytes, Sent

(* The parts of the input are byte sequences. *)
LEMMA StreamTypes ==
    InputInv => /\ Queued \in Seq(Byte) /\ Pending \in Seq(Byte)
                /\ Cat(written, writing) \in Seq(Byte)
                /\ Cat(Cat(written, writing), Queued) \in Seq(Byte)
  <1>. SUFFICES ASSUME InputInv
                PROVE  /\ Queued \in Seq(Byte) /\ Pending \in Seq(Byte)
                       /\ Cat(written, writing) \in Seq(Byte)
                       /\ Cat(Cat(written, writing), Queued) \in Seq(Byte)
    OBVIOUS
  <1>1. Queued \in Seq(Byte) BY FlattenType DEF InputInv, Queued
  <1>2. Pending \in Seq(Byte) BY FlattenType, ContentsType DEF InputInv, Pending
  <1>3. Cat(written, writing) \in Seq(Byte) BY CatType DEF InputInv
  <1>4. Cat(Cat(written, writing), Queued) \in Seq(Byte) BY <1>1, <1>3, CatType
  <1>. QED BY <1>1, <1>2, <1>3, <1>4

(* An input is a byte sequence. *)
LEMMA InputBytesType ==
    ASSUME NEW k \in 1..Len(InputSizes)
    PROVE  InputBytes(k) \in Seq(Byte)
  <1>1. PICK n \in Nat : n = InputSizes[k] BY PtyAssumption
  <1>2. k \in Nat BY PtyAssumption
  <1>3. \A j \in 1..n : <<k, j>> \in Byte BY <1>2 DEF Byte
  <1>4. PICK f : f = InputBytes(k) OBVIOUS
  <1>5. f \in [1..n -> Byte] BY <1>1, <1>3, <1>4, Zenon DEF InputBytes
  <1>6. f \in Seq(Byte) BY ONLY <1>5, n \in Nat
  <1>. QED BY <1>4, <1>6

(* One more input is sent. *)
LEMMA SentGrows ==
    ASSUME NEW n \in 0..Len(InputSizes)
    PROVE  /\ Sent(n) \in Seq(Seq(Byte))
           /\ n < Len(InputSizes) => Sent(n + 1) = Append(Sent(n), InputBytes(n + 1))
  <1>0. Len(InputSizes) \in Nat /\ n \in Nat BY PtyAssumption
  <1>1. PICK T : T = Seq(Byte) OBVIOUS
  <1>2. \A k \in 1..Len(InputSizes) : InputBytes(k) \in T BY <1>1, InputBytesType
  <1>3. ASSUME NEW m \in 0..Len(InputSizes)
        PROVE  Sent(m) \in Seq(T) /\ Len(Sent(m)) = m
    <2>1. PICK f : f = Sent(m) OBVIOUS
    <2>2. \A k \in 1..m : k \in 1..Len(InputSizes) BY <1>0
    <2>3. f \in [1..m -> T] BY <1>2, <2>1, <2>2, Zenon DEF Sent
    <2>4. m \in Nat BY <1>0
    <2>5. f \in Seq(T) /\ Len(f) = m BY ONLY <2>3, <2>4
    <2>. QED BY <2>1, <2>5
  <1>4. ASSUME n < Len(InputSizes) PROVE Sent(n + 1) = Append(Sent(n), InputBytes(n + 1))
    <2>1. n + 1 \in 0..Len(InputSizes) /\ n + 1 \in 1..Len(InputSizes) BY <1>0, <1>4
    <2>2. PICK f, g : f = Sent(n) /\ g = Sent(n + 1) OBVIOUS
    <2>3. PICK b \in T : b = InputBytes(n + 1) BY <1>2, <2>1
    <2>4. \A k \in 1..n : g[k] = f[k]
      <3>. SUFFICES ASSUME NEW k \in 1..n PROVE g[k] = f[k]
        OBVIOUS
      <3>1. k \in 1..(n + 1) BY <1>0
      <3>. QED BY <2>2, <3>1, Zenon DEF Sent
    <2>5. g[n + 1] = b
      <3>1. n + 1 \in 1..(n + 1) BY <1>0
      <3>. QED BY <2>2, <2>3, <3>1, Zenon DEF Sent
    <2>6. f \in Seq(T) /\ g \in Seq(T) /\ Len(f) = n /\ Len(g) = n + 1
      BY <1>3, <2>1, <2>2
    <2>7. g = Append(f, b)
      BY ONLY <1>0, <2>4, <2>5, <2>6, b \in T
    <2>. QED BY <2>2, <2>3, <2>7
  <1>. QED BY <1>1, <1>3, <1>4

(* Nothing is typed at first. *)
LEMMA InitInput == Init => InputInv
  <1>. SUFFICES ASSUME Init PROVE InputInv
    OBVIOUS
  <1>1. /\ inputs = 0 /\ resizes = 0 /\ pty_size = 0 /\ written = <<>> /\ writing = <<>>
        /\ write_list = <<>> /\ chan = <<>>
    BY DEF Init, None
  <1>2. 0 \in 0..Len(InputSizes) /\ 0 \in 0..MaxResizes BY PtyAssumption
  <1>3. Contents(<<>>) = <<>> /\ Sent(0) = <<>> BY DEF Contents, Sent
  <1>4. Cat(<<>>, <<>>) = <<>> BY CatEmpty, EmptySeq
  <1>5. Stream = FlattenSeq(Sent(inputs))
    BY <1>1, <1>3, <1>4, FlattenEmpty, Zenon DEF Stream, Queued, Pending
  <1>. QED BY <1>1, <1>2, <1>5, EmptySeq DEF InputInv

(* A message put into the channel. *)
LEMMA SendPending ==
    ASSUME InputInv, NEW m \in Message, chan' = Append(chan, m)
    PROVE  chan' \in Seq(Message) /\ Pending' = Cat(Pending, MsgBytes(m))
  <1>1. chan \in Seq(Message) BY DEF InputInv
  <1>2. Contents(chan)' = Append(Contents(chan), MsgBytes(m)) 
    <2>1. Contents(chan)' = Contents(chan') BY Zenon DEF Contents, MsgBytes
    <2>. QED BY <1>1, <2>1, ContentsAppend
  <1>3. MsgBytes(m) \in Seq(Byte) BY MsgType
  <1>4. FlattenSeq(Append(Contents(chan), MsgBytes(m)))
          = Cat(FlattenSeq(Contents(chan)), MsgBytes(m))
    BY <1>1, <1>3, ContentsType, FlattenAppend DEF Cat
  <1>. QED BY <1>1, <1>2, <1>4, AppendProperties DEF Pending

(* An input is sent: both sides grow by its bytes. *)
LEMMA SendInputInput == InputInv /\ SendInput /\ UNCHANGED <<childVars, writeVars>> => InputInv'
  <1>. SUFFICES ASSUME InputInv, SendInput, UNCHANGED <<childVars, writeVars>> PROVE InputInv'
    OBVIOUS
  <1>1. /\ inputs \in 0..Len(InputSizes) /\ inputs < Len(InputSizes) /\ inputs' = inputs + 1
        /\ UNCHANGED <<resizes, pty_size, written, writing, write_list>>
    BY DEF InputInv, SendInput, childVars, writeVars
  <1>2. inputs + 1 \in 1..Len(InputSizes) /\ inputs' \in 0..Len(InputSizes) BY <1>1, PtyAssumption
  <1>3. PICK b \in Seq(Byte) : b = InputBytes(inputs + 1) BY <1>2, InputBytesType
  <1>4. PICK m : m = [type |-> "Input", bytes |-> b] OBVIOUS
  <1>5. m \in Message /\ MsgBytes(m) = b BY <1>4 DEF Message, MsgBytes
  <1>6. chan' = Append(chan, m) BY <1>3, <1>4 DEF SendInput, Send
  <1>7. chan' \in Seq(Message) /\ Pending' = Cat(Pending, b) BY <1>5, <1>6, SendPending
  <1>8. FlattenSeq(Sent(inputs + 1)) = Cat(FlattenSeq(Sent(inputs)), b)
    BY <1>1, <1>3, SentGrows, FlattenAppend DEF Cat
  <1>9. PICK a : a = Cat(Cat(written, writing), Queued) OBVIOUS
  <1>10. Cat(a, Cat(Pending, b)) = Cat(Cat(a, Pending), b)
    BY <1>9, StreamTypes, CatAssoc
  <1>11. Stream' = Cat(a, Cat(Pending, b)) /\ Stream = Cat(a, Pending)
    BY <1>1, <1>7, <1>9, Zenon DEF Stream, Queued
  <1>12. FlattenSeq(Sent(inputs))' = FlattenSeq(Sent(inputs + 1))
    BY <1>1, Zenon DEF Sent, InputBytes
  <1>13. Stream' = FlattenSeq(Sent(inputs))'
    BY <1>8, <1>10, <1>11, <1>12 DEF InputInv
  <1>. QED BY <1>1, <1>2, <1>7, <1>13 DEF InputInv

(* A message without bytes put into the channel. *)
LEMMA SendOther ==
    ASSUME InputInv, NEW m \in Message, m.type # "Input", chan' = Append(chan, m),
           UNCHANGED <<inputs, childVars, writeVars>>, resizes' \in 0..MaxResizes
    PROVE  InputInv'
  <1>1. UNCHANGED <<inputs, pty_size, written, writing, write_list>>
    BY DEF childVars, writeVars
  <1>2. MsgBytes(m) = <<>> BY MsgType
  <1>3. chan' \in Seq(Message) /\ Pending' = Cat(Pending, <<>>) BY <1>2, SendPending
  <1>4. Pending' = Pending BY <1>3, StreamTypes, CatEmpty
  <1>5. Stream' = Stream BY <1>1, <1>4, Zenon DEF Stream, Queued
  <1>6. FlattenSeq(Sent(inputs))' = FlattenSeq(Sent(inputs))
    BY <1>1, Zenon DEF Sent, InputBytes
  <1>. QED BY <1>1, <1>3, <1>5, <1>6 DEF InputInv

(* A resize carries no bytes. *)
LEMMA SendResizeInput ==
    InputInv /\ SendResize /\ UNCHANGED <<childVars, writeVars>> => InputInv'
  <1>. SUFFICES ASSUME InputInv, SendResize, UNCHANGED <<childVars, writeVars>> PROVE InputInv'
    OBVIOUS
  <1>1. /\ resizes \in 0..MaxResizes /\ resizes < MaxResizes /\ resizes' = resizes + 1
        /\ UNCHANGED inputs
    BY DEF InputInv, SendResize
  <1>2. resizes + 1 \in 0..MaxResizes BY <1>1, PtyAssumption
  <1>3. PICK m : m = [type |-> "Resize", size |-> resizes + 1] OBVIOUS
  <1>4. m \in Message /\ m.type # "Input" BY <1>2, <1>3 DEF Message
  <1>5. chan' = Append(chan, m) BY <1>3 DEF SendResize, Send
  <1>. QED BY <1>1, <1>2, <1>4, <1>5, SendOther

(* A shutdown carries no bytes. *)
LEMMA CloseWindowInput ==
    InputInv /\ CloseWindow /\ UNCHANGED <<childVars, writeVars>> => InputInv'
  <1>. SUFFICES ASSUME InputInv, CloseWindow, UNCHANGED <<childVars, writeVars>> PROVE InputInv'
    OBVIOUS
  <1>1. PICK m : m = [type |-> "Shutdown"] OBVIOUS
  <1>2. m \in Message /\ m.type # "Input" BY <1>1 DEF Message
  <1>3. chan' = Append(chan, m) /\ UNCHANGED <<inputs, resizes>> BY <1>1 DEF CloseWindow, Send
  <1>. QED BY <1>2, <1>3, SendOther DEF InputInv

(* The first message taken from the channel. *)
LEMMA TakePending ==
    ASSUME InputInv, chan # <<>>, chan' = Tail(chan)
    PROVE  /\ Head(chan) \in Message /\ chan' \in Seq(Message)
           /\ MsgBytes(Head(chan)) \in Seq(Byte)
           /\ Pending' \in Seq(Byte)
           /\ Pending = Cat(MsgBytes(Head(chan)), Pending')
  <1>1. chan \in Seq(Message) BY DEF InputInv
  <1>2. Head(chan) \in Message /\ chan' \in Seq(Message) BY <1>1, HeadTailProperties
  <1>3. Contents(chan)' = Contents(Tail(chan)) BY Zenon DEF Contents, MsgBytes
  <1>4. /\ Contents(chan) # <<>> /\ Head(Contents(chan)) = MsgBytes(Head(chan))
        /\ Tail(Contents(chan)) = Contents(chan)'
    BY <1>1, <1>3, ContentsTail
  <1>5. FlattenSeq(Contents(chan))
          = Cat(Head(Contents(chan)), FlattenSeq(Tail(Contents(chan))))
    BY <1>1, <1>4, ContentsType, FlattenHead DEF Cat
  <1>6. Pending = Cat(MsgBytes(Head(chan)), Pending')
    BY <1>4, <1>5, Zenon DEF Pending
  <1>7. Pending' \in Seq(Byte)
    <2>1. Tail(chan) \in Seq(Message) BY <1>2
    <2>2. Contents(Tail(chan)) \in Seq(Seq(Byte)) BY <2>1, ContentsType
    <2>3. FlattenSeq(Contents(Tail(chan))) \in Seq(Byte) BY <2>2, FlattenType
    <2>. QED BY <1>3, <2>3, Zenon DEF Pending
  <1>. QED BY <1>2, <1>6, <1>7, MsgType

(* drain_recv_channel moves the bytes of an input from the channel to the write list. *)
LEMMA RecvInputInput == InputInv /\ RecvInput => InputInv'
  <1>. SUFFICES ASSUME InputInv, RecvInput PROVE InputInv'
    OBVIOUS
  <1>1. /\ UNCHANGED <<inputs, resizes, pty_size, written, writing>>
        /\ chan # <<>> /\ chan' = Tail(chan) /\ Head(chan).type = "Input"
        /\ write_list' = Append(write_list, Head(chan).bytes)
    BY DEF RecvInput, childVars, uiVars
  <1>2. PICK b \in Seq(Byte) : b = MsgBytes(Head(chan)) BY <1>1, TakePending
  <1>3. /\ Pending = Cat(b, Pending') /\ chan' \in Seq(Message) /\ Pending' \in Seq(Byte)
        /\ write_list' = Append(write_list, b)
    BY <1>1, <1>2, TakePending DEF MsgBytes
  <1>4. write_list \in Seq(Seq(Byte)) BY DEF InputInv
  <1>5. write_list' \in Seq(Seq(Byte)) BY <1>3, <1>4, AppendProperties
  <1>6. Queued' = Cat(Queued, b)
    BY <1>3, <1>4, FlattenAppend DEF Queued, Cat
  <1>7. PICK a \in Seq(Byte) : a = Cat(written, writing) BY StreamTypes
  <1>8. Cat(Cat(a, Cat(Queued, b)), Pending') = Cat(Cat(a, Queued), Cat(b, Pending'))
    BY <1>3, <1>7, StreamTypes, CatMove
  <1>9. Stream' = Cat(Cat(a, Cat(Queued, b)), Pending')
    BY <1>1, <1>6, <1>7, Zenon DEF Stream
  <1>10. Stream = Cat(Cat(a, Queued), Cat(b, Pending')) BY <1>3, <1>7, Zenon DEF Stream
  <1>11. FlattenSeq(Sent(inputs))' = FlattenSeq(Sent(inputs))
    BY <1>1, Zenon DEF Sent, InputBytes
  <1>12. Stream' = FlattenSeq(Sent(inputs))' BY <1>8, <1>9, <1>10, <1>11, Zenon DEF InputInv
  <1>. QED BY <1>1, <1>3, <1>5, <1>12 DEF InputInv

(* Messages without bytes taken from the channel. *)
LEMMA RecvOther ==
    ASSUME InputInv, chan # <<>>, chan' = Tail(chan), Head(chan).type # "Input",
           UNCHANGED <<inputs, resizes, written, writing, write_list>>,
           pty_size' \in 0..MaxResizes
    PROVE  InputInv'
  <1>1. MsgBytes(Head(chan)) = <<>> BY TakePending, MsgType
  <1>2. /\ chan' \in Seq(Message) /\ Pending' \in Seq(Byte)
        /\ Pending = Cat(<<>>, Pending')
    BY <1>1, TakePending
  <1>3. Pending' = Pending BY <1>2, CatEmpty
  <1>4. Stream' = Stream BY <1>3, Zenon DEF Stream, Queued
  <1>5. FlattenSeq(Sent(inputs))' = FlattenSeq(Sent(inputs))
    BY Zenon DEF Sent, InputBytes
  <1>. QED BY <1>2, <1>4, <1>5 DEF InputInv

(* drain_recv_channel, a resize: the PTY gets a size the window has had. *)
LEMMA RecvResizeInput == InputInv /\ RecvResize => InputInv'
  <1>. SUFFICES ASSUME InputInv, RecvResize PROVE InputInv'
    OBVIOUS
  <1>1. /\ chan # <<>> /\ chan' = Tail(chan) /\ Head(chan).type = "Resize"
        /\ UNCHANGED <<inputs, resizes, written, writing, write_list>>
        /\ pty_size' = Head(chan).size
    BY DEF RecvResize, writeVars, uiVars
  <1>2. Head(chan).size \in 0..MaxResizes BY <1>1, TakePending, MsgType
  <1>. QED BY <1>1, <1>2, RecvOther

(* drain_recv_channel, a shutdown. *)
LEMMA RecvShutdownInput == InputInv /\ RecvShutdown => InputInv'
  <1>. SUFFICES ASSUME InputInv, RecvShutdown PROVE InputInv'
    OBVIOUS
  <1>1. /\ chan # <<>> /\ chan' = Tail(chan) /\ Head(chan).type = "Shutdown"
        /\ UNCHANGED <<inputs, resizes, written, writing, write_list, pty_size>>
    BY DEF RecvShutdown, childVars, writeVars, uiVars
  <1>. QED BY <1>1, RecvOther DEF InputInv

(* What ensure_next takes from the queue to write. *)
LEMMA EnsureNext ==
    ASSUME InputInv
    PROVE  /\ ensure_next \in Seq(Byte) /\ unqueued \in Seq(Seq(Byte))
           /\ FlattenSeq(unqueued) \in Seq(Byte)
           /\ Cat(writing, Queued) = Cat(ensure_next, FlattenSeq(unqueued))
  <1>0. writing \in Seq(Byte) /\ write_list \in Seq(Seq(Byte)) BY DEF InputInv
  <1>1. CASE writing = None /\ write_list # <<>>
    <2>1. ensure_next = Head(write_list) /\ unqueued = Tail(write_list)
      BY <1>1 DEF ensure_next, unqueued
    <2>2. ensure_next \in Seq(Byte) /\ unqueued \in Seq(Seq(Byte))
      BY <1>0, <1>1, <2>1, HeadTailProperties
    <2>3. Queued = Cat(ensure_next, FlattenSeq(unqueued))
      BY <1>0, <1>1, <2>1, FlattenHead DEF Queued, Cat
    <2>4. Cat(writing, Queued) = Queued
      BY <1>1, StreamTypes, CatEmpty DEF None
    <2>. QED BY <2>2, <2>3, <2>4, FlattenType
  <1>2. CASE ~(writing = None /\ write_list # <<>>)
    <2>1. ensure_next = writing /\ unqueued = write_list BY <1>2 DEF ensure_next, unqueued
    <2>. QED BY <1>0, <2>1, FlattenType DEF Queued
  <1>. QED BY <1>1, <1>2

(* A write that fails puts its message back. *)
LEMMA PutBackInput ==
    ASSUME InputInv, writing' = ensure_next, write_list' = unqueued,
           UNCHANGED <<inputs, resizes, pty_size, written, chan>>
    PROVE  InputInv'
  <1>1. writing' \in Seq(Byte) /\ write_list' \in Seq(Seq(Byte)) BY EnsureNext
  <1>2. Queued' = FlattenSeq(unqueued) BY Zenon DEF Queued
  <1>3. Cat(writing, Queued) = Cat(writing', Queued') BY <1>2, EnsureNext
  <1>4. /\ Cat(Cat(written, writing), Queued) = Cat(written, Cat(writing, Queued))
        /\ Cat(Cat(written, writing'), Queued') = Cat(written, Cat(writing', Queued'))
    <2>1. written \in Seq(Byte) /\ writing \in Seq(Byte) BY DEF InputInv
    <2>2. Queued \in Seq(Byte) /\ Queued' \in Seq(Byte) BY <1>2, StreamTypes, EnsureNext
    <2>. QED BY <1>1, <2>1, <2>2, CatAssoc
  <1>5. Pending' = Pending BY Zenon DEF Pending, Contents, MsgBytes
  <1>6. Stream' = Stream BY <1>3, <1>4, <1>5, Zenon DEF Stream
  <1>7. FlattenSeq(Sent(inputs))' = FlattenSeq(Sent(inputs))
    BY Zenon DEF Sent, InputBytes
  <1>. QED BY <1>1, <1>6, <1>7 DEF InputInv

(* A write of n bytes: they move from the message in progress to the PTY, and the rest
   stays in progress. *)
LEMMA WriteSomeInput == InputInv /\ WriteSome => InputInv'
  <1>. SUFFICES ASSUME InputInv, WriteSome PROVE InputInv'
    OBVIOUS
  <1>1. UNCHANGED <<inputs, resizes, pty_size, chan>> /\ write_list' = unqueued
    BY DEF WriteSome, queueVars, uiVars
  <1>2. PICK n \in 1..Len(ensure_next) :
           /\ written' = written \o SubSeq(ensure_next, 1, n)
           /\ writing' = SubSeq(ensure_next, n + 1, Len(ensure_next))
    BY DEF WriteSome
  <1>3. PICK e \in Seq(Byte) : e = ensure_next BY EnsureNext
  <1>4. PICK x, y : x = SubSeq(e, 1, n) /\ y = SubSeq(e, n + 1, Len(e))
    OBVIOUS
  <1>5. n \in 0..Len(e) BY <1>3
  <1>6. x \in Seq(Byte) /\ y \in Seq(Byte) /\ e = Cat(x, y)
    BY <1>3, <1>4, <1>5, SplitSeq DEF Cat
  <1>7. written' = Cat(written, x) /\ writing' = y
    BY <1>2, <1>3, <1>4 DEF Cat
  <1>8. written \in Seq(Byte) /\ writing \in Seq(Byte) BY DEF InputInv
  <1>9. PICK r \in Seq(Byte) : r = FlattenSeq(unqueued) BY EnsureNext
  <1>10. Queued' = r BY <1>1, <1>9, Zenon DEF Queued
  <1>11. Cat(Cat(Cat(written, x), y), r) = Cat(written, Cat(Cat(x, y), r))
    <2>1. Cat(written, x) \in Seq(Byte) /\ Cat(y, r) \in Seq(Byte)
      BY <1>6, <1>8, <1>9, CatType
    <2>2. Cat(Cat(Cat(written, x), y), r) = Cat(Cat(written, x), Cat(y, r))
      BY <1>6, <1>9, <2>1, CatAssoc
    <2>3. Cat(Cat(written, x), Cat(y, r)) = Cat(written, Cat(x, Cat(y, r)))
      BY <1>6, <1>8, <2>1, CatAssoc
    <2>4. Cat(x, Cat(y, r)) = Cat(Cat(x, y), r)
      BY <1>6, <1>9, CatAssoc
    <2>. QED BY <2>2, <2>3, <2>4
  <1>12. Cat(Cat(written, writing), Queued) = Cat(written, Cat(writing, Queued))
    BY <1>8, StreamTypes, CatAssoc
  <1>13. Cat(writing, Queued) = Cat(Cat(x, y), r) BY <1>3, <1>6, <1>9, EnsureNext
  <1>14. Pending' = Pending BY <1>1, Zenon DEF Pending, Contents, MsgBytes
  <1>15. Stream' = Stream
    BY <1>7, <1>10, <1>11, <1>12, <1>13, <1>14, Zenon DEF Stream
  <1>16. FlattenSeq(Sent(inputs))' = FlattenSeq(Sent(inputs))
    BY <1>1, Zenon DEF Sent, InputBytes
  <1>17. written' \in Seq(Byte) /\ writing' \in Seq(Byte) /\ write_list' \in Seq(Seq(Byte))
    BY <1>1, <1>6, <1>7, <1>8, CatType, EnsureNext
  <1>. QED BY <1>1, <1>15, <1>16, <1>17 DEF InputInv

(* Steps that leave the input alone. *)
LEMMA SameInput == InputInv /\ UNCHANGED inVars => InputInv'
  BY DEF InputInv, inVars, Stream, Queued, Pending, Contents, MsgBytes, Sent, InputBytes

-----------------------------------------------------------------------------
(* Every step of the system *)

(* Steps that leave the output alone. *)
LEMMA SameOutput == OutputInv /\ UNCHANGED outVars => OutputInv'
  BY DEF OutputInv, outVars, Seen, Upto

(* The child: only an exit lets the tail of the output be lost. *)
LEMMA ChildOutput == OutputInv /\ Child => OutputInv'
  <1>. SUFFICES ASSUME OutputInv, Child PROVE OutputInv'
    OBVIOUS
  <1>0. UNCHANGED parseVars BY DEF Child
  <1>1. CASE Emit BY <1>0, <1>1, EmitOutput
  <1>2. CASE ConsumeInput \/ OtherChildExits
    BY <1>0, <1>2, SameOutput DEF ConsumeInput, OtherChildExits, outVars, parseVars
  <1>3. CASE ChildExits
    <2>1. /\ UNCHANGED <<script, emitted, syncing, screen, sync_buf, buf, tty>>
          /\ exited' = TRUE
      BY <1>0, <1>3 DEF ChildExits, parseVars
    <2>2. Seen' = Seen BY <2>1 DEF Seen
    <2>3. \E n \in 0..emitted : Seen = Upto(n) BY DEF OutputInv
    <2>. QED BY <2>1, <2>2, <2>3 DEF OutputInv
  <1>. QED BY <1>1, <1>2, <1>3 DEF Child

(* The window thread does not touch the output. *)
LEMMA WindowOutput == OutputInv /\ Window => OutputInv'
  BY SameOutput DEF Window, childVars, parseVars, outVars

(* The reader thread, action by action. *)
LEMMA EventLoopOutput == OutputInv /\ EventLoop => OutputInv'
  <1>. SUFFICES ASSUME OutputInv, EventLoop PROVE OutputInv'
    OBVIOUS
  <1>1. CASE PollWait \/ CheckTimeout \/ StopSyncNext
    BY <1>1, SameOutput DEF PollWait, CheckTimeout, StopSyncNext, childVars, parseVars, outVars
  <1>2. CASE drain_recv_channel
    BY <1>2, SameOutput DEF drain_recv_channel, RecvInput, RecvResize, RecvShutdown,
                            ChannelEmpty, childVars, parseVars, outVars
  <1>3. CASE ChildEvent \/ ReadWriteEvent \/ EventsHandled
    BY <1>3, SameOutput DEF ChildEvent, ReadWriteEvent, EventsHandled, childVars, parseVars,
                            outVars
  <1>4. CASE Lease \/ ReadWouldBlock \/ TryLock \/ ForceLock \/ FinishRead
    BY <1>4, SameOutput DEF Lease, ReadWouldBlock, TryLock, ForceLock, FinishRead, childVars,
                            parseVars, outVars
  <1>5. CASE pty_write
    BY <1>5, SameOutput DEF pty_write, WriteSome, WriteWouldBlock, WriteError, WriteDone,
                            childVars, parseVars, outVars
  <1>6. CASE ExitNext \/ Exit
    BY <1>6, SameOutput DEF ExitNext, Exit, childVars, parseVars, outVars
  <1>. QED BY <1>1, <1>2, <1>3, <1>4, <1>5, <1>6, StopSyncOutput, ReadSomeOutput,
              ReadErrorOutput, ParseOutput DEF EventLoop, pty_read

(* OutputInv is inductive. *)
LEMMA NextOutput == OutputInv /\ [Next]_vars => OutputInv'
  <1>1. OutputInv /\ UNCHANGED vars => OutputInv'
    BY SameOutput DEF vars, childVars, parseVars, outVars
  <1>. QED BY <1>1, ChildOutput, WindowOutput, EventLoopOutput DEF Next

(* The window thread: it sends messages. *)
LEMMA WindowInput == InputInv /\ Window => InputInv'
  <1>. SUFFICES ASSUME InputInv, Window PROVE InputInv'
    OBVIOUS
  <1>1. UNCHANGED <<childVars, writeVars>> BY DEF Window
  <1>2. CASE Notify \/ UiLockNext \/ UiLockData \/ UiUnlock
    BY <1>1, <1>2, SameInput DEF Notify, UiLockNext, UiLockData, UiUnlock, childVars,
                                 writeVars, queueVars, inVars
  <1>. QED BY <1>1, <1>2, SendInputInput, SendResizeInput, CloseWindowInput DEF Window

(* The reader thread, action by action. *)
LEMMA EventLoopInput == InputInv /\ EventLoop => InputInv'
  <1>. SUFFICES ASSUME InputInv, EventLoop PROVE InputInv'
    OBVIOUS
  <1>1. CASE PollWait \/ CheckTimeout \/ StopSyncNext \/ StopSync
    BY <1>1, SameInput DEF PollWait, CheckTimeout, StopSyncNext, StopSync, childVars,
                           queueVars, writeVars, uiVars, inVars
  <1>2. CASE ChannelEmpty
    BY <1>2, SameInput DEF ChannelEmpty, childVars, queueVars, writeVars, uiVars, inVars
  <1>3. CASE ChildEvent \/ ReadWriteEvent \/ EventsHandled
    BY <1>3, SameInput DEF ChildEvent, ReadWriteEvent, EventsHandled, childVars, queueVars,
                           writeVars, uiVars, inVars
  <1>4. CASE pty_read
    BY <1>4, SameInput DEF pty_read, Lease, ReadSome, ReadWouldBlock, ReadError, TryLock,
                           ForceLock, Parse, FinishRead, childVars, queueVars, writeVars,
                           uiVars, inVars
  <1>5. CASE WriteWouldBlock \/ WriteError
    BY <1>5, PutBackInput DEF WriteWouldBlock, WriteError, childVars, queueVars, uiVars
  <1>6. CASE WriteDone
    BY <1>6, SameInput DEF WriteDone, childVars, queueVars, writeVars, uiVars, inVars
  <1>7. CASE ExitNext \/ Exit
    BY <1>7, SameInput DEF ExitNext, Exit, childVars, queueVars, writeVars, uiVars, inVars
  <1>. QED BY <1>1, <1>2, <1>3, <1>4, <1>5, <1>6, <1>7, RecvInputInput, RecvResizeInput,
              RecvShutdownInput, WriteSomeInput DEF EventLoop, drain_recv_channel, pty_write

(* InputInv is inductive. *)
LEMMA NextInput == InputInv /\ [Next]_vars => InputInv'
  <1>1. InputInv /\ UNCHANGED vars => InputInv'
    BY SameInput DEF vars, childVars, queueVars, writeVars, uiVars, inVars
  <1>2. InputInv /\ Child => InputInv'
    BY SameInput DEF Child, Emit, ConsumeInput, ChildExits, OtherChildExits, queueVars,
                     writeVars, uiVars, inVars
  <1>. QED BY <1>1, <1>2, WindowInput, EventLoopInput DEF Next

(* The invariant gives the property that the runs check. *)
LEMMA OutputOrdered == OutputInv => OutputConserved
  <1>. SUFFICES ASSUME OutputInv PROVE OutputConserved
    OBVIOUS
  <1>1. PICK n \in 0..emitted : Seen = Upto(n) /\ (~exited => n = emitted)
    BY DEF OutputInv
  <1>2. n \in Nat BY DEF OutputInv
  <1>3. \A i, j \in DOMAIN Upto(n) : i < j => Upto(n)[i] < Upto(n)[j]
    BY <1>2 DEF Upto
  <1>. QED BY <1>1, <1>3, Zenon DEF OutputConserved, Seen, Upto

(* StreamsConserved holds in every reachable state: pty_read, the parser and the
   synchronized update keep the output whole and in order, drain_recv_channel and
   pty_write the input, for every script of the child, every list of inputs and every
   buffer size. *)
THEOREM StreamsWhole == Spec => []StreamsConserved
  <1>1. Spec => []OutputInv
    BY InitOutput, NextOutput, PTL DEF Spec
  <1>2. Spec => []InputInv
    BY InitInput, NextInput, PTL DEF Spec
  <1>3. OutputInv /\ InputInv => StreamsConserved
    BY OutputOrdered, InputExact DEF StreamsConserved
  <1>. QED BY <1>1, <1>2, <1>3, PTL

-----------------------------------------------------------------------------
(* Type correctness *)

(* The Boolean variables. *)
FlagsInv ==
    /\ room \in BOOLEAN /\ sigchld \in BOOLEAN /\ notified \in BOOLEAN /\ wakeup \in BOOLEAN
    /\ exit_event \in BOOLEAN /\ timed_out \in BOOLEAN /\ interest \in BOOLEAN
    /\ open \in BOOLEAN

(* The control state of both threads and the counters. *)
ControlInv ==
    /\ signals \in 0..MaxSignals
    /\ pc \in {"poll", "check", "sync_next", "sync_data", "drain", "events", "lease", "read",
              "try", "force", "parse", "finish", "write", "exit_next", "exit_data", "done"}
    /\ ret \in {"loop", "write", "exit"}
    /\ events \subseteq {"readable", "writable", "hangup", "child"}
    /\ processed \in Nat
    /\ uipc \in {"idle", "notify", "wait", "wait_draw", "locked", "drawing"}
    /\ drawn \in 0..Len(script)

(* The screen shows no more than the child has to print. *)
LEMMA ScreenWithinScript == OutputInv => Len(screen) \in 0..Len(script)
  <1>. SUFFICES ASSUME OutputInv PROVE Len(screen) \in 0..Len(script)
    OBVIOUS
  <1>1. PICK n \in 0..emitted : Seen = Upto(n) BY DEF OutputInv
  <1>2. emitted \in 0..Len(script) /\ n \in Nat /\ Len(script) \in Nat BY DEF OutputInv
  <1>3. PICK a, b : a = screen \o sync_buf /\ b = screen \o sync_buf \o buf OBVIOUS
  <1>4. /\ screen \in Seq(Nat) /\ sync_buf \in Seq(Nat) /\ buf \in Seq(Nat) /\ tty \in Seq(Nat)
        /\ a \in Seq(Nat) /\ b \in Seq(Nat)
    BY <1>3, SeenTypes DEF OutputInv
  <1>5. Len(b) <= n
    <2>1. Len(b) + Len(tty) = n BY <1>1, <1>2, <1>3, <1>4, UptoSplit DEF Seen
    <2>2. Len(b) \in Nat /\ Len(tty) \in Nat BY <1>4
    <2>. QED BY <1>2, <2>1, <2>2
  <1>6. Len(b) = Len(a) + Len(buf) /\ Len(a) = Len(screen) + Len(sync_buf)
    BY <1>3, <1>4, ConcatProperties
  <1>7. Len(screen) \in Nat /\ Len(sync_buf) \in Nat /\ Len(buf) \in Nat BY <1>4, LenProperties
  <1>. QED BY <1>2, <1>5, <1>6, <1>7

(* The initial values. *)
LEMMA InitControl == Init => ControlInv /\ FlagsInv
  <1>. SUFFICES ASSUME Init PROVE ControlInv /\ FlagsInv
    OBVIOUS
  <1>1. 0 \in 0..MaxSignals /\ 0 \in 0..Len(script)
    BY PtyAssumption DEF Init
  <1>. QED BY <1>1 DEF Init, ControlInv, FlagsInv

(* FlagsInv is inductive. *)
LEMMA NextFlags == FlagsInv /\ [Next]_vars => FlagsInv'
  <1>. SUFFICES ASSUME FlagsInv, [Next]_vars PROVE FlagsInv'
    OBVIOUS
  <1>1. CASE UNCHANGED vars
    BY <1>1, Zenon DEF FlagsInv, vars, childVars, queueVars, pollVars, writeVars, uiVars
  <1>2. CASE Child
    BY <1>2, Zenon DEF FlagsInv, Child, Emit, ConsumeInput, ChildExits, OtherChildExits,
                       queueVars, pollVars, writeVars, uiVars
  <1>3. CASE Window
    BY <1>3, Zenon DEF FlagsInv, Window, SendInput, SendResize, CloseWindow, Send, Notify,
                       UiLockNext, UiLockData, UiUnlock, childVars, queueVars, pollVars,
                       writeVars
  <1>4. CASE PollWait
    BY <1>4, Zenon DEF FlagsInv, PollWait, childVars, writeVars, uiVars
  <1>5. CASE CheckTimeout \/ StopSyncNext \/ StopSync
    BY <1>5, Zenon DEF FlagsInv, CheckTimeout, StopSyncNext, StopSync, childVars, queueVars,
                       writeVars, uiVars
  <1>6. CASE drain_recv_channel
    BY <1>6, ZenonT(60) DEF FlagsInv, drain_recv_channel, RecvInput, RecvResize, RecvShutdown,
                       ChannelEmpty, childVars, queueVars, pollVars, writeVars, uiVars
  <1>7. CASE ChildEvent \/ ReadWriteEvent
    BY <1>7, Zenon DEF FlagsInv, ChildEvent, ReadWriteEvent, childVars, queueVars, writeVars,
                       uiVars
  <1>8. CASE EventsHandled
    BY <1>8, Zenon DEF FlagsInv, EventsHandled, childVars, queueVars, uiVars
  <1>9. CASE Lease \/ ReadSome \/ ReadWouldBlock \/ ReadError
    BY <1>9, ZenonT(60) DEF FlagsInv, Lease, ReadSome, ReadWouldBlock, ReadError, childVars,
                       queueVars, writeVars, uiVars
  <1>10. CASE TryLock \/ ForceLock \/ Parse \/ FinishRead
    BY <1>10, ZenonT(60) DEF FlagsInv, TryLock, ForceLock, Parse, FinishRead, childVars, queueVars,
                        writeVars, uiVars
  <1>11. CASE pty_write
    BY <1>11, ZenonT(60) DEF FlagsInv, pty_write, WriteSome, WriteWouldBlock, WriteError, WriteDone,
                        childVars, queueVars, pollVars, writeVars, uiVars
  <1>12. CASE ExitNext \/ Exit
    BY <1>12, Zenon DEF FlagsInv, ExitNext, Exit, childVars, queueVars, writeVars, uiVars
  <1>. QED BY <1>1, <1>2, <1>3, <1>4, <1>5, <1>6, <1>7, <1>8, <1>9, <1>10, <1>11, <1>12
           DEF Next, EventLoop, pty_read

(* The reader thread keeps to its program points. *)
LEMMA EventLoopControl == ControlInv /\ OutputInv /\ EventLoop => ControlInv'
  <1>. SUFFICES ASSUME ControlInv, OutputInv, EventLoop PROVE ControlInv'
    OBVIOUS
  <1>1. CASE PollWait
    BY <1>1 DEF ControlInv, PollWait, Ready, childVars, parseVars, uiVars
  <1>2. CASE CheckTimeout \/ StopSyncNext \/ StopSync
    BY <1>2 DEF ControlInv, CheckTimeout, StopSyncNext, StopSync, childVars, parseVars, uiVars
  <1>3. CASE drain_recv_channel
    BY <1>3 DEF ControlInv, drain_recv_channel, RecvInput, RecvResize, RecvShutdown,
                ChannelEmpty, childVars, parseVars, pollVars, uiVars
  <1>4. CASE ChildEvent
    BY <1>4 DEF ControlInv, ChildEvent, parseVars, uiVars
  <1>5. CASE ReadWriteEvent
    BY <1>5 DEF ControlInv, ReadWriteEvent, childVars, parseVars, uiVars
  <1>6. CASE EventsHandled
    BY <1>6 DEF ControlInv, EventsHandled, childVars, parseVars, uiVars
  <1>7. CASE Lease \/ ReadSome \/ ReadWouldBlock
    <2>1. /\ pc' \in {"read", "try", "finish"} /\ processed' \in Nat
          /\ UNCHANGED <<script, signals, ret, events, uipc, drawn>>
      BY <1>7 DEF ControlInv, Lease, ReadSome, ReadWouldBlock, childVars, parseVars, uiVars
    <2>. QED BY <2>1 DEF ControlInv
  <1>8. CASE ReadError
    BY <1>8 DEF ControlInv, ReadError, childVars, uiVars
  <1>9. CASE TryLock \/ ForceLock
    BY <1>9 DEF ControlInv, TryLock, ForceLock, childVars, parseVars, uiVars
  <1>10. CASE Parse
    <2>1. Len(buf) \in Nat BY DEF OutputInv
    <2>2. processed' \in Nat BY <1>10, <2>1 DEF ControlInv, Parse
    <2>. QED BY <1>10, <2>2 DEF ControlInv, Parse, childVars, uiVars
  <1>11. CASE FinishRead
    <2>1. pc' \in {"exit_next", "write", "events"} BY <1>11 DEF FinishRead
    <2>. QED BY <1>11, <2>1 DEF ControlInv, FinishRead, childVars, parseVars, uiVars
  <1>12. CASE pty_write
    BY <1>12 DEF ControlInv, pty_write, WriteSome, WriteWouldBlock, WriteError, WriteDone,
                 childVars, parseVars, pollVars, uiVars
  <1>13. CASE ExitNext \/ Exit
    BY <1>13 DEF ControlInv, ExitNext, Exit, childVars, parseVars, uiVars
  <1>. QED BY <1>1, <1>2, <1>3, <1>4, <1>5, <1>6, <1>7, <1>8, <1>9, <1>10, <1>11, <1>12, <1>13
           DEF EventLoop, pty_read

(* ControlInv is inductive, given OutputInv: what is drawn is what was on the screen. *)
LEMMA NextControl == ControlInv /\ OutputInv /\ [Next]_vars => ControlInv'
  <1>. SUFFICES ASSUME ControlInv, OutputInv, [Next]_vars PROVE ControlInv'
    OBVIOUS
  <1>1. CASE UNCHANGED vars
    BY <1>1 DEF ControlInv, vars, childVars, parseVars, pollVars, uiVars
  <1>2. CASE Child
    BY <1>2, PtyAssumption DEF ControlInv, Child, Emit, ConsumeInput, ChildExits,
                               OtherChildExits, parseVars, pollVars, uiVars
  <1>3. CASE Window
    <2>1. UNCHANGED <<script, signals, pc, ret, events, processed>>
      BY <1>3 DEF Window, childVars, pollVars, parseVars
    <2>2. uipc' \in {"idle", "notify", "wait", "wait_draw", "locked", "drawing"}
      BY <1>3 DEF Window, SendInput, SendResize, CloseWindow, Send, Notify, UiLockNext,
                  UiLockData, UiUnlock, ControlInv
    <2>3. drawn' \in 0..Len(script)
      BY <1>3, ScreenWithinScript DEF Window, SendInput, SendResize, CloseWindow, Send, Notify,
                  UiLockNext, UiLockData, UiUnlock, ControlInv
    <2>. QED BY <2>1, <2>2, <2>3 DEF ControlInv
  <1>. QED BY <1>1, <1>2, <1>3, EventLoopControl DEF Next

(* The kernel holds items that were emitted. *)
LEMMA TtyWithinEmitted == OutputInv => Range(tty) \subseteq 1..emitted
  <1>. SUFFICES ASSUME OutputInv PROVE Range(tty) \subseteq 1..emitted
    OBVIOUS
  <1>1. PICK n \in 0..emitted : Seen = Upto(n) BY DEF OutputInv
  <1>2. emitted \in Nat /\ n \in Nat BY DEF OutputInv
  <1>3. PICK b : b = screen \o sync_buf \o buf OBVIOUS
  <1>4. b \in Seq(Nat) /\ tty \in Seq(Nat) BY <1>3, SeenTypes DEF OutputInv
  <1>5. \A k \in 1..Len(tty) : tty[k] \in 1..n BY <1>1, <1>2, <1>3, <1>4, UptoSplit DEF Seen
  <1>6. \A k \in 1..Len(tty) : tty[k] \in 1..emitted BY <1>2, <1>5
  <1>7. DOMAIN tty = 1..Len(tty) BY <1>4
  <1>. QED BY <1>6, <1>7, Zenon DEF Range

(* TypeOK holds in every reachable state: among other things a read never overflows the
   read buffer (pty_read), and what the window has drawn never exceeds what the child
   has printed. *)
THEOREM TypesCorrect == Spec => []TypeOK
  <1>1. Spec => []OutputInv BY InitOutput, NextOutput, PTL DEF Spec
  <1>2. Spec => []InputInv BY InitInput, NextInput, PTL DEF Spec
  <1>3. Spec => []FlagsInv
    <2>1. Init => FlagsInv BY InitControl
    <2>. QED BY <2>1, NextFlags, PTL DEF Spec
  <1>4. Spec => []ControlInv
    <2>1. Init => ControlInv BY InitControl
    <2>. QED BY <1>1, <2>1, NextControl, PTL DEF Spec
  <1>5. OutputInv /\ InputInv /\ FlagsInv /\ ControlInv /\ LockDiscipline => TypeOK
    <2>. SUFFICES ASSUME OutputInv, InputInv, FlagsInv, ControlInv, LockDiscipline
                  PROVE  TypeOK
      OBVIOUS
    <2>1. {room, exited, sigchld, notified, wakeup, exit_event, timed_out, syncing, interest,
           open} \subseteq BOOLEAN
      BY Zenon DEF FlagsInv, OutputInv
    <2>2. next \in Threads \cup {Nobody} /\ data \in Threads \cup {Nobody}
      BY DEF LockDiscipline
    <2>3. emitted \in 0..Len(script) /\ Len(buf) <= READ_BUFFER_SIZE BY DEF OutputInv
    <2>4. /\ pty_size \in 0..MaxResizes /\ resizes \in 0..MaxResizes
          /\ inputs \in 0..Len(InputSizes)
      BY DEF InputInv
    <2>. QED BY <2>1, <2>2, <2>3, <2>4, TtyWithinEmitted, Zenon DEF TypeOK, ControlInv
  <1>. QED BY <1>1, <1>2, <1>3, <1>4, <1>5, LocksDisciplined, PTL

-----------------------------------------------------------------------------
(* The timeout of a synchronized update *)

(* The window has sent a message. *)
Said == inputs + resizes > 0 \/ ~open

(* Why poll returned without events: its timeout has passed, or the window has sent a
   message whose notification it is. *)
TimeoutInv ==
    /\ notified \/ uipc = "notify" => Said
    /\ pc = "check" /\ events = {} => timed_out \/ Said
    /\ pc \in {"sync_next", "sync_data"} => timed_out \/ Said

(* That a message was sent stays true. *)
LEMMA SaidStable == InputInv /\ [Next]_vars /\ Said => Said'
  <1>. SUFFICES ASSUME InputInv, [Next]_vars, Said PROVE Said'
    OBVIOUS
  <1>1. CASE UNCHANGED <<inputs, resizes, open>> BY <1>1 DEF Said
  <1>2. CASE Window
    BY <1>1, <1>2 DEF InputInv, Said, Window, SendInput, SendResize, CloseWindow, Notify,
                      UiLockNext, UiLockData, UiUnlock
  <1>3. CASE UNCHANGED vars BY <1>1, <1>3 DEF vars, uiVars
  <1>4. CASE Child BY <1>1, <1>4 DEF Child, uiVars
  <1>5. CASE EventLoop
    BY <1>1, <1>5 DEF EventLoop, PollWait, CheckTimeout, StopSyncNext, StopSync,
         drain_recv_channel, RecvInput, RecvResize, RecvShutdown, ChannelEmpty,
         ChildEvent, ReadWriteEvent, EventsHandled, pty_read, Lease, ReadSome, ReadWouldBlock,
         ReadError, TryLock, ForceLock, Parse, FinishRead, pty_write, WriteSome,
         WriteWouldBlock, WriteError, WriteDone, ExitNext, Exit, uiVars
  <1>. QED BY <1>2, <1>3, <1>4, <1>5 DEF Next

(* The reader begins at poll, not notified. *)
LEMMA InitTimeout == Init => TimeoutInv
  BY DEF Init, TimeoutInv

(* TimeoutInv is inductive. *)
LEMMA NextTimeout == TimeoutInv /\ InputInv /\ [Next]_vars => TimeoutInv'
  <1>. SUFFICES ASSUME TimeoutInv, InputInv, [Next]_vars PROVE TimeoutInv'
    OBVIOUS
  <1>. PICK s \in BOOLEAN : s = Said BY DEF Said
  <1>. PICK z \in BOOLEAN : z = Said' BY DEF Said
  <1>0. s => z BY SaidStable
  <1>1. CASE UNCHANGED vars
    BY <1>0, <1>1 DEF TimeoutInv, vars, queueVars, pollVars, uiVars
  <1>2. CASE Child BY <1>0, <1>2 DEF TimeoutInv, Child, queueVars, pollVars, uiVars
  <1>3. CASE Window
    <2>1. UNCHANGED pollVars BY <1>3 DEF Window
    <2>2. CASE SendInput
      <3>1. Said' BY <2>2 DEF Said, SendInput, InputInv
      <3>. QED BY <3>1 DEF TimeoutInv
    <2>3. CASE SendResize
      <3>1. Said' BY <2>3 DEF Said, SendResize, InputInv
      <3>. QED BY <3>1 DEF TimeoutInv
    <2>4. CASE CloseWindow
      <3>1. Said' BY <2>4 DEF Said, CloseWindow
      <3>. QED BY <3>1 DEF TimeoutInv
    <2>5. CASE Notify
      BY <1>0, <2>1, <2>5 DEF TimeoutInv, Notify, pollVars
    <2>6. CASE UiLockNext \/ UiLockData \/ UiUnlock
      <3>1. uipc' # "notify" /\ UNCHANGED notified
        BY <2>6 DEF UiLockNext, UiLockData, UiUnlock, queueVars
      <3>. QED BY <1>0, <2>1, <3>1 DEF TimeoutInv, pollVars
    <2>. QED BY <1>3, <2>2, <2>3, <2>4, <2>5, <2>6 DEF Window
  <1>4. CASE PollWait BY <1>0, <1>4 DEF TimeoutInv, PollWait, uiVars
  <1>5. CASE CheckTimeout BY <1>0, <1>5 DEF TimeoutInv, CheckTimeout, queueVars, uiVars
  <1>6. CASE StopSyncNext BY <1>0, <1>6 DEF TimeoutInv, StopSyncNext, queueVars, uiVars
  <1>7. CASE EventLoop /\ ~PollWait /\ ~CheckTimeout /\ ~StopSyncNext
    <2>1. /\ pc' \notin {"check", "sync_next", "sync_data"}
          /\ UNCHANGED <<notified, uipc>>
      <3>1. CASE StopSync \/ ExitNext \/ Exit \/ ChildEvent \/ ReadWriteEvent \/ EventsHandled
        BY <3>1 DEF StopSync, ExitNext, Exit, ChildEvent, ReadWriteEvent, EventsHandled,
                    queueVars, uiVars
      <3>2. CASE drain_recv_channel
        BY <3>2 DEF drain_recv_channel, RecvInput, RecvResize, RecvShutdown, ChannelEmpty,
                    queueVars, pollVars, uiVars
      <3>3. CASE Lease \/ ReadSome \/ ReadWouldBlock \/ ReadError \/ TryLock \/ ForceLock
                   \/ Parse
        BY <3>3 DEF Lease, ReadSome, ReadWouldBlock, ReadError, TryLock, ForceLock, Parse,
                    queueVars, uiVars
      <3>4. CASE FinishRead
        <4>1. pc' \in {"exit_next", "write", "events"} BY <3>4 DEF FinishRead
        <4>. QED BY <3>4, <4>1 DEF FinishRead, uiVars
      <3>5. CASE pty_write
        BY <3>5 DEF pty_write, WriteSome, WriteWouldBlock, WriteError, WriteDone, queueVars,
                    pollVars, uiVars
      <3>. QED BY <1>7, <3>1, <3>2, <3>3, <3>4, <3>5 DEF EventLoop, pty_read
    <2>. QED BY <1>0, <2>1 DEF TimeoutInv
  <1>. QED BY <1>1, <1>2, <1>3, <1>4, <1>5, <1>6, <1>7 DEF Next, EventLoop

(* OnlyMessagesCutSync: the branch of EventLoop::spawn that handles the timeout of a
   synchronized update is never taken on account of output, a signal or an exit, for
   every script, input and buffer size. *)
THEOREM SyncCutByTimeoutOrMessage == Spec => OnlyMessagesCutSync
  <1>1. Spec => []InputInv BY InitInput, NextInput, PTL DEF Spec
  <1>2. Spec => []TimeoutInv BY <1>1, InitTimeout, NextTimeout, PTL DEF Spec
  <1>3. TimeoutInv => [pc = "sync_data" /\ pc' = "poll" /\ syncing
                       => timed_out \/ inputs + resizes > 0 \/ ~open]_vars
    BY DEF TimeoutInv, Said
  <1>. QED BY <1>2, <1>3, PTL DEF OnlyMessagesCutSync

=============================================================================
