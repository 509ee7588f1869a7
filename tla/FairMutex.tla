------------------------------ MODULE FairMutex ------------------------------
(***************************************************************************)
(* The fair mutex around the terminal (velacritty_terminal/src/sync.rs):   *)
(* `data` guards the terminal, `next` reserves the right to lock it next.  *)
(* Each operator is one atomic step of a thread; a thread that cannot take *)
(* the step waits.  The mutexes themselves are parking_lot's.              *)
(***************************************************************************)

CONSTANTS
    Threads,
    Nobody

ASSUME ThreadsAssumption == Nobody \notin Threads

VARIABLES
    next,    \* the thread that holds FairMutex::next, or Nobody
    data     \* the thread that holds FairMutex::data, or Nobody

mutexVars == <<next, data>>

MutexInit == next = Nobody /\ data = Nobody

lease(t) ==
    /\ next = Nobody
    /\ next' = t
    /\ UNCHANGED data

(* lock() is two acquisitions: first `next`, as in lease(), then `data`;
   `next` is released when the function returns. *)
lock_next(t) == lease(t)

lock_data(t) ==
    /\ next = t
    /\ data = Nobody
    /\ data' = t
    /\ next' = Nobody

lock_unfair(t) ==
    /\ data = Nobody
    /\ data' = t
    /\ UNCHANGED next

(* The guard of lock() goes out of scope. *)
unlock(t) ==
    /\ data = t
    /\ data' = Nobody
    /\ UNCHANGED next

(* Faulty variant: the guard of the terminal outlives the lease. *)
drop_lease_KeepsTerminal(t) ==
    /\ next = t
    /\ next' = Nobody
    /\ UNCHANGED data

(* Both guards of pty_read, or only the lease, go out of scope. *)
drop_lease(t) ==
    /\ next = t
    /\ next' = Nobody
    /\ data' = IF data = t THEN Nobody ELSE data

=============================================================================
