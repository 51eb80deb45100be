-------------------------------- MODULE TimerSet --------------------------------
(***************************************************************************)
(* What the timer library promises its callers (timers.hh): a set of       *)
(* timers, each with a moment at which it is due.  The one that is run is  *)
(* always one that is due first; depending on what its callback returns it *)
(* is dropped, or is due again one timeout after the callback returned.    *)
(* No list, no seconds and no carries: time is a count of microseconds.    *)
(***************************************************************************)
EXTENDS Integers

CONSTANTS
  Millisecond,  \* microseconds in one
  Timeouts,     \* timeouts, in milliseconds
  Results       \* what a callback may return

VARIABLES
  time,         \* the clock
  pending,      \* timers [hdl, timeout, due]
  running,      \* the timer whose callback runs: a set of at most one
  next_handle

vars == <<time, pending, running, next_handle>>

Init == time \in Nat /\ pending = {} /\ running = {} /\ next_handle = 1

TimePasses ==
  /\ time' \in Nat
  /\ time' > time
  /\ UNCHANGED <<pending, running, next_handle>>

Timer(hdl, timeout) ==
  [hdl |-> hdl, timeout |-> timeout, due |-> time + timeout * Millisecond]

Add(timeout) ==
  /\ pending' = pending \cup {Timer(next_handle, timeout)}
  /\ next_handle' = next_handle + 1
  /\ UNCHANGED <<time, running>>

\* A timer that is running cannot be removed: it is not pending.
Remove(hdl) ==
  /\ pending' = {e \in pending : e.hdl # hdl}
  /\ UNCHANGED <<time, running, next_handle>>

Fire ==
  /\ running = {}
  /\ \E e \in pending :
       /\ \A f \in pending : e.due <= f.due
       /\ pending' = pending \ {e}
       /\ running' = {e}
  /\ UNCHANGED <<time, next_handle>>

\* A callback that returns -1 gives its timer up, 0 keeps its timeout, and any
\* other number is a new timeout.
Return(result) ==
  /\ \E e \in running :
       pending' = IF result < 0 THEN pending
                  ELSE pending \cup {Timer(e.hdl, IF result = 0 THEN e.timeout ELSE result)}
  /\ running' = {}
  /\ UNCHANGED <<time, next_handle>>

Next ==
  \/ TimePasses
  \/ \E timeout \in Timeouts : Add(timeout)
  \/ \E e \in pending : Remove(e.hdl)
  \/ Fire
  \/ \E result \in Results : Return(result)

Spec == Init /\ [][Next]_vars

================================================================================
