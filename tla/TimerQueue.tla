------------------------------- MODULE TimerQueue -------------------------------
(***************************************************************************)
(* The timer library (timers.cc) behind both select loops: a list of       *)
(* events, kept in order of their expiration times, which are pairs of     *)
(* seconds and microseconds.                                               *)
(*                                                                         *)
(* The library is driven by any caller: timers are added and removed at    *)
(* any time, also from within a callback, while the timer that runs is out *)
(* of the list; the clock may move on while it runs.                       *)
(***************************************************************************)
EXTENDS Integers, Sequences

CONSTANTS
  Second,       \* microseconds in one (1000000)
  Millisecond,  \* microseconds in one (1000)
  MAXVALUE,     \* seconds to wait when there is no timer
  Timeouts,     \* timeouts that AddTimer is called with, in milliseconds
  Results,      \* what callbacks return
  MaxTimers,    \* bound: calls of AddTimer
  MaxSeconds    \* bound: the clock

ASSUME TimerAssumption ==
  /\ Second \in Nat \ {0}
  /\ Millisecond \in Nat \ {0}
  /\ MAXVALUE \in Nat \ {0}
  /\ Timeouts \subseteq Nat \ {0}
  /\ Results \subseteq Int
  /\ MaxTimers \in Nat
  /\ MaxSeconds \in Nat

VARIABLES
  now,          \* gettimeofday
  head,         \* the list
  executing,    \* the event whose callback runs: a sequence of at most one
  next_handle

timerVars == <<head, executing, next_handle>>
vars      == <<now, timerVars>>

--------------------------------------------------------------------------------
(***************************************************************************)
(* Times.                                                                  *)
(***************************************************************************)

Clock   == [sec : Nat, usec : 0 .. Second - 1]
Timeval == [sec : Nat, usec : 0 .. Second]
Zero    == [sec |-> 0, usec |-> 0]

\* The moment that a timeval stands for.
Micros(tv) == tv.sec * Second + tv.usec

\* What gettimeofday returns a microsecond later.
Later(tv) == IF tv.usec + 1 < Second THEN [tv EXCEPT !.usec = @ + 1]
                                     ELSE [sec |-> tv.sec + 1, usec |-> 0]

Timeval_Cmp(x, y) ==
  CASE x.sec > y.sec -> 1
    [] x.sec < y.sec -> -1
    [] x.sec = y.sec /\ x.usec > y.usec -> 1
    [] x.sec = y.sec /\ x.usec < y.usec -> -1
    [] OTHER -> 0

\* Mutation: nothing is borrowed from the seconds.
Timeval_Sub_NoBorrow(x, y) ==
  IF Timeval_Cmp(x, y) < 0 THEN Zero
  ELSE [sec |-> x.sec - y.sec,
        usec |-> IF x.usec < y.usec THEN x.usec + Second - y.usec ELSE x.usec - y.usec]

\* x - y, or zero if y is later.
Timeval_Sub(x, y) ==
  IF Timeval_Cmp(x, y) < 0 THEN Zero
  ELSE IF x.usec < y.usec
         THEN [sec |-> x.sec - 1 - y.sec, usec |-> x.usec + Second - y.usec]
         ELSE [sec |-> x.sec - y.sec, usec |-> x.usec - y.usec]

\* Mutation: nothing is carried.
Timeval_Addusecs_NoCarry(tv, usecs) == [sec |-> tv.sec, usec |-> tv.usec + usecs]

\* A sum of exactly one second is not carried: Timeval, not Clock.
Timeval_Addusecs(tv, usecs) ==
  LET usec == tv.usec + usecs
  IN  IF usec > Second THEN [sec |-> tv.sec + usec \div Second, usec |-> usec % Second]
                       ELSE [sec |-> tv.sec, usec |-> usec]

--------------------------------------------------------------------------------
(***************************************************************************)
(* The list.                                                               *)
(***************************************************************************)

Event == [hdl : Nat, timeout : Nat, tv : Timeval]

Event_Cmp(x, y) == Timeval_Cmp(x.tv, y.tv)

\* Where the scan of Eq_Add stops: at the first event that is not earlier.
IsPlace(q, n, i) ==
  /\ \A j \in 1 .. i - 1 : Event_Cmp(n, q[j]) > 0
  /\ i <= Len(q) => ~ (Event_Cmp(n, q[i]) > 0)

\* Insertion in front of the events that are not earlier, equal ones included.
Eq_Add(q, n) ==
  LET i == CHOOSE k \in 1 .. Len(q) + 1 : IsPlace(q, n, k)
  IN  [j \in 1 .. Len(q) + 1 |-> IF j < i THEN q[j] ELSE IF j = i THEN n ELSE q[j - 1]]

Event_SetDelay(hdl, timeout, delay) ==
  [hdl |-> hdl, timeout |-> timeout, tv |-> Timeval_Addusecs(now, delay * Millisecond)]

Eq_AddAfter(q, hdl, timeout) == Eq_Add(q, Event_SetDelay(hdl, timeout, timeout))

Eq_Remove(q, i) == [j \in 1 .. Len(q) - 1 |-> IF j < i THEN q[j] ELSE q[j + 1]]

\* How long select may wait.
Eq_NextTimer(q) ==
  IF q = << >> THEN [sec |-> MAXVALUE, usec |-> 0]
               ELSE Timeval_Sub(q[1].tv, now)

--------------------------------------------------------------------------------
(***************************************************************************)
(* The operations of class Timers.                                         *)
(***************************************************************************)
Init ==
  /\ now \in [sec : {0}, usec : 0 .. Second - 1]
  /\ head = << >>
  /\ executing = << >>
  /\ next_handle = 1

Advance ==
  /\ now.sec < MaxSeconds
  /\ now' = Later(now)
  /\ UNCHANGED timerVars

AddTimer(timeout) ==
  /\ next_handle <= MaxTimers
  /\ next_handle' = next_handle + 1
  /\ head' = Eq_AddAfter(head, next_handle, timeout)
  /\ UNCHANGED <<now, executing>>

\* Finds nothing if the timer is the one that runs, or is gone.
RemoveTimer(hdl) ==
  /\ \E i \in DOMAIN head :
       /\ head[i].hdl = hdl
       /\ \A j \in 1 .. i - 1 : head[j].hdl # hdl
       /\ head' = Eq_Remove(head, i)
  /\ UNCHANGED <<now, executing, next_handle>>

\* ExecuteNextTimer up to the callback.  The callers look at NextTimerTime, so
\* the list is not empty.
BeginExecute ==
  /\ executing = << >>
  /\ head # << >>
  /\ executing' = <<Head(head)>>
  /\ head' = Tail(head)
  /\ UNCHANGED <<now, next_handle>>

\* Mutation: a new timeout is used once but not kept.
EndExecute_NotKept(result) ==
  /\ executing # << >>
  /\ LET e == executing[1]
     IN  head' = IF result < 0 THEN head
                 ELSE Eq_Add(head, Event_SetDelay(e.hdl, e.timeout,
                                     IF result > 0 THEN result ELSE e.timeout))
  /\ executing' = << >>
  /\ UNCHANGED <<now, next_handle>>

\* ExecuteNextTimer from the callback's return on.
EndExecute(result) ==
  /\ executing # << >>
  /\ LET e == executing[1]
     IN  head' = IF result < 0 THEN head
                 ELSE Eq_AddAfter(head, e.hdl, IF result > 0 THEN result ELSE e.timeout)
  /\ executing' = << >>
  /\ UNCHANGED <<now, next_handle>>

Next ==
  \/ Advance
  \/ \E timeout \in Timeouts : AddTimer(timeout)
  \/ \E hdl \in 1 .. MaxTimers : RemoveTimer(hdl)
  \/ BeginExecute
  \/ \E result \in Results : EndExecute(result)

Spec == Init /\ [][Next]_vars

--------------------------------------------------------------------------------
(***************************************************************************)
(* Properties.                                                             *)
(***************************************************************************)

\* Type invariant: the list holds events whose times may be one microsecond
\* short of normal, and at most one timer runs.
TypeOK ==
  /\ now \in Clock
  /\ head \in Seq(Event)
  /\ executing \in Seq(Event)
  /\ Len(executing) <= 1
  /\ next_handle \in Nat \ {0}

\* Whatever was added, removed and run before, from within callbacks or not:
\* the wait that Eq_NextTimer computes ends exactly when the first of all
\* timers is due, and is zero if one is due already, in spite of the missing
\* carry of Timeval_Addusecs.
WaitIsExact ==
  head # << >> =>
    /\ \A i \in DOMAIN head :
         Micros(Eq_NextTimer(head)) <= IF Micros(head[i].tv) <= Micros(now) THEN 0
                                       ELSE Micros(head[i].tv) - Micros(now)
    /\ \E i \in DOMAIN head :
         Micros(Eq_NextTimer(head)) = IF Micros(head[i].tv) <= Micros(now) THEN 0
                                      ELSE Micros(head[i].tv) - Micros(now)

\* A list seen as a set of timers with the moments at which they are due.
Abs(e)    == [hdl |-> e.hdl, timeout |-> e.timeout, due |-> Micros(e.tv)]
AbsAll(q) == {Abs(q[i]) : i \in DOMAIN q}

S == INSTANCE TimerSet WITH
       time    <- Micros(now),
       pending <- AbsAll(head),
       running <- AbsAll(executing)

\* The library implements the set of timers of its interface: no timer is lost
\* or run twice, the first one due is run first, and the next expiration is one
\* timeout after the callback returned.
ImplementsTimerSet == S!Spec

--------------------------------------------------------------------------------
(***************************************************************************)
(* Invariants that the proofs of module TimerProofs carry through.         *)
(***************************************************************************)

\* The list is in the order of its times, as Event_Cmp compares them.
IsSorted(q) == \A i, j \in DOMAIN q : i < j => Event_Cmp(q[i], q[j]) <= 0
Sorted      == IsSorted(head)

\* No handle is in use twice, and none that is still to be given out.
HandlesDiffer ==
  /\ \A i, j \in DOMAIN head : head[i].hdl = head[j].hdl => i = j
  /\ \A i \in DOMAIN head : head[i].hdl < next_handle
  /\ \A i \in DOMAIN executing :
       /\ executing[i].hdl < next_handle
       /\ \A j \in DOMAIN head : head[j].hdl # executing[i].hdl

================================================================================
