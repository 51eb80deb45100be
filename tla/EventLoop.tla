-------------------------------- MODULE EventLoop --------------------------------
(***************************************************************************)
(* The loop of client_listener: one thread that waits in select for its    *)
(* timer or for a request, serves one request at a time, and does all of   *)
(* its own downloading when select times out (client_client_comms).  The   *)
(* loop of tracker_listener is the same, with nothing to do on a timeout.  *)
(*                                                                         *)
(* The real clock of module TimerQueue runs while the thread is in select  *)
(* or in a session; everything else takes less than a microsecond.         *)
(***************************************************************************)
EXTENDS Integers, Sequences

CONSTANTS
  Second,       \* microseconds in one
  Millisecond,  \* microseconds in one
  MAXVALUE,     \* seconds that stand for an empty list of timers
  Timeouts,     \* timeouts that launch_client may add its timer with (3000 ms)
  StartTime,    \* task_start_time: the StartTime column of manager.conf
  Latency,      \* bound: how late select returns
  MaxSession,   \* bound: how long client_client_comms takes
  MaxRequests,  \* bound: datagrams that others send
  MaxTicks      \* bound: where elapsed_time stops

ASSUME LoopAssumption ==
  /\ Second \in Nat \ {0}
  /\ Millisecond \in Nat \ {0}
  /\ MAXVALUE \in Nat \ {0}
  /\ Timeouts \subseteq Nat \ {0}
  /\ {StartTime, Latency, MaxSession, MaxRequests, MaxTicks} \subseteq Nat

VARIABLES
  now,           \* gettimeofday
  head,          \* the list of timers
  pc,            \* "head" of the loop, "select", "drain" or "comms"
  elapsed_time,  \* static: what client_client_comms is told
  until,         \* when select, or the session, is over
  inbox,         \* datagrams in the socket
  served,        \* datagrams answered
  sent,          \* datagrams that others sent
  skipped,       \* expirations that were noticed at the head of the loop
  started        \* the moment at which the timer was added

loop == <<elapsed_time, served, skipped>>
vars == <<now, head, pc, loop, until, inbox, sent, started>>

Timers == INSTANCE TimerQueue WITH
            executing <- << >>, next_handle <- 2, Results <- {0}, MaxTimers <- 1,
            MaxSeconds <- 0

Micros(tv) == Timers!Micros(tv)
Wait       == Timers!Eq_NextTimer(head)
Expired    == Wait = Timers!Zero
NoTimer    == Wait = [sec |-> MAXVALUE, usec |-> 0]

\* launch_client adds the timer and enters the loop.
Init ==
  /\ now \in [sec : {0}, usec : 0 .. Second - 1]
  /\ \E timeout \in Timeouts : head = Timers!Eq_AddAfter(<< >>, 1, timeout)
  /\ pc = "head"
  /\ elapsed_time = 0
  /\ until = 0
  /\ inbox = 0
  /\ served = 0
  /\ sent = 0
  /\ skipped = 0
  /\ started = Micros(now)

--------------------------------------------------------------------------------
(***************************************************************************)
(* The environment.                                                        *)
(***************************************************************************)

Elapse ==
  /\ \/ pc = "select" /\ Micros(now) < until + Latency
     \/ pc = "comms" /\ Micros(now) < until
  /\ now' = Timers!Later(now)
  /\ UNCHANGED <<head, pc, loop, until, inbox, sent, started>>

Arrive ==
  /\ sent < MaxRequests
  /\ sent' = sent + 1
  /\ inbox' = inbox + 1
  /\ UNCHANGED <<now, head, pc, loop, until, started>>

--------------------------------------------------------------------------------
(***************************************************************************)
(* The loop.                                                               *)
(***************************************************************************)

\* Mutation: the callback tells the library to drop the timer.
CProcessTimer_GivesUp == -1

CProcessTimer == 0

\* Timers_ExecuteNextTimer with that callback, which takes no time.
Execute ==
  head' = IF CProcessTimer < 0 THEN Tail(head)
          ELSE Timers!Eq_AddAfter(Tail(head), Head(head).hdl, Head(head).timeout)

\* The timer expired while the thread was busy: it is set up again, and the loop
\* continues without client_client_comms and without counting.
HeadExpired ==
  /\ pc = "head"
  /\ Expired
  /\ Execute
  /\ skipped' = skipped + 1
  /\ UNCHANGED <<now, pc, elapsed_time, served, until, inbox, sent, started>>

\* Mutation: select is always given the whole period.
EnterSelect_WholePeriod ==
  /\ pc = "head"
  /\ ~Expired
  /\ ~NoTimer
  /\ elapsed_time < MaxTicks \/ inbox > 0
  /\ pc' = "select"
  /\ until' = Micros(now) + Head(head).timeout * Millisecond
  /\ UNCHANGED <<now, head, loop, inbox, sent, started>>

\* Without a timer the loop would end here; TypeOK says that there is one.
EnterSelect ==
  /\ pc = "head"
  /\ ~Expired
  /\ ~NoTimer
  /\ elapsed_time < MaxTicks \/ inbox > 0
  /\ pc' = "select"
  /\ until' = Micros(now) + Micros(Wait)
  /\ UNCHANGED <<now, head, loop, inbox, sent, started>>

\* Some systems refuse a timeval of a whole second of microseconds (the sum that
\* Timeval_Addusecs does not carry); the loop tries again.
SelectFails ==
  /\ pc = "head"
  /\ ~NoTimer
  /\ Wait.usec = Second
  /\ now' = Timers!Later(now)
  /\ UNCHANGED <<head, pc, loop, until, inbox, sent, started>>

\* Mutation: the expired timer is left to the head of the loop.
SelectTimeout_NotExecuted ==
  /\ pc = "select"
  /\ inbox = 0
  /\ Micros(now) >= until
  /\ pc' = "head"
  /\ UNCHANGED <<now, head, loop, until, inbox, sent, started>>

SelectTimeout ==
  /\ pc = "select"
  /\ inbox = 0
  /\ Micros(now) >= until
  /\ Execute
  /\ pc' = "drain"
  /\ UNCHANGED <<now, loop, until, inbox, sent, started>>

\* client_tracker_comms sends nothing before the start time, so that
\* client_client_comms has no neighbor and returns at once.
HasStarted == elapsed_time >= StartTime

\* The loop over all timers that have expired, and on to client_client_comms.
Drain ==
  /\ pc = "drain"
  /\ IF Expired THEN Execute /\ UNCHANGED <<pc, until>>
                ELSE /\ pc' = "comms"
                     /\ until' = Micros(now) + IF HasStarted THEN MaxSession ELSE 0
                     /\ UNCHANGED head
  /\ UNCHANGED <<now, loop, inbox, sent, started>>

\* client_client_comms returns, with or without having done anything.
EndComms ==
  /\ pc = "comms"
  /\ elapsed_time' = elapsed_time + 1
  /\ pc' = "head"
  /\ UNCHANGED <<now, head, served, skipped, until, inbox, sent, started>>

\* Mutation: every turn of the loop is counted.
SelectReadable_Counts ==
  /\ pc = "select"
  /\ inbox > 0
  /\ inbox' = inbox - 1
  /\ served' = served + 1
  /\ elapsed_time' = elapsed_time + 1
  /\ pc' = "head"
  /\ UNCHANGED <<now, head, skipped, until, sent, started>>

\* Mutation: the set of select is filled before the loop, and a timeout empties it.
SelectReadable_WatchedOnce ==
  /\ pc = "select"
  /\ inbox > 0
  /\ elapsed_time = 0
  /\ inbox' = inbox - 1
  /\ served' = served + 1
  /\ pc' = "head"
  /\ UNCHANGED <<now, head, elapsed_time, skipped, until, sent, started>>

\* One datagram is taken and answered (module Transfer says how).
SelectReadable ==
  /\ pc = "select"
  /\ inbox > 0
  /\ inbox' = inbox - 1
  /\ served' = served + 1
  /\ pc' = "head"
  /\ UNCHANGED <<now, head, elapsed_time, skipped, until, sent, started>>

client_listener ==
  \/ HeadExpired
  \/ EnterSelect
  \/ SelectFails
  \/ SelectTimeout
  \/ Drain
  \/ EndComms
  \/ SelectReadable

Next == Elapse \/ Arrive \/ client_listener

\* The clock runs, and the thread is scheduled.
Spec == /\ Init
        /\ [][Next]_vars
        /\ WF_vars(Elapse)
        /\ WF_vars(client_listener)

--------------------------------------------------------------------------------
(***************************************************************************)
(* Properties.                                                             *)
(***************************************************************************)

\* Type invariant.  There is always one timer, so that Timers_ExecuteNextTimer,
\* which does not look, never pops from an empty list, and the loop never ends.
TypeOK ==
  /\ now \in Timers!Clock
  /\ head \in Seq(Timers!Event)
  /\ Len(head) = 1
  /\ pc \in {"head", "select", "drain", "comms"}
  /\ {elapsed_time, until, served, skipped, started} \subseteq Nat
  /\ sent \in 0 .. MaxRequests
  /\ inbox = sent - served

\* A client does not begin before its start time, which manager.conf gives in
\* seconds, whatever it serves or misses in between: it counts ticks, but with a
\* timer of a second or more (it is three) no tick comes early.
NotBeforeStart ==
  pc = "comms" /\ HasStarted /\ Head(head).timeout * Millisecond >= Second =>
    StartTime * Second <= Micros(now) - started

\* "Download start time (in seconds from the start of simulation)": a timeout of
\* select after that moment finds the client started.  Not so: ticks are longer
\* than seconds.
StartsOnTime ==
  pc = "comms" /\ StartTime * Second <= Micros(now) - started => HasStarted

\* A tick is lost, and with it a chance to download, only when the thread was
\* away from select: serving a request, or in a session that outlasted its own
\* timer.  An idle client loses none.
TicksLostToWork == skipped <= served + elapsed_time

\* However ticks and requests interleave, the first deadline is not slept past:
\* a select ends when the timer is due, not a period later.
WakesForTimer == pc = "select" => until = Micros(Head(head).tv)

\* A request that waits while the client is in a session of its own, or for
\* other requests, is answered in the end.
RequestsServed == inbox > 0 ~> inbox = 0

\* If requests are finitely many, the client gets to all of its ticks.  (If they
\* never cease it may get to none: see HeadExpired.)
TicksGoOn == <>(elapsed_time >= MaxTicks)

--------------------------------------------------------------------------------
(***************************************************************************)
(* Invariants that the proofs of module EventLoopProofs carry through.     *)
(***************************************************************************)

Due    == Micros(Head(head).tv)
Period == Head(head).timeout * Millisecond

\* A timeout of select that client_client_comms has not counted yet.
Uncounted == IF pc \in {"drain", "comms"} THEN 1 ELSE 0

\* The timer is a period ahead at most, and behind it lie all that was counted,
\* which took a period each.
TicksTakePeriods ==
  /\ Head(head).timeout > 0
  /\ Due <= Micros(now) + Period
  /\ started + (elapsed_time + Uncounted) * Period + Period <= Due

\* A count of n stands for n periods at least.
NeverEarly ==
  elapsed_time * Head(head).timeout * Millisecond <= Micros(now) - started

\* Whoever comes back from work has a lost tick to its credit.
SkipsArePaid == pc = "head" /\ Expired => skipped < served + elapsed_time

================================================================================
