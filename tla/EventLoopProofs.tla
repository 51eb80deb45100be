----------------------------- MODULE EventLoopProofs -----------------------------
(***************************************************************************)
(* What the loop of a client guarantees for any timeout, any latency of    *)
(* select, sessions of any length, and any requests.  The times add up by  *)
(* the lemmas of TimerProofs.                                              *)
(***************************************************************************)
EXTENDS EventLoop, TLAPS, SequenceTheorems

P == INSTANCE TimerProofs WITH
       executing <- << >>, next_handle <- 2, Results <- {0}, MaxTimers <- 1, MaxSeconds <- 0

\* The assumption of the lemmas that are cited.
LEMMA TimersAssumed == P!TimerAssumption
  BY LoopAssumption DEF P!TimerAssumption

--------------------------------------------------------------------------------
(***************************************************************************)
(* Times and the list of one timer.                                        *)
(***************************************************************************)

\* Timeval_Addusecs adds.
LEMMA AddusecsAdds ==
  ASSUME NEW tv \in Timers!Clock, NEW usecs \in Nat
  PROVE  /\ Timers!Timeval_Addusecs(tv, usecs) \in Timers!Timeval
         /\ Micros(Timers!Timeval_Addusecs(tv, usecs)) = Micros(tv) + usecs
  BY TimersAssumed, P!AddusecsAdds
  DEF P!Clock, P!Timeval, P!Micros, P!Timeval_Addusecs, Micros,
      Timers!Clock, Timers!Timeval, Timers!Micros, Timers!Timeval_Addusecs

\* Timeval_Sub is the difference, cut off at zero.
LEMMA SubIsDifference ==
  ASSUME NEW x \in Timers!Timeval, NEW y \in Timers!Clock
  PROVE  Micros(Timers!Timeval_Sub(x, y)) = IF Micros(x) <= Micros(y) THEN 0
                                            ELSE Micros(x) - Micros(y)
  BY TimersAssumed, P!SubIsDifference
  DEF P!Clock, P!Timeval, P!Micros, P!Timeval_Sub, P!Timeval_Cmp, P!Zero, Micros,
      Timers!Clock, Timers!Timeval, Timers!Micros, Timers!Timeval_Sub,
      Timers!Timeval_Cmp, Timers!Zero

LEMMA SubType ==
  ASSUME NEW x \in Timers!Timeval, NEW y \in Timers!Clock
  PROVE  Timers!Timeval_Sub(x, y) \in Timers!Timeval
  BY LoopAssumption
  DEF Timers!Clock, Timers!Timeval, Timers!Timeval_Sub, Timers!Timeval_Cmp, Timers!Zero

LEMMA MicrosType ==
  ASSUME NEW tv \in Timers!Timeval
  PROVE  /\ Micros(tv) \in Nat
         /\ tv.usec <= Micros(tv)
         /\ Micros(tv) = 0 <=> tv = Timers!Zero
<1>1. tv.sec \in Nat /\ tv.usec \in Nat /\ Second \in Nat /\ Second > 0
  BY LoopAssumption DEF Timers!Timeval
<1>2. tv.sec * Second \in Nat /\ (tv.sec * Second = 0 <=> tv.sec = 0)
  BY <1>1
<1>3. Micros(tv) = tv.sec * Second + tv.usec
  BY DEF Micros, Timers!Micros
<1>4. tv = Timers!Zero <=> tv.sec = 0 /\ tv.usec = 0
  BY DEF Timers!Zero, Timers!Timeval
<1> QED BY <1>1, <1>2, <1>3, <1>4

LEMMA ClockIsTimeval == Timers!Clock \subseteq Timers!Timeval
  BY LoopAssumption DEF Timers!Clock, Timers!Timeval

LEMMA LaterIsLater ==
  ASSUME NEW tv \in Timers!Clock
  PROVE  Timers!Later(tv) \in Timers!Clock /\ Micros(Timers!Later(tv)) = Micros(tv) + 1
<1>1. tv.sec \in Nat /\ tv.usec \in 0 .. Second - 1 /\ Second \in Nat /\ Second > 0
  BY LoopAssumption DEF Timers!Clock
<1>2. CASE tv.usec + 1 < Second
  BY <1>1, <1>2 DEF Timers!Clock, Timers!Later, Micros, Timers!Micros
<1>3. CASE ~ (tv.usec + 1 < Second)
  <2>1. Timers!Later(tv) = [sec |-> tv.sec + 1, usec |-> 0] /\ tv.usec = Second - 1
    BY <1>1, <1>3 DEF Timers!Later
  <2>2. (tv.sec + 1) * Second = tv.sec * Second + Second
    BY <1>1
  <2> QED BY <1>1, <2>1, <2>2 DEF Timers!Clock, Micros, Timers!Micros
<1> QED BY <1>2, <1>3

\* Insertion into the empty list.
LEMMA AddToEmpty ==
  ASSUME NEW n
  PROVE  Timers!Eq_Add(<< >>, n) = <<n>>
<1>1. /\ Len(<< >>) = 0 /\ 1 .. 0 + 1 = {1}
      /\ Timers!IsPlace(<< >>, n, 1)
  BY DEF Timers!IsPlace
<1>2. (CHOOSE k \in 1 .. 0 + 1 : Timers!IsPlace(<< >>, n, k)) = 1
  BY <1>1
<1>3. Timers!Eq_Add(<< >>, n) = [j \in 1 .. 1 |-> n]
  BY <1>1, <1>2 DEF Timers!Eq_Add
<1> QED BY <1>3

\* A timer that is set is due after its timeout.
LEMMA AddedTimer ==
  ASSUME now \in Timers!Clock, NEW hdl \in Nat, NEW timeout \in Nat
  PROVE  \E e \in Timers!Event :
           /\ Timers!Eq_AddAfter(<< >>, hdl, timeout) = <<e>>
           /\ e.timeout = timeout
           /\ Micros(e.tv) = Micros(now) + timeout * Millisecond
<1> DEFINE e == Timers!Event_SetDelay(hdl, timeout, timeout)
<1>1. timeout * Millisecond \in Nat
  BY LoopAssumption
<1>2. e = [hdl |-> hdl, timeout |-> timeout,
           tv |-> Timers!Timeval_Addusecs(now, timeout * Millisecond)]
  BY DEF Timers!Event_SetDelay
<1>3. /\ e \in Timers!Event /\ e.timeout = timeout
      /\ Micros(e.tv) = Micros(now) + timeout * Millisecond
  BY <1>1, <1>2, AddusecsAdds DEF Timers!Event
<1>4. Timers!Eq_AddAfter(<< >>, hdl, timeout) = <<e>>
  BY AddToEmpty DEF Timers!Eq_AddAfter
<1> QED BY <1>3, <1>4

LEMMA OneElement ==
  ASSUME NEW S, NEW s \in Seq(S), Len(s) = 1
  PROVE  s # << >> /\ Head(s) = s[1] /\ Head(s) \in S /\ Tail(s) = << >>
<1>1. 1 \in 1 .. Len(s) /\ s # << >>
  OBVIOUS
<1>2. Head(s) = s[1] /\ s[1] \in S
  BY <1>1
<1>3. Tail(s) \in Seq(S) /\ Len(Tail(s)) = 0
  BY <1>1
<1>4. Tail(s) = << >>
  BY <1>3, EmptySeq
<1> QED BY <1>1, <1>2, <1>4

\* What the loop sees of its timer.
LEMMA TheTimer ==
  ASSUME TypeOK
  PROVE  /\ Head(head) \in Timers!Event /\ Tail(head) = << >>
         /\ Head(head).hdl \in Nat /\ Head(head).timeout \in Nat
         /\ Due \in Nat /\ Micros(now) \in Nat /\ Period \in Nat
         /\ Micros(Wait) = IF Due <= Micros(now) THEN 0 ELSE Due - Micros(now)
         /\ Wait.usec <= Micros(Wait)
         /\ Expired <=> Due <= Micros(now)
<1>1. head \in Seq(Timers!Event) /\ Len(head) = 1 /\ now \in Timers!Clock
  BY DEF TypeOK
<1>2. /\ Head(head) \in Timers!Event /\ Tail(head) = << >>
      /\ Head(head) = head[1] /\ head # << >>
  BY <1>1, OneElement
<1>3. /\ Head(head).tv \in Timers!Timeval
      /\ Head(head).hdl \in Nat /\ Head(head).timeout \in Nat
  BY <1>2 DEF Timers!Event
<1>4. Wait = Timers!Timeval_Sub(Head(head).tv, now)
  BY <1>1, <1>2 DEF Wait, Timers!Eq_NextTimer
<1>5. Wait \in Timers!Timeval /\ Due \in Nat /\ Micros(now) \in Nat
  BY <1>1, <1>3, <1>4, SubType, MicrosType, ClockIsTimeval DEF Due
<1>6. Micros(Wait) = IF Due <= Micros(now) THEN 0 ELSE Due - Micros(now)
  BY <1>1, <1>3, <1>4, SubIsDifference DEF Due
<1>7. /\ Wait.usec <= Micros(Wait)
      /\ Micros(Wait) = 0 <=> Wait = Timers!Zero
  BY <1>5, MicrosType
<1>8. Expired <=> Due <= Micros(now)
  BY <1>5, <1>6, <1>7 DEF Expired
<1>9. Period \in Nat
  BY <1>3, LoopAssumption DEF Period
<1> QED BY <1>2, <1>3, <1>5, <1>6, <1>7, <1>8, <1>9

\* Timers_ExecuteNextTimer sets the one timer up again, a period from now.
LEMMA ExecuteSetsTimer ==
  ASSUME TypeOK, Execute
  PROVE  /\ head' \in Seq(Timers!Event) /\ Len(head') = 1
         /\ Head(head').timeout = Head(head).timeout
         /\ Period' = Period
         /\ Due' = Micros(now) + Period
<1>1. now \in Timers!Clock
  BY DEF TypeOK
<1>2. head' = Timers!Eq_AddAfter(<< >>, Head(head).hdl, Head(head).timeout)
  <2>1. ~ (CProcessTimer < 0)
    BY DEF CProcessTimer
  <2>2. head' = Timers!Eq_AddAfter(Tail(head), Head(head).hdl, Head(head).timeout)
    BY <2>1 DEF Execute
  <2> QED BY <2>2, TheTimer
<1>3. PICK e \in Timers!Event :
        /\ head' = <<e>>
        /\ e.timeout = Head(head).timeout
        /\ Micros(e.tv) = Micros(now) + Head(head).timeout * Millisecond
  BY <1>1, <1>2, TheTimer, AddedTimer
<1>4. head' \in Seq(Timers!Event) /\ Len(head') = 1 /\ Head(head') = e
  BY <1>3
<1> QED BY <1>3, <1>4 DEF Due, Period

--------------------------------------------------------------------------------
(***************************************************************************)
(* Types.                                                                  *)
(***************************************************************************)

LEMMA InitTypeOK == Init => TypeOK
<1> SUFFICES ASSUME Init
             PROVE  TypeOK
  OBVIOUS
<1>1. now \in Timers!Clock
  BY LoopAssumption DEF Init, Timers!Clock
<1>2. PICK timeout \in Timeouts : head = Timers!Eq_AddAfter(<< >>, 1, timeout)
  BY DEF Init
<1>3. PICK e \in Timers!Event : head = <<e>>
  BY <1>1, <1>2, LoopAssumption, AddedTimer
<1>4. head \in Seq(Timers!Event) /\ Len(head) = 1
  BY <1>3
<1>5. started \in Nat
  BY <1>1, ClockIsTimeval, MicrosType DEF Init
<1> QED BY <1>1, <1>4, <1>5, LoopAssumption DEF Init, TypeOK

LEMMA NextTypeOK == TypeOK /\ [Next]_vars => TypeOK'
<1> SUFFICES ASSUME TypeOK, [Next]_vars
             PROVE  TypeOK'
  OBVIOUS
<1> USE LoopAssumption
<1>a. Micros(now) \in Nat /\ Micros(Wait) \in Nat
  BY TheTimer
<1>1. CASE Elapse
  BY <1>1, LaterIsLater DEF Elapse, TypeOK, loop
<1>2. CASE Arrive
  BY <1>2 DEF Arrive, TypeOK, loop
<1>3. CASE HeadExpired
  BY <1>3, ExecuteSetsTimer DEF HeadExpired, TypeOK
<1>4. CASE EnterSelect
  BY <1>a, <1>4 DEF EnterSelect, TypeOK, loop
<1>5. CASE SelectFails
  BY <1>5, LaterIsLater DEF SelectFails, TypeOK, loop
<1>6. CASE SelectTimeout
  BY <1>6, ExecuteSetsTimer DEF SelectTimeout, TypeOK, loop
<1>7. CASE Drain
  <2>1. CASE Expired
    BY <1>7, <2>1, ExecuteSetsTimer DEF Drain, TypeOK, loop
  <2>2. CASE ~Expired
    BY <1>a, <1>7, <2>2 DEF Drain, TypeOK, loop
  <2> QED BY <2>1, <2>2
<1>8. CASE EndComms
  BY <1>8 DEF EndComms, TypeOK
<1>9. CASE SelectReadable
  BY <1>9, SMTT(30) DEF SelectReadable, TypeOK
<1>10. CASE UNCHANGED vars
  BY <1>10 DEF vars, loop, TypeOK
<1> QED
  BY <1>1, <1>2, <1>3, <1>4, <1>5, <1>6, <1>7, <1>8, <1>9, <1>10
  DEF Next, client_listener

\* There is always exactly one timer, whatever is served or missed
\* (client_listener, launch_client).
THEOREM TypeCorrect == Spec => []TypeOK
  BY InitTypeOK, NextTypeOK, PTL DEF Spec

--------------------------------------------------------------------------------
(***************************************************************************)
(* The wait of select.                                                     *)
(***************************************************************************)

\* A select ends when the timer is due (client_listener).
THEOREM SelectWakesForTimer == Spec => []WakesForTimer
<1>1. Init => WakesForTimer
  BY DEF Init, WakesForTimer
<1>2. TypeOK /\ WakesForTimer /\ [Next]_vars => WakesForTimer'
  <2> SUFFICES ASSUME TypeOK, WakesForTimer, [Next]_vars
               PROVE  WakesForTimer'
    OBVIOUS
  <2>1. CASE EnterSelect
    <3>1. until' = Micros(now) + Micros(Wait) /\ head' = head /\ ~Expired
      BY <2>1 DEF EnterSelect
    <3>2. until' = Due
      BY <3>1, TheTimer
    <3> QED BY <3>1, <3>2 DEF WakesForTimer, Due
  <2>2. CASE pc' # "select"
    BY <2>2 DEF WakesForTimer
  <2>3. CASE UNCHANGED <<head, until, pc>>
    BY <2>3 DEF WakesForTimer
  <2> QED
    BY <2>1, <2>2, <2>3
    DEF Next, client_listener, Elapse, Arrive, HeadExpired, SelectFails, SelectTimeout,
        Drain, EndComms, SelectReadable, vars
<1> QED BY <1>1, <1>2, InitTypeOK, NextTypeOK, PTL DEF Spec

--------------------------------------------------------------------------------
(***************************************************************************)
(* Ticks and the clock.                                                    *)
(***************************************************************************)

LEMMA InitTicks == Init => TicksTakePeriods
<1> SUFFICES ASSUME Init
             PROVE  TicksTakePeriods
  OBVIOUS
<1>1. now \in Timers!Clock
  BY LoopAssumption DEF Init, Timers!Clock
<1>2. PICK timeout \in Timeouts : head = Timers!Eq_AddAfter(<< >>, 1, timeout)
  BY DEF Init
<1>3. timeout \in Nat /\ timeout > 0
  BY LoopAssumption
<1>4. PICK e \in Timers!Event :
        /\ head = <<e>>
        /\ e.timeout = timeout
        /\ Micros(e.tv) = Micros(now) + timeout * Millisecond
  BY <1>1, <1>2, <1>3, AddedTimer
<1>5. Head(head) = e
  BY <1>4
<1>6. Head(head).timeout > 0 /\ Due = Micros(now) + Period
  BY <1>3, <1>4, <1>5 DEF Due, Period
<1>7. Micros(now) \in Nat /\ Period \in Nat
  BY InitTypeOK, TheTimer
<1>8. elapsed_time + Uncounted = 0 /\ started = Micros(now)
  BY DEF Init, Uncounted
<1>9. 0 * Period = 0
  BY <1>7
<1> QED BY <1>6, <1>7, <1>8, <1>9 DEF TicksTakePeriods

\* Setting the timer up again keeps what was counted behind it.
LEMMA ExecuteKeepsTicks ==
  ASSUME TypeOK, TicksTakePeriods, Execute, Due <= Micros(now),
         UNCHANGED <<now, started, elapsed_time>>,
         Uncounted' \in Nat, Uncounted' <= Uncounted + 1
  PROVE  TicksTakePeriods'
<1> DEFINE n == elapsed_time + Uncounted
           m == elapsed_time + Uncounted'
<1>1. n \in Nat /\ m \in Nat /\ m <= n + 1
  BY DEF TypeOK, Uncounted
<1>2. /\ Due \in Nat /\ Micros(now) \in Nat /\ Period \in Nat /\ started \in Nat
      /\ Due' = Micros(now) + Period /\ Period' = Period
      /\ Head(head').timeout = Head(head).timeout
  BY TheTimer, ExecuteSetsTimer DEF TypeOK
<1>3. started + n * Period + Period <= Due /\ Head(head).timeout > 0
  BY DEF TicksTakePeriods
<1> HIDE DEF n, m
<1>4. m * Period <= n * Period + Period /\ m * Period \in Nat /\ n * Period \in Nat
  <2>1. \A x, y, z \in Nat : x <= y + 1 => x * z <= y * z + z
    <3>1. SUFFICES ASSUME NEW x \in Nat, NEW y \in Nat, NEW z \in Nat, x <= y + 1
                   PROVE  x * z <= y * z + z
      OBVIOUS
    <3>2. PICK k \in Nat : y + 1 = x + k
      <4>1. y + 1 - x \in Nat /\ y + 1 = x + (y + 1 - x)
        BY <3>1
      <4> QED BY <4>1
    <3>3. (y + 1) * z = x * z + k * z /\ k * z >= 0 /\ (y + 1) * z = y * z + z
      BY <3>1, <3>2
    <3>4. x * z \in Nat /\ k * z \in Nat /\ y * z \in Nat
      BY <3>1
    <3> QED BY <3>3, <3>4
  <2> QED BY <1>1, <1>2, <2>1
<1>5. started + m * Period + Period <= Due'
  BY <1>2, <1>3, <1>4
<1>6. Due' <= Micros(now') + Period'
  BY <1>2
<1>7. started' + m * Period' + Period' <= Due'
  BY <1>2, <1>5
<1>8. (elapsed_time + Uncounted)' = m
  BY DEF m
<1> QED BY <1>2, <1>3, <1>6, <1>7, <1>8 DEF TicksTakePeriods

LEMMA NextTicks ==
  TypeOK /\ WakesForTimer /\ TicksTakePeriods /\ [Next]_vars => TicksTakePeriods'
<1> SUFFICES ASSUME TypeOK, WakesForTimer, TicksTakePeriods, [Next]_vars
             PROVE  TicksTakePeriods'
  OBVIOUS
<1>a. /\ Due \in Nat /\ Micros(now) \in Nat /\ Period \in Nat
      /\ Due <= Micros(now) + Period
      /\ Expired <=> Due <= Micros(now)
  BY TheTimer DEF TicksTakePeriods
<1>b. ASSUME UNCHANGED <<head, started, elapsed_time, Uncounted>>,
             now' = now \/ now' = Timers!Later(now)
      PROVE  TicksTakePeriods'
  <2>1. Micros(now') \in Nat /\ Micros(now) <= Micros(now')
    BY <1>a, <1>b, LaterIsLater, SMTT(30) DEF TypeOK
  <2>2. Due' = Due /\ Period' = Period
    BY <1>b DEF Due, Period
  <2>3. Due' <= Micros(now') + Period'
    BY <1>a, <2>1, <2>2
  <2> QED BY <1>b, <2>2, <2>3 DEF TicksTakePeriods
<1>1. CASE Elapse
  BY <1>b, <1>1 DEF Elapse, loop, Uncounted
<1>2. CASE Arrive
  BY <1>b, <1>2 DEF Arrive, loop, Uncounted
<1>3. CASE HeadExpired
  <2>1. Execute /\ Expired /\ UNCHANGED <<now, started, elapsed_time, pc>>
    BY <1>3 DEF HeadExpired
  <2>2. Uncounted' = Uncounted /\ Uncounted \in Nat
    BY <2>1 DEF Uncounted
  <2> QED BY <1>a, <2>1, <2>2, ExecuteKeepsTicks
<1>4. CASE EnterSelect
  BY <1>b, <1>4 DEF EnterSelect, loop, Uncounted
<1>5. CASE SelectFails
  BY <1>b, <1>5 DEF SelectFails, loop, Uncounted
<1>6. CASE SelectTimeout
  <2>1. /\ Execute /\ UNCHANGED <<now, started, elapsed_time>>
        /\ pc = "select" /\ pc' = "drain" /\ Micros(now) >= until
    BY <1>6 DEF SelectTimeout, loop
  <2>2. Uncounted' = 1 /\ Uncounted = 0
    BY <2>1 DEF Uncounted
  <2>3. until = Due
    BY <2>1 DEF WakesForTimer, Due
  <2> QED BY <1>a, <2>1, <2>2, <2>3, ExecuteKeepsTicks
<1>7. CASE Drain
  <2>1. UNCHANGED <<now, started, elapsed_time>> /\ pc = "drain" /\ pc' \in {"drain", "comms"}
        /\ (Expired => Execute) /\ (~Expired => head' = head)
    BY <1>7 DEF Drain, loop
  <2>2. Uncounted' = 1 /\ Uncounted = 1
    BY <2>1 DEF Uncounted
  <2>3. CASE Expired
    BY <1>a, <2>1, <2>2, <2>3, ExecuteKeepsTicks
  <2>4. CASE ~Expired
    BY <1>b, <2>1, <2>2, <2>4
  <2> QED BY <2>3, <2>4
<1>8. CASE EndComms
  <2>1. UNCHANGED <<now, head, started>> /\ pc = "comms" /\ pc' = "head"
        /\ elapsed_time' = elapsed_time + 1 /\ elapsed_time \in Nat
    BY <1>8 DEF EndComms, TypeOK
  <2>2. elapsed_time' + Uncounted' = elapsed_time + Uncounted
    BY <2>1 DEF Uncounted
  <2>3. Due' = Due /\ Period' = Period
    BY <2>1 DEF Due, Period
  <2> QED BY <2>1, <2>2, <2>3 DEF TicksTakePeriods
<1>9. CASE SelectReadable
  BY <1>b, <1>9 DEF SelectReadable, Uncounted
<1>10. CASE UNCHANGED vars
  BY <1>b, <1>10 DEF vars, loop, Uncounted
<1> QED
  BY <1>1, <1>2, <1>3, <1>4, <1>5, <1>6, <1>7, <1>8, <1>9, <1>10
  DEF Next, client_listener

\* A product grows with both of its factors.
LEMMA ProductsGrow ==
  ASSUME NEW k \in Nat, NEW m \in Nat, NEW x \in Nat, NEW y \in Nat, k <= m, x <= y
  PROVE  k * x <= m * y
<1>1. PICK i \in Nat : m = k + i
  <2>1. m - k \in Nat /\ m = k + (m - k)
    OBVIOUS
  <2> QED BY <2>1
<1>2. PICK j \in Nat : y = x + j
  <2>1. y - x \in Nat /\ y = x + (y - x)
    OBVIOUS
  <2> QED BY <2>1
<1>3. m * y = k * x + k * j + i * y
  <2>1. m * y = k * y + i * y
    BY <1>1
  <2>2. k * y = k * x + k * j
    BY <1>2
  <2> QED BY <2>1, <2>2
<1>4. k * x \in Nat /\ k * j \in Nat /\ i * y \in Nat
  OBVIOUS
<1> QED BY <1>3, <1>4

\* Ticks are counted no faster than the clock runs.
LEMMA TicksAreNotEarly == TypeOK /\ TicksTakePeriods => NeverEarly
<1> SUFFICES ASSUME TypeOK, TicksTakePeriods
             PROVE  NeverEarly
  OBVIOUS
<1>1. /\ Due \in Nat /\ Micros(now) \in Nat /\ Period \in Nat
      /\ elapsed_time \in Nat /\ started \in Nat /\ Uncounted \in Nat
      /\ Head(head).timeout \in Nat /\ Millisecond \in Nat
  BY TheTimer, LoopAssumption DEF TypeOK, Uncounted
<1>2. started + (elapsed_time + Uncounted) * Period <= Micros(now)
  <2>1. (elapsed_time + Uncounted) * Period \in Nat
    BY <1>1
  <2> QED BY <1>1, <2>1 DEF TicksTakePeriods
<1>3. (elapsed_time + Uncounted) * Period = elapsed_time * Period + Uncounted * Period
      /\ Uncounted * Period \in Nat /\ elapsed_time * Period \in Nat
  BY <1>1
<1>4. elapsed_time * Period <= Micros(now) - started
  BY <1>1, <1>2, <1>3
<1>5. elapsed_time * Head(head).timeout * Millisecond = elapsed_time * Period
  BY <1>1 DEF Period
<1> QED BY <1>4, <1>5 DEF NeverEarly

\* The start time of manager.conf is a lower bound: a client does not begin
\* before so many seconds have passed, however long its sessions, however late
\* select and whatever it serves (client_listener, and the test at the head of
\* client_tracker_comms).
THEOREM StartTimesAreKept == Spec => []NotBeforeStart
<1>1. TypeOK /\ TicksTakePeriods => NotBeforeStart
  <2> SUFFICES ASSUME TypeOK, TicksTakePeriods, HasStarted,
                      Head(head).timeout * Millisecond >= Second
               PROVE  StartTime * Second <= Micros(now) - started
    BY DEF NotBeforeStart
  <2>1. /\ StartTime \in Nat /\ Second \in Nat /\ Period \in Nat /\ elapsed_time \in Nat
        /\ Head(head).timeout \in Nat /\ Millisecond \in Nat
        /\ Micros(now) \in Nat /\ started \in Nat
    BY TheTimer, LoopAssumption DEF TypeOK
  <2>2. StartTime <= elapsed_time /\ Second <= Period
    BY <2>1 DEF HasStarted, Period
  <2>3. StartTime * Second <= elapsed_time * Period
    BY <2>1, <2>2, ProductsGrow
  <2>4. elapsed_time * Period <= Micros(now) - started
    <3>1. elapsed_time * Head(head).timeout * Millisecond = elapsed_time * Period
      BY <2>1 DEF Period
    <3> QED BY <3>1, TicksAreNotEarly DEF NeverEarly
  <2>5. StartTime * Second \in Nat /\ elapsed_time * Period \in Nat
    BY <2>1
  <2> QED BY <2>1, <2>3, <2>4, <2>5
<1>2. Spec => []WakesForTimer
  BY SelectWakesForTimer
<1>3. Spec => [](TypeOK /\ TicksTakePeriods)
  BY <1>2, InitTypeOK, NextTypeOK, InitTicks, NextTicks, PTL DEF Spec
<1> QED BY <1>1, <1>3, PTL

--------------------------------------------------------------------------------
(***************************************************************************)
(* Lost ticks.                                                             *)
(***************************************************************************)

SkipInv == TicksLostToWork /\ SkipsArePaid

LEMMA InitSkipInv == Init => SkipInv
<1> SUFFICES ASSUME Init
             PROVE  TicksLostToWork /\ ~Expired
  BY DEF SkipInv, SkipsArePaid
<1>1. TicksLostToWork
  BY DEF Init, TicksLostToWork
<1>2. /\ started = Micros(now) /\ Period \in Nat /\ Period > 0 /\ Micros(now) \in Nat
      /\ (elapsed_time + Uncounted) * Period = 0
  <2>1. TypeOK /\ TicksTakePeriods
    BY InitTypeOK, InitTicks
  <2>2. Head(head).timeout \in Nat /\ Head(head).timeout > 0 /\ Micros(now) \in Nat
    BY <2>1, TheTimer DEF TicksTakePeriods
  <2>3. Period \in Nat /\ Period > 0
    BY <2>2, LoopAssumption DEF Period
  <2>4. elapsed_time + Uncounted = 0
    BY DEF Init, Uncounted
  <2> QED BY <2>2, <2>3, <2>4 DEF Init
<1>3. Due > Micros(now)
  <2>1. started + 0 + Period <= Due /\ Due \in Nat
    BY <1>2, InitTypeOK, InitTicks, TheTimer DEF TicksTakePeriods
  <2> QED BY <1>2, <2>1
<1>4. ~Expired
  BY <1>2, <1>3, InitTypeOK, TheTimer
<1> QED BY <1>1, <1>4

LEMMA ExpiredNow == TypeOK => (Expired <=> Due <= Micros(now))
  BY TheTimer

LEMMA ExpiredThen == TypeOK' => (Expired <=> Due <= Micros(now))'
  BY ExpiredNow, PTL

LEMMA NextSkipInv ==
  ASSUME Second > 1
  PROVE  TypeOK /\ TicksTakePeriods /\ SkipInv /\ [Next]_vars => SkipInv'
<1> SUFFICES ASSUME TypeOK, TicksTakePeriods, TicksLostToWork, SkipsArePaid, [Next]_vars
             PROVE  TicksLostToWork' /\ SkipsArePaid'
  BY DEF SkipInv
<1>a. /\ Due \in Nat /\ Micros(now) \in Nat /\ Period \in Nat /\ Period > 0
      /\ Expired <=> Due <= Micros(now)
      /\ skipped \in Nat /\ served \in Nat /\ elapsed_time \in Nat
  <2>1. /\ Due \in Nat /\ Micros(now) \in Nat
        /\ Expired <=> Due <= Micros(now)
        /\ Head(head).timeout \in Nat
    BY TheTimer
  <2>2. Head(head).timeout > 0
    BY DEF TicksTakePeriods
  <2>3. Millisecond \in Nat /\ Millisecond > 0
    BY LoopAssumption
  <2>4. \A k, l \in Nat : k > 0 /\ l > 0 => k * l \in Nat /\ k * l > 0
    OBVIOUS
  <2>5. Period \in Nat /\ Period > 0
    BY <2>1, <2>2, <2>3, <2>4 DEF Period
  <2>6. skipped \in Nat /\ served \in Nat /\ elapsed_time \in Nat
    BY DEF TypeOK
  <2> QED BY <2>1, <2>5, <2>6
<1>b. TypeOK'
  BY NextTypeOK
<1>c. Expired' <=> Due' <= Micros(now')
  BY <1>b, ExpiredThen
<1>1. CASE Elapse
  BY <1>1 DEF Elapse, loop, TicksLostToWork, SkipsArePaid
<1>2. CASE Arrive
  <2>1. Expired' = Expired
    BY <1>2 DEF Arrive, Expired, Wait, Timers!Eq_NextTimer
  <2> QED BY <1>2, <2>1 DEF Arrive, loop, TicksLostToWork, SkipsArePaid
<1>3. CASE HeadExpired
  <2>1. /\ Execute /\ Expired /\ pc = "head" /\ now' = now /\ skipped' = skipped + 1
        /\ UNCHANGED <<served, elapsed_time>>
    BY <1>3 DEF HeadExpired
  <2>2. Due' = Micros(now) + Period
    BY <2>1, ExecuteSetsTimer
  <2>3. ~ (Due' <= Micros(now'))
    BY <1>a, <2>1, <2>2
  <2>4. skipped < served + elapsed_time
    BY <2>1 DEF SkipsArePaid
  <2> QED BY <1>a, <1>c, <2>1, <2>3, <2>4 DEF TicksLostToWork, SkipsArePaid
<1>4. CASE EnterSelect
  BY <1>4 DEF EnterSelect, loop, TicksLostToWork, SkipsArePaid
<1>5. CASE SelectFails
  <2>1. Wait.usec = Second /\ now' = Timers!Later(now) /\ UNCHANGED <<head, loop>>
    BY <1>5 DEF SelectFails
  <2>2. Due - Micros(now) >= Second /\ Second \in Nat
    BY <2>1, LoopAssumption, TheTimer
  <2>3. Micros(now') = Micros(now) + 1
    BY <2>1, LaterIsLater DEF TypeOK
  <2>4. Due' = Due
    BY <2>1 DEF Due
  <2>5. ~ (Due' <= Micros(now'))
    BY <1>a, <2>2, <2>3, <2>4
  <2> QED BY <1>c, <2>1, <2>5 DEF loop, TicksLostToWork, SkipsArePaid
<1>6. CASE SelectTimeout
  BY <1>6 DEF SelectTimeout, loop, TicksLostToWork, SkipsArePaid
<1>7. CASE Drain
  BY <1>7 DEF Drain, loop, TicksLostToWork, SkipsArePaid
<1>8. CASE EndComms
  BY <1>8, <1>a DEF EndComms, TicksLostToWork, SkipsArePaid
<1>9. CASE SelectReadable
  BY <1>9, <1>a DEF SelectReadable, TicksLostToWork, SkipsArePaid
<1>10. CASE UNCHANGED vars
  <2>1. Expired' = Expired
    BY <1>10 DEF vars, Expired, Wait, Timers!Eq_NextTimer
  <2> QED BY <1>10, <2>1 DEF vars, loop, TicksLostToWork, SkipsArePaid
<1> QED
  BY <1>1, <1>2, <1>3, <1>4, <1>5, <1>6, <1>7, <1>8, <1>9, <1>10
  DEF Next, client_listener

\* A client that neither serves nor downloads loses no tick: each one that is
\* noticed at the head of the loop has a request or a session in front of it
\* (client_listener).  Some select that refuses a whole second of microseconds
\* costs a microsecond, hence the condition on the length of a second.
THEOREM OnlyWorkLosesTicks ==
  ASSUME Second > 1
  PROVE  Spec => []TicksLostToWork
<1>1. Spec => [](TypeOK /\ TicksTakePeriods)
  BY SelectWakesForTimer, InitTypeOK, NextTypeOK, InitTicks, NextTicks, PTL DEF Spec
<1>2. SkipInv => TicksLostToWork
  BY DEF SkipInv
<1> QED BY <1>1, <1>2, InitSkipInv, NextSkipInv, PTL DEF Spec

================================================================================
