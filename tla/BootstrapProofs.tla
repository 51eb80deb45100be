----------------------------- MODULE BootstrapProofs -----------------------------
(***************************************************************************)
(* What the start of the system guarantees for any number of clients, any  *)
(* table, any backlog and any number of tries.                             *)
(***************************************************************************)
EXTENDS Bootstrap, TLAPS

USE DEF Processes, Port

\* What accept takes from the backlog, and recv from a socket.
LEMMA HeadAndTail ==
  ASSUME NEW S, NEW s \in Seq(S), s # << >>
  PROVE  /\ Head(s) \in S
         /\ Tail(s) \in Seq(S)
         /\ Head(s) = s[1]
         /\ 1 \in DOMAIN s /\ Len(s) \in Nat /\ Len(s) > 0
         /\ Len(Tail(s)) = Len(s) - 1
         /\ \A i \in DOMAIN Tail(s) : i + 1 \in DOMAIN s /\ Tail(s)[i] = s[i + 1]
  OBVIOUS

--------------------------------------------------------------------------------
(***************************************************************************)
(* Types and counters.                                                     *)
(***************************************************************************)

TypeInv == TypeOK /\ CountersFit

LEMMA InitTypeInv == Init => TypeInv
<1> SUFFICES ASSUME Init
             PROVE  TypeOK /\ CountersFit
  BY DEF TypeInv
<1>1. serving \in Connection
  BY DEF Init, Connection
<1>2. << >> \in Seq(Connection) /\ << >> \in Seq(Port)
  OBVIOUS
<1>3. MaxClients \in Nat /\ MaxClients > 0
  BY BootstrapAssumption
<1>4. /\ proc \in [Processes -> {"starting", "waiting", "up", "dead"}]
      /\ tries \in [Processes -> Nat]
      /\ known_port \in [Clients -> Port]
  BY DEF Init
<1>5. inbox \in [Processes -> Seq(Port)]
  BY <1>2 DEF Init
<1>6. to_write \in 0 .. MaxClients + 2 /\ received \in 0 .. MaxClients
  BY <1>3 DEF Init
<1>7. TypeOK
  BY <1>1, <1>2, <1>4, <1>5, <1>6 DEF Init, TypeOK
<1>8. CountersFit
  BY <1>3 DEF Init, CountersFit
<1> QED BY <1>7, <1>8

LEMMA NextTypeInv == TypeInv /\ [Next]_vars => TypeInv'
<1> SUFFICES ASSUME TypeOK, CountersFit, [Next]_vars
             PROVE  TypeOK' /\ CountersFit'
  BY DEF TypeInv
<1> USE BootstrapAssumption
<1>1. CASE Listen
  BY <1>1 DEF Listen, TypeOK, CountersFit, procVars
<1>2. CASE Accept
  <2>1. Head(backlog) \in Connection /\ Tail(backlog) \in Seq(Connection)
    BY <1>2, HeadAndTail DEF Accept, TypeOK
  <2>2. to_write' \in 0 .. MaxClients + 2
    BY <1>2 DEF Accept
  <2>3. TypeOK'
    BY <1>2, <2>1, <2>2 DEF Accept, TypeOK, procVars
  <2>4. CountersFit'
    BY <1>2, <2>1 DEF Accept, TypeOK, CountersFit, procVars
  <2> QED BY <2>3, <2>4
<1>3. CASE Write
  <2>0. serving.who \in Processes
    BY DEF TypeOK, Connection
  <2>1. to_write' \in 0 .. MaxClients + 2 /\ (to_write # 1 => to_write' > 0)
    BY <1>3 DEF Write, TypeOK, CountersFit
  <2>2. inbox' \in [Processes -> Seq(Port)]
    <3>1. Append(inbox[serving.who], tracker_port) \in Seq(Port)
      BY <2>0 DEF TypeOK
    <3> QED BY <1>3, <2>0, <3>1 DEF Write, TypeOK
  <2>3. broken' \in BOOLEAN
    BY <1>3 DEF Write, TypeOK
  <2>4. configured' \subseteq Clients /\ manager' \in {"writing", "accepting"}
        /\ (to_write = 1 => manager' = "accepting")
    BY <1>3 DEF Write, EndOfHandler, TypeOK
  <2>5. TypeOK'
    BY <1>3, <2>1, <2>2, <2>3, <2>4 DEF Write, TypeOK
  <2>6. CountersFit'
    BY <1>3, <2>1, <2>4 DEF Write, TypeOK, CountersFit
  <2> QED BY <2>5, <2>6
<1>4. CASE WriteToBroken
  BY <1>4 DEF WriteToBroken, TypeOK, CountersFit, procVars
<1>5. ASSUME NEW p \in Processes, Connect(p)
      PROVE  TypeOK' /\ CountersFit'
  <2>1. backlog' \in Seq(Connection) /\ tries' \in [Processes -> Nat]
    <3>1. [who |-> p, try |-> tries[p] + 1] \in Connection
      BY DEF Connection, TypeOK
    <3> QED BY <1>5, <3>1 DEF Connect, TypeOK
  <2>2. inbox' \in [Processes -> Seq(Port)]
    <3>1. << >> \in Seq(Port)
      OBVIOUS
    <3> QED BY <1>5, <3>1 DEF Connect, TypeOK
  <2>3. TypeOK'
    BY <1>5, <2>1, <2>2 DEF Connect, TypeOK, managerVars
  <2>4. CountersFit'
    BY <1>5 DEF Connect, TypeOK, CountersFit, managerVars
  <2> QED BY <2>3, <2>4
<1>6. ASSUME NEW p \in Processes, ConnectFails(p)
      PROVE  TypeOK' /\ CountersFit'
  BY <1>6 DEF ConnectFails, TypeOK, CountersFit, managerVars
<1>7. ASSUME NEW c \in Clients, ReceiveRecord(c)
      PROVE  TypeOK' /\ CountersFit'
  <2>1. Head(inbox[c]) \in Port
    BY <1>7 DEF ReceiveRecord, TypeOK
  <2>2. TypeOK'
    BY <1>7, <2>1 DEF ReceiveRecord, TypeOK, managerVars
  <2>3. CountersFit'
    BY <1>7 DEF ReceiveRecord, TypeOK, CountersFit, managerVars
  <2> QED BY <2>2, <2>3
<1>8. CASE ReceiveClients
  <2>1. received' \in 0 .. MaxClients /\ (proc'[Tracker] = "waiting" => received' < MaxClients)
        /\ proc' \in [Processes -> {"starting", "waiting", "up", "dead"}]
        /\ proc'[Tracker] # "starting"
    <3>1. PICK next \in {IF received + 1 < MaxClients THEN "waiting" ELSE "up", "dead"} :
            proc' = [proc EXCEPT ![Tracker] = next]
      BY <1>8 DEF ReceiveClients
    <3>2. received' = received + 1 /\ received < MaxClients /\ received \in 0 .. MaxClients
      BY <1>8 DEF ReceiveClients, TypeOK, CountersFit
    <3>3. next \in {"waiting", "up", "dead"} /\ (next = "waiting" => received + 1 < MaxClients)
      BY <3>1
    <3>4. proc'[Tracker] = next /\ proc' \in [Processes -> {"starting", "waiting", "up", "dead"}]
      BY <3>1, <3>3 DEF TypeOK, Processes
    <3> QED BY <3>2, <3>3, <3>4
  <2>2. inbox' \in [Processes -> Seq(Port)]
    <3>1. Tail(inbox[Tracker]) \in Seq(Port)
      BY <1>8 DEF ReceiveClients, TypeOK
    <3> QED BY <1>8, <3>1 DEF ReceiveClients, TypeOK
  <2>3. TypeOK'
    BY <1>8, <2>1, <2>2 DEF ReceiveClients, TypeOK, managerVars
  <2>4. CountersFit'
    BY <1>8, <2>1 DEF ReceiveClients, CountersFit, managerVars
  <2> QED BY <2>3, <2>4
<1>9. ASSUME NEW p \in Processes, ReceiveTimeout(p)
      PROVE  TypeOK' /\ CountersFit'
  BY <1>9 DEF ReceiveTimeout, TypeOK, CountersFit, managerVars
<1>10. CASE UNCHANGED vars
  BY <1>10 DEF vars, managerVars, procVars, TypeOK, CountersFit
<1> QED
  BY <1>1, <1>2, <1>3, <1>4, <1>5, <1>6, <1>7, <1>8, <1>9, <1>10
  DEF Next, ManagerStep, ProcessStep

\* All flags, ports and counters stay in range; above all, the tracker does not
\* read past its table, however short the reads are (connect_to_manager).
THEOREM TypeCorrect == Spec => []TypeOK
<1>1. Spec => []TypeInv
  BY InitTypeInv, NextTypeInv, PTL DEF Spec
<1>2. TypeInv => TypeOK
  BY DEF TypeInv
<1> QED BY <1>1, <1>2, PTL

--------------------------------------------------------------------------------
(***************************************************************************)
(* A client that starts is counted.                                        *)
(***************************************************************************)

LEMMA InitRecordCounts == Init => RecordCounts
  BY DEF Init, RecordCounts

LEMMA NextRecordCounts == TypeInv /\ RecordCounts /\ [Next]_vars => RecordCounts'
<1> SUFFICES ASSUME TypeOK, CountersFit, RecordCounts, [Next]_vars,
                    NEW c \in Clients,
                    proc'[c] = "up" \/ (proc'[c] = "waiting" /\ inbox'[c] # << >>)
             PROVE  \/ c \in configured'
                    \/ manager' = "writing" /\ serving'.who = c /\ ~broken' /\ to_write' = 1
  BY DEF TypeInv, RecordCounts
<1> DEFINE HasRecord == proc[c] = "up" \/ (proc[c] = "waiting" /\ inbox[c] # << >>)
<1>0. HasRecord => \/ c \in configured
                   \/ manager = "writing" /\ serving.who = c /\ ~broken /\ to_write = 1
  BY DEF RecordCounts
<1>a. c \in Processes /\ Tracker # c
  BY BootstrapAssumption
<1>1. CASE Listen
  BY <1>0, <1>1 DEF Listen, procVars
<1>2. CASE Accept
  BY <1>0, <1>2 DEF Accept, procVars
<1>3. CASE Write
  <2>1. manager = "writing" /\ ~broken /\ proc' = proc /\ serving' = serving
        /\ to_write' = to_write - 1 /\ to_write \in Nat
        /\ (serving.who = c => to_write \in {1, 2})
    BY <1>3 DEF Write, TypeOK, CountersFit
  <2>2. CASE serving.who # c
    <3>1. inbox'[c] = inbox[c] /\ configured \subseteq configured'
      BY <1>3, <1>a, <2>2 DEF Write, EndOfHandler, TypeOK
    <3> QED BY <1>0, <2>1, <2>2, <3>1
  <2>3. CASE serving.who = c /\ to_write = 1
    BY <1>3, <2>3 DEF Write, EndOfHandler
  <2>4. CASE serving.who = c /\ to_write = 2
    <3>1. UNCHANGED <<configured, manager>>
      BY <1>3, <2>4 DEF Write
    <3>2. CASE IsOpen(serving)
      BY <1>3, <2>1, <2>4, <3>1, <3>2 DEF Write
    <3>3. CASE ~IsOpen(serving)
      BY <1>0, <1>3, <2>1, <2>4, <3>1, <3>3 DEF Write
    <3> QED BY <3>2, <3>3
  <2> QED BY <2>1, <2>2, <2>3, <2>4
<1>4. CASE WriteToBroken
  BY <1>0, <1>4 DEF WriteToBroken, procVars
<1>5. ASSUME NEW p \in Processes, Connect(p)
      PROVE  HasRecord /\ UNCHANGED managerVars
  BY <1>5, <1>a DEF Connect, TypeOK
<1>6. ASSUME NEW p \in Processes, ConnectFails(p)
      PROVE  HasRecord /\ UNCHANGED managerVars
  BY <1>6, <1>a DEF ConnectFails, TypeOK
<1>7. ASSUME NEW d \in Clients, ReceiveRecord(d)
      PROVE  HasRecord /\ UNCHANGED managerVars
  BY <1>7, <1>a DEF ReceiveRecord, TypeOK
<1>8. ASSUME ReceiveClients
      PROVE  HasRecord /\ UNCHANGED managerVars
  BY <1>8, <1>a DEF ReceiveClients, TypeOK
<1>9. ASSUME NEW p \in Processes, ReceiveTimeout(p)
      PROVE  HasRecord /\ UNCHANGED managerVars
  BY <1>9, <1>a DEF ReceiveTimeout, TypeOK
<1>10. CASE UNCHANGED vars
  BY <1>0, <1>10 DEF vars, managerVars, procVars
<1>11. CASE HasRecord /\ UNCHANGED managerVars
  BY <1>0, <1>11 DEF managerVars
<1> HIDE DEF HasRecord
<1> QED
  BY <1>1, <1>2, <1>3, <1>4, <1>5, <1>6, <1>7, <1>8, <1>9, <1>10, <1>11
  DEF Next, ManagerStep, ProcessStep

\* A client that starts is counted, with every race open: only its handler's two
\* writes and its own record matter (manager_connection_handler, launch_client).
THEOREM UpClientsAreCounted == Spec => []UpIsCounted
<1>1. TypeInv /\ RecordCounts /\ [Next]_vars => (TypeInv /\ RecordCounts)'
  BY NextTypeInv, NextRecordCounts
<1>2. Spec => [](TypeInv /\ RecordCounts)
  BY <1>1, InitTypeInv, InitRecordCounts, PTL DEF Spec
<1>3. RecordCounts => UpIsCounted
  BY DEF RecordCounts, UpIsCounted
<1> QED BY <1>2, <1>3, PTL

--------------------------------------------------------------------------------
(***************************************************************************)
(* The two writes to a client agree.                                       *)
(***************************************************************************)

LEMMA InitBacklogIsFresh == Init => BacklogIsFresh
  BY DEF Init, BacklogIsFresh

LEMMA NextBacklogIsFresh == TypeInv /\ BacklogIsFresh /\ [Next]_vars => BacklogIsFresh'
<1> SUFFICES ASSUME TypeOK, CountersFit, BacklogIsFresh, [Next]_vars
             PROVE  BacklogIsFresh'
  BY DEF TypeInv
<1>b. /\ \A i \in DOMAIN backlog : backlog[i] \in Connection
      /\ serving \in Connection
  BY DEF TypeOK
<1>a. /\ \A i \in DOMAIN backlog : backlog[i].who \in Processes /\ backlog[i].try \in Nat
      /\ serving.who \in Processes /\ serving.try \in Nat
      /\ \A i \in DOMAIN backlog : backlog[i] \in Connection
  BY <1>b DEF Connection
<1>1. CASE Listen
  BY <1>1 DEF Listen, BacklogIsFresh, procVars
<1>2. CASE Accept
  <2>1. /\ backlog' = Tail(backlog) /\ serving' = backlog[1] /\ 1 \in DOMAIN backlog
        /\ tries' = tries /\ inbox' = inbox /\ Len(backlog') = Len(backlog) - 1
        /\ \A i \in DOMAIN backlog' : i + 1 \in DOMAIN backlog /\ backlog'[i] = backlog[i + 1]
    BY <1>2, HeadAndTail DEF Accept, TypeOK, procVars
  <2>2. DOMAIN backlog' \subseteq Nat \ {0}
    BY <2>1 DEF TypeOK
  <2>3. \A i, j \in DOMAIN backlog' : backlog'[i] = backlog'[j] => i = j
    BY <2>1, <2>2 DEF BacklogIsFresh
  <2>4. \A i \in DOMAIN backlog' : backlog'[i] # serving'
    BY <2>1, <2>2 DEF BacklogIsFresh
  <2> QED BY <2>1, <2>3, <2>4 DEF BacklogIsFresh
<1>3. CASE Write
  <2>1. UNCHANGED <<serving, tracker_port, backlog, tries>> /\ manager = "writing"
        /\ (IsOpen(serving) => inbox' = [inbox EXCEPT ![serving.who] = Append(@, tracker_port)])
        /\ (~IsOpen(serving) => inbox' = inbox)
    BY <1>3 DEF Write
  <2>2. ASSUME NEW i \in DOMAIN backlog, backlog[i].try = tries[backlog[i].who]
        PROVE  inbox'[backlog[i].who] = << >>
    <3>1. inbox[backlog[i].who] = << >>
      BY <2>2 DEF BacklogIsFresh
    <3>2. ASSUME backlog[i].who = serving.who, IsOpen(serving)
          PROVE  FALSE
      <4>1. backlog[i] \in Connection /\ serving \in Connection
        BY <1>a DEF TypeOK
      <4>2. backlog[i] = serving
        BY <2>2, <3>2, <4>1 DEF IsOpen, Connection
      <4> QED BY <2>1, <4>2 DEF BacklogIsFresh
    <3> QED BY <1>a, <2>1, <3>1, <3>2 DEF TypeOK
  <2> QED BY <2>1, <2>2 DEF BacklogIsFresh
<1>4. CASE WriteToBroken
  BY <1>4 DEF WriteToBroken, BacklogIsFresh, procVars
<1>5. ASSUME NEW p \in Processes, Connect(p)
      PROVE  BacklogIsFresh'
  <2> DEFINE new == [who |-> p, try |-> tries[p] + 1]
             n   == Len(backlog)
  <2>1. /\ UNCHANGED <<manager, serving>>
        /\ tries[p] \in Nat
        /\ tries' = [tries EXCEPT ![p] = tries[p] + 1]
        /\ inbox' = [inbox EXCEPT ![p] = << >>]
    BY <1>5 DEF Connect, managerVars, TypeOK
  <2>2. /\ n \in Nat /\ DOMAIN backlog = 1 .. n
        /\ DOMAIN backlog' = 1 .. n + 1
        /\ backlog'[n + 1] = new
        /\ \A i \in 1 .. n : backlog'[i] = backlog[i]
    BY <1>5 DEF Connect, TypeOK
  <2>3. \A q \in Processes : tries[q] <= tries'[q] /\ inbox'[q] \in {inbox[q], << >>}
    BY <2>1 DEF TypeOK
  <2>4. tries'[p] = tries[p] + 1 /\ inbox'[p] = << >> /\ new.who = p /\ new.try = tries'[p]
    BY <2>1 DEF TypeOK
  <2>5. \A q \in Processes \ {p} : tries'[q] = tries[q]
    BY <2>1 DEF TypeOK
  <2>6. \A i \in 1 .. n : backlog[i] # new
    BY <1>a, <2>1, <2>2, <2>4 DEF BacklogIsFresh
  <2>7. serving # new
    BY <1>a, <2>1, <2>4 DEF BacklogIsFresh
  <2>8. \A i \in 1 .. n : tries[backlog[i].who] \in Nat /\ tries'[backlog[i].who] \in Nat
    BY <1>a, <2>1, <2>2 DEF TypeOK
  <2> HIDE DEF new, n
  <2>9. \A i \in DOMAIN backlog' : backlog'[i].try <= tries'[backlog'[i].who]
    <3>1. \A i \in 1 .. n : backlog'[i].try <= tries'[backlog'[i].who]
      BY <1>a, <2>2, <2>3, <2>8 DEF BacklogIsFresh
    <3>2. backlog'[n + 1].try <= tries'[backlog'[n + 1].who]
      BY <2>1, <2>2, <2>4
    <3> QED BY <2>2, <3>1, <3>2
  <2>10. \A i, j \in DOMAIN backlog' : backlog'[i] = backlog'[j] => i = j
    BY <2>2, <2>6 DEF BacklogIsFresh
  <2>11. \A i \in DOMAIN backlog' :
           backlog'[i].try = tries'[backlog'[i].who] => inbox'[backlog'[i].who] = << >>
    <3>1. ASSUME NEW i \in 1 .. n, backlog[i].try = tries'[backlog[i].who]
          PROVE  inbox'[backlog[i].who] = << >>
      <4>1. CASE backlog[i].who = p
        BY <2>4, <4>1
      <4>2. CASE backlog[i].who # p
        BY <1>a, <2>2, <2>3, <2>5, <3>1, <4>2 DEF BacklogIsFresh
      <4> QED BY <4>1, <4>2
    <3> QED BY <2>2, <2>4, <3>1
  <2>12. serving'.try <= tries'[serving'.who]
    BY <1>a, <2>1, <2>3 DEF BacklogIsFresh, TypeOK
  <2>13. manager' = "writing" => \A i \in DOMAIN backlog' : backlog'[i] # serving'
    BY <2>1, <2>2, <2>7 DEF BacklogIsFresh
  <2> QED BY <2>9, <2>10, <2>11, <2>12, <2>13 DEF BacklogIsFresh
<1>6. ASSUME NEW p \in Processes, ConnectFails(p)
      PROVE  BacklogIsFresh'
  BY <1>6 DEF ConnectFails, BacklogIsFresh, managerVars
<1>7. ASSUME NEW c \in Clients, ReceiveRecord(c)
      PROVE  BacklogIsFresh'
  BY <1>7 DEF ReceiveRecord, BacklogIsFresh, managerVars
<1>8. CASE ReceiveClients
  <2>1. UNCHANGED <<manager, serving, backlog, tries>> /\ inbox[Tracker] # << >>
    BY <1>8 DEF ReceiveClients, managerVars
  <2>2. \A q \in Processes : inbox[q] = << >> => inbox'[q] = << >>
    BY <1>8, <2>1 DEF ReceiveClients, TypeOK
  <2> QED BY <1>a, <2>1, <2>2 DEF BacklogIsFresh
<1>9. ASSUME NEW p \in Processes, ReceiveTimeout(p)
      PROVE  BacklogIsFresh'
  BY <1>9 DEF ReceiveTimeout, BacklogIsFresh, managerVars
<1>10. CASE UNCHANGED vars
  BY <1>10 DEF vars, managerVars, procVars, BacklogIsFresh
<1> QED
  BY <1>1, <1>2, <1>3, <1>4, <1>5, <1>6, <1>7, <1>8, <1>9, <1>10
  DEF Next, ManagerStep, ProcessStep

PortInv == PortOfServing /\ OneServingOnePort

LEMMA InitPortInv == Init => PortInv
  BY BootstrapAssumption DEF Init, PortInv, PortOfServing, OneServingOnePort

LEMMA NextPortInv == TypeInv /\ BacklogIsFresh /\ PortInv /\ [Next]_vars => PortInv'
<1> SUFFICES ASSUME TypeOK, BacklogIsFresh, PortOfServing, OneServingOnePort, [Next]_vars
             PROVE  PortOfServing' /\ OneServingOnePort'
  BY DEF TypeInv, PortInv
<1> USE BootstrapAssumption
<1>b. serving \in Connection /\ \A i \in DOMAIN backlog : backlog[i] \in Connection
  BY DEF TypeOK
<1>a. serving.who \in Processes /\ serving.try \in Nat
  BY <1>b DEF Connection
<1>1. CASE Listen
  BY <1>1 DEF Listen, PortOfServing, OneServingOnePort, procVars
<1>2. CASE Accept
  <2>1. /\ serving' = backlog[1] /\ 1 \in DOMAIN backlog
        /\ tries' = tries /\ inbox' = inbox
    BY <1>2, HeadAndTail DEF Accept, TypeOK, procVars
  <2>2. serving'.try = tries'[serving'.who] => inbox'[serving'.who] = << >>
    BY <2>1 DEF BacklogIsFresh
  <2>3. PortOfServing'
    BY <2>2 DEF PortOfServing
  <2> QED BY <2>1, <2>3 DEF OneServingOnePort
<1>3. CASE Write
  <2>1. UNCHANGED <<serving, tracker_port, tries>> /\ manager = "writing"
        /\ (IsOpen(serving) => inbox' = [inbox EXCEPT ![serving.who] = Append(@, tracker_port)])
        /\ (~IsOpen(serving) => inbox' = inbox)
    BY <1>3 DEF Write
  <2>2. CASE ~IsOpen(serving)
    BY <2>1, <2>2 DEF PortOfServing, OneServingOnePort
  <2>3. CASE IsOpen(serving)
    <3> DEFINE w == serving.who
    <3>1. /\ inbox'[w] = Append(inbox[w], tracker_port)
          /\ \A q \in Processes \ {w} : inbox'[q] = inbox[q]
          /\ inbox[w] \in Seq(Port) /\ tracker_port \in Port
      BY <1>a, <2>1, <2>3 DEF TypeOK
    <3>2. serving.try = tries[w]
      BY <2>3 DEF IsOpen
    <3>3. w \in Clients => \A k \in DOMAIN inbox'[w] : inbox'[w][k] = tracker_port
      <4>1. SUFFICES ASSUME w \in Clients, NEW k \in DOMAIN inbox'[w]
                     PROVE  inbox'[w][k] = tracker_port
        OBVIOUS
      <4>2. k \in DOMAIN inbox[w] => inbox[w][k] = tracker_port
        BY <2>1, <3>2, <4>1 DEF PortOfServing
      <4> HIDE DEF w
      <4> QED BY <3>1, <4>1, <4>2
    <3>4. PortOfServing'
      BY <2>1, <3>3 DEF PortOfServing
    <3>5. ASSUME NEW c \in Clients
          PROVE  \A i, j \in DOMAIN inbox'[c] : inbox'[c][i] = inbox'[c][j]
      <4>1. CASE c = w
        BY <3>3, <4>1
      <4>2. CASE c # w
        BY <3>1, <4>2 DEF OneServingOnePort
      <4> QED BY <4>1, <4>2
    <3>6. OneServingOnePort'
      BY <3>5 DEF OneServingOnePort
    <3> QED BY <3>4, <3>6
  <2> QED BY <2>2, <2>3
<1>4. CASE WriteToBroken
  BY <1>4 DEF WriteToBroken, PortOfServing, OneServingOnePort, procVars
<1>5. ASSUME NEW p \in Processes, Connect(p)
      PROVE  PortOfServing' /\ OneServingOnePort'
  <2>1. /\ UNCHANGED <<manager, serving, tracker_port>>
        /\ tries' = [tries EXCEPT ![p] = tries[p] + 1]
        /\ inbox' = [inbox EXCEPT ![p] = << >>]
    BY <1>5 DEF Connect, managerVars
  <2>2. inbox'[p] = << >> /\ \A q \in Processes \ {p} : inbox'[q] = inbox[q] /\ tries'[q] = tries[q]
    BY <2>1 DEF TypeOK
  <2>3. CASE serving.who = p
    BY <2>1, <2>2, <2>3 DEF PortOfServing, OneServingOnePort
  <2>4. CASE serving.who # p
    BY <1>a, <2>1, <2>2, <2>4 DEF PortOfServing, OneServingOnePort
  <2> QED BY <2>3, <2>4
<1>6. ASSUME NEW p \in Processes, ConnectFails(p)
      PROVE  PortOfServing' /\ OneServingOnePort'
  BY <1>6 DEF ConnectFails, PortOfServing, OneServingOnePort, managerVars
<1>7. ASSUME NEW c \in Clients, ReceiveRecord(c)
      PROVE  PortOfServing' /\ OneServingOnePort'
  BY <1>7 DEF ReceiveRecord, PortOfServing, OneServingOnePort, managerVars
<1>8. CASE ReceiveClients
  <2>1. UNCHANGED <<manager, serving, tracker_port, tries>>
    BY <1>8 DEF ReceiveClients, managerVars
  <2>2. \A c \in Clients : inbox'[c] = inbox[c]
    BY <1>8 DEF ReceiveClients, TypeOK
  <2> QED BY <2>1, <2>2 DEF PortOfServing, OneServingOnePort
<1>9. ASSUME NEW p \in Processes, ReceiveTimeout(p)
      PROVE  PortOfServing' /\ OneServingOnePort'
  BY <1>9 DEF ReceiveTimeout, PortOfServing, OneServingOnePort, managerVars
<1>10. CASE UNCHANGED vars
  BY <1>10 DEF vars, managerVars, procVars, PortOfServing, OneServingOnePort
<1> QED
  BY <1>1, <1>2, <1>3, <1>4, <1>5, <1>6, <1>7, <1>8, <1>9, <1>10
  DEF Next, ManagerStep, ProcessStep

\* The port in a client's record and the port in the line that follows agree:
\* the manager joins each handler, whose port is static, before the next accept
\* (manager_connection_handler).
THEOREM WritesAgree == Spec => []OneServingOnePort
<1> DEFINE IInv == TypeInv /\ BacklogIsFresh /\ PortInv
<1>1. Init => IInv
  BY InitTypeInv, InitBacklogIsFresh, InitPortInv
<1>2. IInv /\ [Next]_vars => IInv'
  BY NextTypeInv, NextBacklogIsFresh, NextPortInv
<1>3. IInv => OneServingOnePort
  BY DEF PortInv
<1> QED BY <1>1, <1>2, <1>3, PTL DEF Spec

--------------------------------------------------------------------------------
(***************************************************************************)
(* With the races won, clients know the tracker.                           *)
(***************************************************************************)

RaceInv == TrackerFirst /\ OnlyThatPort /\ ClientsKnowTracker

LEMMA InitRaceInv == Init => RaceInv
  BY BootstrapAssumption
  DEF Init, RaceInv, TrackerFirst, OnlyThatPort, ClientsKnowTracker

LEMMA NextRaceInv ==
  ASSUME ListenFirst, SleepSuffices
  PROVE  TypeInv /\ RaceInv /\ [Next]_vars => RaceInv'
<1> SUFFICES ASSUME TypeOK, TrackerFirst, OnlyThatPort, ClientsKnowTracker, [Next]_vars
             PROVE  TrackerFirst' /\ OnlyThatPort' /\ ClientsKnowTracker'
  BY DEF TypeInv, RaceInv
<1> USE BootstrapAssumption
<1>b. serving \in Connection /\ \A i \in DOMAIN backlog : backlog[i] \in Connection
  BY DEF TypeOK
<1>a. serving.who \in Processes /\ \A i \in DOMAIN backlog : backlog[i].who \in Processes
  BY <1>b DEF Connection
<1>1. CASE Listen
  BY <1>1 DEF Listen, TrackerFirst, OnlyThatPort, ClientsKnowTracker, procVars
<1>2. CASE Accept
  <2>1. /\ backlog' = Tail(backlog) /\ serving' = backlog[1] /\ 1 \in DOMAIN backlog
        /\ UNCHANGED <<proc, inbox, known_port>> /\ manager = "accepting" /\ manager' = "writing"
        /\ tracker_port' = IF serving'.who = Tracker THEN TrackerPort ELSE tracker_port
        /\ \A i \in DOMAIN backlog' : i + 1 \in DOMAIN backlog /\ backlog'[i] = backlog[i + 1]
        /\ Len(backlog') = Len(backlog) - 1
    BY <1>2, HeadAndTail DEF Accept, TypeOK, procVars
  <2>2. /\ \E n \in Nat : DOMAIN backlog = 1 .. n /\ DOMAIN backlog' = 1 .. n - 1
    BY <2>1 DEF TypeOK
  <2>3. OnlyThatPort' /\ ClientsKnowTracker'
    BY <2>1 DEF OnlyThatPort, ClientsKnowTracker
  <2>5. ASSUME backlog[1].who = Tracker
        PROVE  TrackerFirst'
    BY <2>1, <2>5 DEF TrackerFirst
  <2>6. ASSUME backlog[1].who # Tracker
        PROVE  TrackerFirst'
    <3>1. serving'.who \in Clients /\ tracker_port' = tracker_port
      BY <1>a, <2>1, <2>6
    <3>2. tracker_port = TrackerPort
      BY <2>1, <2>2, <3>1 DEF TrackerFirst
    <3> QED BY <3>1, <3>2 DEF TrackerFirst
  <2>7. TrackerFirst'
    BY <2>5, <2>6
  <2> QED BY <2>3, <2>7
<1>3. CASE Write
  <2>1. UNCHANGED <<serving, tracker_port, backlog, proc, known_port>> /\ manager = "writing"
        /\ manager' # "dead"
        /\ (manager' = "writing" => manager = "writing")
        /\ (inbox' = [inbox EXCEPT ![serving.who] = Append(@, tracker_port)] \/ inbox' = inbox)
    BY <1>3 DEF Write, EndOfHandler
  <2>2. TrackerFirst' /\ ClientsKnowTracker'
    BY <2>1 DEF TrackerFirst, ClientsKnowTracker
  <2>3. OnlyThatPort'
    <3> SUFFICES ASSUME NEW c \in Clients, NEW k \in DOMAIN inbox'[c]
                 PROVE  inbox'[c][k] = TrackerPort
      BY DEF OnlyThatPort
    <3>1. CASE inbox'[c] = inbox[c]
      BY <3>1 DEF OnlyThatPort
    <3>2. CASE inbox'[c] # inbox[c]
      <4>1. serving.who = c /\ inbox'[c] = Append(inbox[c], tracker_port)
        BY <1>a, <2>1, <3>2 DEF TypeOK
      <4>2. tracker_port = TrackerPort
        BY <2>1, <4>1 DEF TrackerFirst
      <4>3. inbox[c] \in Seq(Port)
        BY DEF TypeOK
      <4> QED BY <4>1, <4>2, <4>3 DEF OnlyThatPort
    <3> QED BY <3>1, <3>2
  <2> QED BY <2>2, <2>3
<1>4. CASE WriteToBroken
  BY <1>4 DEF WriteToBroken, TrackerFirst, OnlyThatPort, ClientsKnowTracker, procVars
<1>5. ASSUME NEW p \in Processes, Connect(p)
      PROVE  TrackerFirst' /\ OnlyThatPort' /\ ClientsKnowTracker'
  <2>1. /\ UNCHANGED <<manager, serving, tracker_port, known_port>>
        /\ inbox' = [inbox EXCEPT ![p] = << >>]
        /\ proc' = [proc EXCEPT ![p] = "waiting"]
        /\ ~IsTooEarly(p)
    BY <1>5 DEF Connect, managerVars
  <2>2. inbox'[p] = << >> /\ proc'[p] = "waiting"
        /\ \A q \in Processes \ {p} : inbox'[q] = inbox[q] /\ proc'[q] = proc[q]
    BY <2>1 DEF TypeOK
  <2>3. OnlyThatPort' /\ ClientsKnowTracker'
    BY <2>1, <2>2 DEF OnlyThatPort, ClientsKnowTracker
  <2> DEFINE n == Len(backlog)
  <2>4. /\ n \in Nat /\ DOMAIN backlog = 1 .. n
        /\ DOMAIN backlog' = 1 .. n + 1
        /\ backlog'[n + 1].who = p
        /\ \A i \in 1 .. n : backlog'[i] = backlog[i]
    BY <1>5 DEF Connect, TypeOK
  <2> HIDE DEF n
  <2>5. CASE manager # "dead"
    <3>2. CASE p = Tracker
      <4>1. \E j \in DOMAIN backlog' : backlog'[j].who = Tracker
        BY <2>4, <3>2
      <4>2. \A i \in DOMAIN backlog' : backlog'[i].who \in Clients =>
              tracker_port = TrackerPort \/ \E j \in 1 .. i - 1 : backlog'[j].who = Tracker
        BY <2>4, <2>5, <3>2 DEF TrackerFirst
      <4> QED BY <2>1, <2>3, <2>5, <4>1, <4>2 DEF TrackerFirst
    <3>3. CASE p \in Clients
      <4>1. proc[Tracker] # "starting" /\ proc'[Tracker] # "starting"
        BY <2>1, <2>2, <3>3 DEF IsTooEarly
      <4>2. tracker_port = TrackerPort \/ \E j \in 1 .. n : backlog[j].who = Tracker
        BY <2>4, <2>5, <4>1 DEF TrackerFirst
      <4>3. tracker_port = TrackerPort \/ \E j \in DOMAIN backlog' : backlog'[j].who = Tracker
        BY <2>4, <4>2
      <4>4. \A i \in DOMAIN backlog' : backlog'[i].who \in Clients =>
              tracker_port = TrackerPort \/ \E j \in 1 .. i - 1 : backlog'[j].who = Tracker
        BY <2>4, <2>5, <4>2 DEF TrackerFirst
      <4> QED BY <2>1, <2>3, <2>5, <4>3, <4>4 DEF TrackerFirst
    <3> QED BY <3>2, <3>3
  <2>6. CASE manager = "dead"
    BY <2>1, <2>3, <2>6 DEF TrackerFirst
  <2> QED BY <2>5, <2>6
<1>6. ASSUME NEW p \in Processes, ConnectFails(p)
      PROVE  TrackerFirst' /\ OnlyThatPort' /\ ClientsKnowTracker'
  <2>1. /\ UNCHANGED <<manager, serving, tracker_port, known_port, inbox, backlog>>
        /\ proc' = [proc EXCEPT ![p] = "dead"]
        /\ ~IsTooEarly(p)
        /\ manager = "forking" \/ manager = "dead"
    BY <1>6 DEF ConnectFails, managerVars
  <2>2. manager = "dead"
    BY <2>1 DEF IsTooEarly
  <2>3. \A c \in Clients : proc'[c] = "up" => proc[c] = "up"
    BY <2>1 DEF TypeOK
  <2> QED BY <2>1, <2>2, <2>3 DEF TrackerFirst, OnlyThatPort, ClientsKnowTracker
<1>7. ASSUME NEW c \in Clients, ReceiveRecord(c)
      PROVE  TrackerFirst' /\ OnlyThatPort' /\ ClientsKnowTracker'
  <2>1. UNCHANGED <<manager, serving, tracker_port, inbox, backlog>>
    BY <1>7 DEF ReceiveRecord, managerVars
  <2>2. proc'[Tracker] = proc[Tracker]
    BY <1>7 DEF ReceiveRecord, TypeOK
  <2>3. Head(inbox[c]) = TrackerPort
    <3>1. inbox[c] \in Seq(Port) /\ inbox[c] # << >>
      BY <1>7 DEF ReceiveRecord, TypeOK
    <3> QED BY <3>1, HeadAndTail DEF OnlyThatPort
  <2>4. ClientsKnowTracker'
    BY <1>7, <2>3 DEF ReceiveRecord, ClientsKnowTracker, TypeOK
  <2> QED BY <2>1, <2>2, <2>4 DEF TrackerFirst, OnlyThatPort
<1>8. CASE ReceiveClients
  <2>1. UNCHANGED <<manager, serving, tracker_port, backlog, known_port>>
        /\ proc[Tracker] = "waiting" /\ proc'[Tracker] \in {"waiting", "up", "dead"}
    BY <1>8 DEF ReceiveClients, managerVars, TypeOK
  <2>2. \A c \in Clients : inbox'[c] = inbox[c] /\ proc'[c] = proc[c]
    BY <1>8 DEF ReceiveClients, TypeOK
  <2> QED BY <2>1, <2>2 DEF TrackerFirst, OnlyThatPort, ClientsKnowTracker
<1>9. ASSUME NEW p \in Processes, ReceiveTimeout(p)
      PROVE  TrackerFirst' /\ OnlyThatPort' /\ ClientsKnowTracker'
  <2>1. /\ UNCHANGED <<manager, serving, tracker_port, known_port, inbox, backlog>>
        /\ proc[p] = "waiting"
        /\ proc' = [proc EXCEPT ![p] = IF p = Tracker THEN "up" ELSE "starting"]
    BY <1>9 DEF ReceiveTimeout, managerVars
  <2>4. proc[p] = "waiting"
    BY <2>1
  <2>3. /\ p = Tracker => proc' = [proc EXCEPT ![Tracker] = "up"]
        /\ p # Tracker => proc' = [proc EXCEPT ![p] = "starting"]
    BY <2>1
  <2>2. /\ \A c \in Clients : proc'[c] = "up" => proc[c] = "up"
        /\ \/ proc'[Tracker] = proc[Tracker]
           \/ proc[Tracker] = "waiting" /\ proc'[Tracker] = "up"
    <3>1. CASE p = Tracker
      BY <2>3, <2>4, <3>1 DEF TypeOK
    <3>2. CASE p # Tracker
      <4>1. proc'[p] = "starting" /\ \A q \in Processes \ {p} : proc'[q] = proc[q]
        BY <2>3, <3>2 DEF TypeOK
      <4>2. \A c \in Clients : proc'[c] = "up" => proc[c] = "up"
        BY <4>1
      <4> QED BY <3>2, <4>1, <4>2
    <3> QED BY <3>1, <3>2
  <2> QED BY <2>1, <2>2 DEF TrackerFirst, OnlyThatPort, ClientsKnowTracker
<1>10. CASE UNCHANGED vars
  BY <1>10 DEF vars, managerVars, procVars, TrackerFirst, OnlyThatPort, ClientsKnowTracker
<1> QED
  BY <1>1, <1>2, <1>3, <1>4, <1>5, <1>6, <1>7, <1>8, <1>9, <1>10
  DEF Next, ManagerStep, ProcessStep

\* If listen comes before the tracker's connect and the clients sleep until the
\* tracker has registered, every client that starts knows the tracker's port,
\* however late and short the reads are (launch_manager, launch_client).
THEOREM TrackerIsKnown ==
  ASSUME ListenFirst, SleepSuffices
  PROVE  Spec => []ClientsKnowTracker
<1>1. TypeInv /\ RaceInv /\ [Next]_vars => (TypeInv /\ RaceInv)'
  BY NextTypeInv, NextRaceInv
<1>2. Spec => [](TypeInv /\ RaceInv)
  BY <1>1, InitTypeInv, InitRaceInv, PTL DEF Spec
<1>3. RaceInv => ClientsKnowTracker
  BY DEF RaceInv
<1> QED BY <1>2, <1>3, PTL

--------------------------------------------------------------------------------
(***************************************************************************)
(* With a prompt manager and whole reads, nobody is lost.                  *)
(***************************************************************************)

ServedInv == NobodyLeaves /\ ConfiguredIsServed

LEMMA InitServedInv == Init => ServedInv
  BY DEF Init, ServedInv, NobodyLeaves, ConfiguredIsServed

LEMMA NextServedInv ==
  ASSUME Prompt, ~ShortReads
  PROVE  TypeInv /\ BacklogIsFresh /\ ServedInv /\ [Next]_vars => ServedInv'
<1> SUFFICES ASSUME TypeOK, CountersFit, BacklogIsFresh, NobodyLeaves, ConfiguredIsServed,
                    [Next]_vars
             PROVE  NobodyLeaves' /\ ConfiguredIsServed'
  BY DEF TypeInv, ServedInv
<1> USE BootstrapAssumption
<1>b. serving \in Connection /\ \A i \in DOMAIN backlog : backlog[i] \in Connection
  BY DEF TypeOK
<1>a. serving.who \in Processes /\ \A i \in DOMAIN backlog : backlog[i].who \in Processes
  BY <1>b DEF Connection
<1>c. \A i \in DOMAIN backlog :
        /\ proc[backlog[i].who] = "waiting"
        /\ inbox[backlog[i].who] = << >>
        /\ backlog[i].who = Tracker => received = 0
  BY DEF NobodyLeaves, BacklogIsFresh, IsOpen
<1>1. CASE Listen
  BY <1>1 DEF Listen, NobodyLeaves, ConfiguredIsServed, IsOpen, procVars
<1>2. CASE Accept
  <2>1. /\ backlog' = Tail(backlog) /\ serving' = backlog[1] /\ 1 \in DOMAIN backlog
        /\ UNCHANGED <<proc, tries, inbox, received, configured>>
        /\ manager' = "writing" /\ broken' = FALSE
        /\ to_write' = IF serving'.who = Tracker THEN MaxClients ELSE 2
        /\ \A i \in DOMAIN backlog' : i + 1 \in DOMAIN backlog /\ backlog'[i] = backlog[i + 1]
    BY <1>2, HeadAndTail DEF Accept, TypeOK, procVars
  <2>2. IsOpen(serving)' /\ inbox'[serving'.who] = << >>
        /\ (serving'.who = Tracker => received' = 0)
    BY <1>c, <2>1 DEF NobodyLeaves, IsOpen
  <2>3. \A i \in DOMAIN backlog' :
          IsOpen(backlog[i])' /\ (backlog'[i].who = Tracker => received' = 0)
    BY <2>1 DEF NobodyLeaves, IsOpen
  <2>4. serving'.who = Tracker => received' + Len(inbox'[Tracker]) + to_write' = MaxClients
    BY <2>1, <2>2
  <2>5. proc'[Tracker] = "starting" => received' = 0
    BY <2>1 DEF NobodyLeaves
  <2>6. serving'.who \in Clients => to_write' = 2
    BY <2>1
  <2>7. NobodyLeaves'
    BY <2>1, <2>2, <2>3, <2>4, <2>5, <2>6 DEF NobodyLeaves
  <2> QED BY <2>1, <2>7 DEF ConfiguredIsServed
<1>3. CASE Write
  <2> DEFINE w == serving.who
  <2>1. /\ UNCHANGED <<serving, backlog, proc, tries, received>>
        /\ manager = "writing" /\ ~broken
        /\ to_write' = to_write - 1 /\ to_write \in Nat /\ to_write > 0
        /\ w \in Clients => to_write <= 2
        /\ inbox[w] \in Seq(Port) /\ tracker_port \in Port
    BY <1>3, <1>a DEF Write, TypeOK, CountersFit
  <2>2. /\ IsOpen(serving) =>
             broken' = broken /\ inbox' = [inbox EXCEPT ![w] = Append(@, tracker_port)]
        /\ ~IsOpen(serving) => inbox' = inbox
    BY <1>3 DEF Write
  <2>3. /\ to_write = 1 => manager' = "accepting"
             /\ configured' = IF w \in Clients THEN configured \cup {w} ELSE configured
        /\ to_write # 1 => manager' = "writing" /\ configured' = configured
    BY <1>3 DEF Write, EndOfHandler
  <2>4. IsOpen(serving) \/ to_write = 1
    BY <1>a, <2>1 DEF NobodyLeaves
  <2>5. /\ \A q \in Processes : inbox[q] # << >> => inbox'[q] # << >>
        /\ IsOpen(serving) => inbox'[w] # << >> /\ Len(inbox'[w]) = Len(inbox[w]) + 1
    <3>1. CASE ~IsOpen(serving)
      BY <2>2, <3>1
    <3>2. CASE IsOpen(serving)
      <4>1. inbox'[w] = Append(inbox[w], tracker_port)
            /\ \A q \in Processes \ {w} : inbox'[q] = inbox[q]
        BY <1>a, <2>2, <3>2 DEF TypeOK
      <4>2. Len(inbox'[w]) = Len(inbox[w]) + 1 /\ inbox'[w] # << >>
        BY <2>1, <4>1
      <4> QED BY <4>1, <4>2
    <3> QED BY <3>1, <3>2
  <2>6. \A conn : IsOpen(conn)' <=> IsOpen(conn)
    BY <2>1 DEF IsOpen
  <2>7. ConfiguredIsServed'
    <3> SUFFICES ASSUME NEW c \in configured'
                 PROVE  proc'[c] = "up" \/ (proc'[c] = "waiting" /\ inbox'[c] # << >>)
      BY DEF ConfiguredIsServed
    <3>1. CASE c \in configured
      BY <2>1, <2>5, <3>1 DEF ConfiguredIsServed, TypeOK
    <3>2. CASE c \notin configured
      <4>1. c = w /\ w \in Clients /\ to_write = 1
        BY <2>3, <3>2
      <4>2. proc[w] = "up" \/ (proc[w] = "waiting" /\ inbox[w] # << >>)
        BY <2>1, <4>1 DEF NobodyLeaves, IsOpen
      <4> QED BY <1>a, <2>1, <2>5, <4>1, <4>2
    <3> QED BY <3>1, <3>2
  <2>8. CASE to_write = 1
    <3>1. manager' = "accepting"
      BY <2>3, <2>8
    <3> QED BY <2>1, <2>6, <2>7, <3>1 DEF NobodyLeaves, IsOpen
  <2>9. CASE to_write # 1
    <3>1. manager' = "writing" /\ IsOpen(serving) /\ broken' = FALSE
      BY <2>1, <2>2, <2>3, <2>4, <2>9 DEF TypeOK
    <3>2. w = Tracker => received' + Len(inbox'[Tracker]) + to_write' = MaxClients
      <4>1. SUFFICES ASSUME w = Tracker
                     PROVE  received' + Len(inbox'[Tracker]) + to_write' = MaxClients
        OBVIOUS
      <4>2. /\ received + Len(inbox[Tracker]) + to_write = MaxClients
            /\ Len(inbox'[Tracker]) = Len(inbox[Tracker]) + 1
            /\ Len(inbox[Tracker]) \in Nat /\ received \in Nat
        BY <2>1, <2>5, <3>1, <4>1 DEF NobodyLeaves, TypeOK
      <4> QED BY <2>1, <4>2
    <3>3. w \in Clients => to_write' = 1 /\ inbox'[w] # << >>
      BY <2>1, <2>5, <2>9, <3>1
    <3>4. proc[Tracker] = "starting" => received = 0
      BY DEF NobodyLeaves
    <3>5. \A i \in DOMAIN backlog : IsOpen(backlog[i]) /\ (backlog[i].who = Tracker => received = 0)
      BY DEF NobodyLeaves
    <3>6. \A i \in DOMAIN backlog' :
            IsOpen(backlog[i])' /\ (backlog'[i].who = Tracker => received' = 0)
      BY <2>1, <3>5 DEF IsOpen
    <3>7. IsOpen(serving)'
      BY <2>1, <3>1 DEF IsOpen
    <3>8. NobodyLeaves'
      BY <2>1, <3>1, <3>2, <3>3, <3>4, <3>6, <3>7 DEF NobodyLeaves
    <3> QED BY <2>7, <3>8
  <2> QED BY <2>8, <2>9
<1>4. CASE WriteToBroken
  BY <1>4 DEF WriteToBroken, NobodyLeaves
<1>5. ASSUME NEW p \in Processes, Connect(p)
      PROVE  NobodyLeaves' /\ ConfiguredIsServed'
  <2>1. /\ UNCHANGED <<manager, serving, to_write, broken, configured, received>>
        /\ proc[p] = "starting"
        /\ tries' = [tries EXCEPT ![p] = tries[p] + 1]
        /\ inbox' = [inbox EXCEPT ![p] = << >>]
        /\ proc' = [proc EXCEPT ![p] = "waiting"]
    BY <1>5 DEF Connect, managerVars
  <2>2. /\ inbox'[p] = << >> /\ proc'[p] = "waiting" /\ tries'[p] = tries[p] + 1
        /\ \A q \in Processes \ {p} :
             inbox'[q] = inbox[q] /\ proc'[q] = proc[q] /\ tries'[q] = tries[q]
    BY <2>1 DEF TypeOK
  <2>3. PICK n \in Nat :
          /\ DOMAIN backlog = 1 .. n
          /\ DOMAIN backlog' = 1 .. n + 1
          /\ backlog'[n + 1].who = p /\ backlog'[n + 1].try = tries[p] + 1
          /\ \A i \in 1 .. n : backlog'[i] = backlog[i]
    <3>1. /\ Len(backlog) \in Nat /\ DOMAIN backlog = 1 .. Len(backlog)
          /\ DOMAIN backlog' = 1 .. Len(backlog) + 1
          /\ backlog'[Len(backlog) + 1] = [who |-> p, try |-> tries[p] + 1]
          /\ \A i \in 1 .. Len(backlog) : backlog'[i] = backlog[i]
      BY <1>5 DEF Connect, TypeOK
    <3>2. /\ backlog'[Len(backlog) + 1].who = p
          /\ backlog'[Len(backlog) + 1].try = tries[p] + 1
      BY <3>1
    <3> WITNESS Len(backlog) \in Nat
    <3> QED BY <3>1, <3>2
  <2>4. ConfiguredIsServed'
    BY <2>1, <2>2 DEF ConfiguredIsServed, TypeOK
  <2>5. p = Tracker => received = 0
    BY <2>1 DEF NobodyLeaves
  <2>6. \A i \in DOMAIN backlog' :
          IsOpen(backlog[i])' /\ (backlog'[i].who = Tracker => received' = 0)
    <3>1. ASSUME NEW i \in 1 .. n
          PROVE  IsOpen(backlog[i])' /\ (backlog'[i].who = Tracker => received' = 0)
      <4>1. backlog[i].who \in Processes \ {p}
        BY <1>a, <1>c, <2>1, <2>3
      <4>2. tries[backlog[i].who] = backlog[i].try
        BY <2>3 DEF NobodyLeaves, IsOpen
      <4> QED BY <1>c, <2>1, <2>2, <2>3, <4>1, <4>2 DEF IsOpen
    <3>2. IsOpen(backlog[n + 1])' /\ (backlog'[n + 1].who = Tracker => received' = 0)
      BY <2>1, <2>2, <2>3, <2>5 DEF IsOpen
    <3> QED BY <2>3, <3>1, <3>2
  <2>7. manager = "writing" => serving.who # p
    BY <1>a, <2>1 DEF NobodyLeaves, IsOpen, CountersFit, TypeOK
  <2>8. manager = "writing" =>
          /\ proc'[serving.who] = proc[serving.who] /\ inbox'[serving.who] = inbox[serving.who]
          /\ IsOpen(serving)' <=> IsOpen(serving)
    BY <1>a, <2>1, <2>2, <2>7 DEF IsOpen
  <2>9. proc'[Tracker] = "starting" => received' = 0
    BY <2>1, <2>2 DEF NobodyLeaves
  <2>10. NobodyLeaves'
    BY <2>1, <2>6, <2>8, <2>9 DEF NobodyLeaves
  <2> QED BY <2>4, <2>10
<1>6. ASSUME NEW p \in Processes, ConnectFails(p)
      PROVE  NobodyLeaves' /\ ConfiguredIsServed'
  <2>1. /\ UNCHANGED <<managerVars, backlog, tries, inbox, received>>
        /\ proc[p] = "starting" /\ proc' = [proc EXCEPT ![p] = "dead"]
        /\ manager = "forking"
    BY <1>6 DEF ConnectFails, NobodyLeaves
  <2>2. proc'[p] = "dead" /\ \A q \in Processes \ {p} : proc'[q] = proc[q]
    BY <2>1 DEF TypeOK
  <2>3. ConfiguredIsServed'
    BY <2>1, <2>2 DEF ConfiguredIsServed, TypeOK, managerVars
  <2>4. \A i \in DOMAIN backlog' :
          IsOpen(backlog[i])' /\ (backlog'[i].who = Tracker => received' = 0)
    BY <1>a, <1>c, <2>1, <2>2 DEF NobodyLeaves, IsOpen
  <2> QED BY <2>1, <2>2, <2>3, <2>4 DEF NobodyLeaves, managerVars
<1>7. ASSUME NEW d \in Clients, ReceiveRecord(d)
      PROVE  NobodyLeaves' /\ ConfiguredIsServed'
  <2>1. /\ UNCHANGED <<managerVars, backlog, tries, inbox, received>>
        /\ proc[d] = "waiting" /\ inbox[d] # << >> /\ proc' = [proc EXCEPT ![d] = "up"]
    BY <1>7 DEF ReceiveRecord
  <2>2. proc'[d] = "up" /\ \A q \in Processes \ {d} : proc'[q] = proc[q]
    BY <2>1 DEF TypeOK
  <2>3. ConfiguredIsServed'
    BY <2>1, <2>2 DEF ConfiguredIsServed, TypeOK, managerVars
  <2>4. \A i \in DOMAIN backlog' :
          IsOpen(backlog[i])' /\ (backlog'[i].who = Tracker => received' = 0)
    BY <1>a, <1>c, <2>1, <2>2 DEF NobodyLeaves, IsOpen
  <2>5. manager = "writing" /\ serving.who # d =>
          proc'[serving.who] = proc[serving.who] /\ (IsOpen(serving)' <=> IsOpen(serving))
    BY <1>a, <2>1, <2>2 DEF IsOpen, managerVars
  <2>6. manager = "writing" /\ serving.who = d => to_write = 1
    BY <2>1 DEF NobodyLeaves, CountersFit, TypeOK
  <2>7. proc'[Tracker] = proc[Tracker]
    BY <2>2
  <2>8. CASE manager = "writing" /\ serving.who = d
    BY <2>1, <2>2, <2>3, <2>4, <2>6, <2>7, <2>8 DEF NobodyLeaves, managerVars
  <2>9. CASE manager = "writing" /\ serving.who # d
    BY <2>1, <2>3, <2>4, <2>5, <2>7, <2>9 DEF NobodyLeaves, managerVars
  <2>10. CASE manager # "writing"
    BY <2>1, <2>3, <2>4, <2>7, <2>10 DEF NobodyLeaves, managerVars
  <2> QED BY <2>8, <2>9, <2>10
<1>8. CASE ReceiveClients
  <2>1. /\ UNCHANGED <<managerVars, backlog, tries>>
        /\ proc[Tracker] = "waiting" /\ inbox[Tracker] # << >>
        /\ inbox' = [inbox EXCEPT ![Tracker] = Tail(@)]
        /\ received' = received + 1
        /\ proc' = [proc EXCEPT ![Tracker] = IF received' < MaxClients THEN "waiting" ELSE "up"]
    BY <1>8 DEF ReceiveClients
  <2>2. /\ inbox[Tracker] \in Seq(Port) /\ received \in Nat
        /\ inbox'[Tracker] = Tail(inbox[Tracker])
        /\ proc'[Tracker] = IF received' < MaxClients THEN "waiting" ELSE "up"
        /\ \A c \in Clients : inbox'[c] = inbox[c] /\ proc'[c] = proc[c]
    BY <2>1 DEF TypeOK
  <2>3. Len(inbox[Tracker]) \in Nat /\ Len(inbox[Tracker]) > 0
        /\ Len(inbox'[Tracker]) = Len(inbox[Tracker]) - 1
    BY <2>1, <2>2, HeadAndTail
  <2>4. \A i \in DOMAIN backlog : backlog[i].who \in Clients
    BY <1>a, <1>c, <2>1
  <2>5. \A i \in DOMAIN backlog' :
          IsOpen(backlog[i])' /\ (backlog'[i].who = Tracker => received' = 0)
    BY <1>c, <2>1, <2>2, <2>4 DEF NobodyLeaves, IsOpen
  <2>6. ConfiguredIsServed'
    BY <2>1, <2>2 DEF ConfiguredIsServed, TypeOK, managerVars
  <2>7. manager = "writing" /\ serving.who = Tracker =>
          IsOpen(serving)' /\ received' + Len(inbox'[Tracker]) + to_write' = MaxClients
    <3>1. SUFFICES ASSUME manager = "writing", serving.who = Tracker
                   PROVE  IsOpen(serving)' /\ received' + Len(inbox'[Tracker]) + to_write' = MaxClients
      OBVIOUS
    <3>2. to_write \in Nat /\ to_write > 0 /\ to_write' = to_write
      BY <2>1, <3>1 DEF CountersFit, TypeOK, managerVars
    <3>3. received + Len(inbox[Tracker]) + to_write = MaxClients /\ serving.try = tries[Tracker]
      BY <3>1 DEF NobodyLeaves, IsOpen
    <3>4. received' < MaxClients
      BY <2>1, <2>2, <2>3, <3>2, <3>3
    <3>5. received' + Len(inbox'[Tracker]) + to_write' = MaxClients
      <4>1. received' = received + 1 /\ received \in Nat
        BY <2>1, <2>2
      <4> DEFINE l == Len(inbox[Tracker])
                 k == Len(inbox'[Tracker])
      <4>2. l \in Nat /\ k = l - 1 /\ received + l + to_write = MaxClients
        BY <2>3, <3>3
      <4>3. to_write \in Nat /\ to_write' = to_write
        BY <3>2
      <4> HIDE DEF l, k
      <4>4. received' + k + to_write' = MaxClients
        BY <4>1, <4>2, <4>3
      <4> QED BY <4>4 DEF k
    <3> QED BY <2>1, <2>2, <3>1, <3>3, <3>4, <3>5 DEF IsOpen, managerVars
  <2>8. serving.who \in Clients =>
          /\ proc'[serving.who] = proc[serving.who] /\ inbox'[serving.who] = inbox[serving.who]
          /\ IsOpen(serving)' <=> IsOpen(serving)
    BY <2>1, <2>2 DEF IsOpen, managerVars
  <2>9. proc'[Tracker] # "starting"
    BY <2>2
  <2>10. NobodyLeaves'
    BY <2>1, <2>5, <2>7, <2>8, <2>9 DEF NobodyLeaves, managerVars
  <2> QED BY <2>6, <2>10
<1>9. ASSUME NEW p \in Processes, ReceiveTimeout(p)
      PROVE  NobodyLeaves' /\ ConfiguredIsServed'
  BY <1>9 DEF ReceiveTimeout, NobodyLeaves
<1>10. CASE UNCHANGED vars
  BY <1>10 DEF vars, managerVars, procVars, NobodyLeaves, ConfiguredIsServed, IsOpen
<1> QED
  BY <1>1, <1>2, <1>3, <1>4, <1>5, <1>6, <1>7, <1>8, <1>9, <1>10
  DEF Next, ManagerStep, ProcessStep

LEMMA ServedInvHolds ==
  ASSUME Prompt, ~ShortReads
  PROVE  Spec => [](NobodyLeaves /\ ConfiguredIsServed)
<1> DEFINE IInv == TypeInv /\ BacklogIsFresh /\ ServedInv
<1>1. Init => IInv
  BY InitTypeInv, InitBacklogIsFresh, InitServedInv
<1>2. IInv /\ [Next]_vars => IInv'
  BY NextTypeInv, NextBacklogIsFresh, NextServedInv
<1>3. IInv => NobodyLeaves /\ ConfiguredIsServed
  BY DEF ServedInv
<1> QED BY <1>1, <1>2, <1>3, PTL DEF Spec

\* A prompt manager whose records arrive whole never writes twice to a closed
\* socket: the tracker stays for all its records, a client for the first of two
\* writes (manager_connection_handler, connect_to_manager).  No race is excluded.
THEOREM PromptManagerSurvives ==
  ASSUME Prompt, ~ShortReads
  PROVE  Spec => []ManagerSurvives
<1>1. NobodyLeaves => ManagerSurvives
  BY DEF NobodyLeaves, ManagerSurvives
<1> QED BY <1>1, ServedInvHolds, PTL

\* Then nobody is counted as configured who has no record and none to read
\* (manager_connection_handler).
THEOREM ConfiguredAreServed ==
  ASSUME Prompt, ~ShortReads
  PROVE  Spec => []ConfiguredIsServed
  BY ServedInvHolds, PTL

================================================================================
