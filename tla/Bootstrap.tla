-------------------------------- MODULE Bootstrap --------------------------------
(***************************************************************************)
(* The start of the system: the manager forks a tracker and the clients,   *)
(* only then listens, and hands out their records over TCP, one connection *)
(* at a time; the tracker announces its port in its hello, and a client    *)
(* finds that port in its record.                                          *)
(*                                                                         *)
(* The tracker connects once and looks at no result.  A client sleeps for  *)
(* five seconds first, and then connects again and again until one read    *)
(* returns a whole record.  Nobody ignores SIGPIPE: writing to a socket    *)
(* that was never connected kills the writer, and so does the second write *)
(* to a socket that the other end has closed.                              *)
(***************************************************************************)
EXTENDS Naturals, Sequences

CONSTANTS
  Clients,       \* the enabled clients
  Tracker,
  TrackerPort,   \* the port of the tracker's UDP socket
  NoPort,        \* -1, the port as long as the tracker has not said hello
  MaxClients,    \* MAX_CLIENTS, the records sent to the tracker
  Backlog,       \* connections that wait for accept: listen(socket_desc, 3)
  ListenFirst,   \* whether listen always comes before the tracker's connect
  SleepSuffices, \* whether the sleep of the clients outlasts the registration
                 \* of the tracker, or its failure
  Prompt,        \* whether a live manager answers within the receive timeouts
  ShortReads,    \* whether recv may return a part of a record
  MaxTries       \* bound: connections a client makes

ASSUME BootstrapAssumption ==
  /\ Tracker \notin Clients
  /\ NoPort # TrackerPort
  /\ MaxClients \in Nat \ {0}
  /\ Backlog \in Nat \ {0}
  /\ {ListenFirst, SleepSuffices, Prompt, ShortReads} \subseteq BOOLEAN
  /\ MaxTries \in Nat \ {0}

VARIABLES
  \* the manager
  manager,       \* "forking", "accepting", "writing" or "dead"
  serving,       \* the connection of the handler
  to_write,      \* writes the handler still has to do
  broken,        \* the other end has answered a write with a reset
  tracker_port,  \* static in manager_connection_handler
  configured,    \* the clients with their configured flag set
  backlog,       \* connections not accepted yet
  \* tracker and clients
  proc,          \* "starting", "waiting" in recv, "up" or "dead"
  tries,         \* connections made; the last is the one in use
  inbox,         \* records (their tracker_port) that wait to be read
  received,      \* index of connect_to_manager: reads done by the tracker
  known_port     \* the tracker_port a client was configured with

managerVars == <<manager, serving, to_write, broken, tracker_port, configured>>
procVars    == <<proc, tries, inbox, received, known_port>>
vars        == <<managerVars, backlog, procVars>>

Processes  == Clients \cup {Tracker}
Port       == {TrackerPort, NoPort}
Connection == [who : Processes, try : Nat]

Init ==
  /\ manager = "forking"
  /\ serving = [who |-> Tracker, try |-> 0]
  /\ to_write = 0
  /\ broken = FALSE
  /\ tracker_port = NoPort
  /\ configured = {}
  /\ backlog = << >>
  /\ proc = [p \in Processes |-> "starting"]
  /\ tries = [p \in Processes |-> 0]
  /\ inbox = [p \in Processes |-> << >>]
  /\ received = 0
  /\ known_port = [c \in Clients |-> NoPort]

--------------------------------------------------------------------------------
(***************************************************************************)
(* The manager.                                                            *)
(***************************************************************************)
Listen ==
  /\ manager = "forking"
  /\ manager' = "accepting"
  /\ UNCHANGED <<serving, to_write, broken, tracker_port, configured, backlog, procVars>>

\* Mutation: the port of the hello is not remembered.
Accept_PortForgotten ==
  /\ manager = "accepting"
  /\ backlog # << >>
  /\ serving' = Head(backlog)
  /\ backlog' = Tail(backlog)
  /\ to_write' = IF serving'.who = Tracker THEN MaxClients ELSE 2
  /\ broken' = FALSE
  /\ manager' = "writing"
  /\ UNCHANGED <<tracker_port, configured, procVars>>

\* Mutation: a client's handler writes once more.
Accept_ThirdWrite ==
  /\ manager = "accepting"
  /\ backlog # << >>
  /\ serving' = Head(backlog)
  /\ backlog' = Tail(backlog)
  /\ to_write' = IF serving'.who = Tracker THEN MaxClients ELSE 3
  /\ broken' = FALSE
  /\ tracker_port' = IF serving'.who = Tracker THEN TrackerPort ELSE tracker_port
  /\ manager' = "writing"
  /\ UNCHANGED <<configured, procVars>>

\* accept, and the recv of the hello, which is there since the other end wrote
\* it before anything else.
Accept ==
  /\ manager = "accepting"
  /\ backlog # << >>
  /\ serving' = Head(backlog)
  /\ backlog' = Tail(backlog)
  /\ to_write' = IF serving'.who = Tracker THEN MaxClients ELSE 2
  /\ broken' = FALSE
  /\ tracker_port' = IF serving'.who = Tracker THEN TrackerPort ELSE tracker_port
  /\ manager' = "writing"
  /\ UNCHANGED <<configured, procVars>>

IsOpen(conn) == proc[conn.who] = "waiting" /\ tries[conn.who] = conn.try

\* After the last write the handler marks the client and ends.  The manager then
\* compares the counts of enabled and configured clients, says that it is about
\* to terminate when they agree, and resets the flag at once: it accepts again.
EndOfHandler ==
  /\ configured' = IF serving.who \in Clients THEN configured \cup {serving.who}
                                              ELSE configured
  /\ manager' = "accepting"

Write ==
  /\ manager = "writing"
  /\ ~broken
  /\ IF IsOpen(serving)
       THEN /\ inbox' = [inbox EXCEPT ![serving.who] = Append(@, tracker_port)]
            /\ UNCHANGED broken
       ELSE broken' = TRUE /\ UNCHANGED inbox
  /\ to_write' = to_write - 1
  /\ IF to_write = 1 THEN EndOfHandler ELSE UNCHANGED <<configured, manager>>
  /\ UNCHANGED <<serving, tracker_port, backlog, proc, tries, received, known_port>>

WriteToBroken ==
  /\ manager = "writing"
  /\ broken
  /\ manager' = "dead"
  /\ UNCHANGED <<serving, to_write, broken, tracker_port, configured, backlog, procVars>>

--------------------------------------------------------------------------------
(***************************************************************************)
(* Tracker and clients.                                                    *)
(***************************************************************************)

\* What the timing of the program, not its logic, keeps from happening.
IsTooEarly(p) ==
  IF p = Tracker THEN ListenFirst /\ manager = "forking"
                 ELSE SleepSuffices /\ (manager = "forking" \/ proc[Tracker] \notin {"up", "dead"})

\* Mutation: the socket, and what waits in it, is kept over the tries.
Connect_SameSocket(p) ==
  /\ proc[p] = "starting"
  /\ tries[p] < MaxTries
  /\ ~IsTooEarly(p)
  /\ manager # "forking"
  /\ Len(backlog) < Backlog
  /\ tries' = [tries EXCEPT ![p] = @ + 1]
  /\ backlog' = Append(backlog, [who |-> p, try |-> tries[p] + 1])
  /\ proc' = [proc EXCEPT ![p] = "waiting"]
  /\ UNCHANGED <<managerVars, inbox, received, known_port>>

\* connect and the write of the hello.
Connect(p) ==
  /\ proc[p] = "starting"
  /\ tries[p] < MaxTries
  /\ ~IsTooEarly(p)
  /\ manager # "forking"
  /\ Len(backlog) < Backlog
  /\ tries' = [tries EXCEPT ![p] = @ + 1]
  /\ backlog' = Append(backlog, [who |-> p, try |-> tries[p] + 1])
  /\ inbox' = [inbox EXCEPT ![p] = << >>]
  /\ proc' = [proc EXCEPT ![p] = "waiting"]
  /\ UNCHANGED <<managerVars, received, known_port>>

\* connect is refused before the manager listens.  The listening socket is
\* shared with the children and outlives the manager: connections then queue
\* up until connect itself times out.  The write that follows is the last.
ConnectFails(p) ==
  /\ proc[p] = "starting"
  /\ ~IsTooEarly(p)
  /\ \/ manager = "forking"
     \/ manager = "dead" /\ Len(backlog) >= Backlog
  /\ proc' = [proc EXCEPT ![p] = "dead"]
  /\ UNCHANGED <<managerVars, backlog, tries, inbox, received, known_port>>

\* Mutation: a whole record is rejected as well, read_size <= 5000.
ReceiveRecord_WholeRejected(c) ==
  /\ proc[c] = "waiting"
  /\ inbox[c] # << >>
  /\ proc' = [proc EXCEPT ![c] = "starting"]
  /\ UNCHANGED <<managerVars, backlog, tries, inbox, received, known_port>>

\* A client wants 5000 bytes at once, or tries again.
ReceiveRecord(c) ==
  /\ proc[c] = "waiting"
  /\ inbox[c] # << >>
  /\ \/ /\ proc' = [proc EXCEPT ![c] = "up"]
        /\ known_port' = [known_port EXCEPT ![c] = Head(inbox[c])]
     \/ /\ ShortReads
        /\ proc' = [proc EXCEPT ![c] = "starting"]
        /\ UNCHANGED known_port
  /\ UNCHANGED <<managerVars, backlog, tries, inbox, received>>

\* Mutation: the reads are not bounded by the size of the table.
ReceiveClients_NoBound ==
  /\ proc[Tracker] = "waiting"
  /\ inbox[Tracker] # << >>
  /\ received' = received + 1
  /\ \/ inbox' = [inbox EXCEPT ![Tracker] = Tail(@)]
     \/ ShortReads /\ UNCHANGED inbox
  /\ UNCHANGED <<managerVars, backlog, proc, tries, known_port>>

\* The tracker counts reads, whatever they return; a short one leaves a rest.  A
\* part of a record is taken apart like a whole one, through pointers that were
\* set for the fields that came only: the tracker may not survive it.
ReceiveClients ==
  /\ proc[Tracker] = "waiting"
  /\ inbox[Tracker] # << >>
  /\ received' = received + 1
  /\ \E next \in {IF received' < MaxClients THEN "waiting" ELSE "up"}
                  \cup (IF ShortReads THEN {"dead"} ELSE {}) :
       proc' = [proc EXCEPT ![Tracker] = next]
  /\ \/ inbox' = [inbox EXCEPT ![Tracker] = Tail(@)]
     \/ ShortReads /\ UNCHANGED inbox
  /\ UNCHANGED <<managerVars, backlog, tries, known_port>>

\* recv gives up, after 5 seconds (client) or 1 (tracker), or because the other
\* end is gone.  A client tries again; the tracker goes on without.
ReceiveTimeout(p) ==
  /\ proc[p] = "waiting"
  /\ inbox[p] = << >>
  /\ manager = "dead" \/ ~Prompt
  /\ proc' = [proc EXCEPT ![p] = IF p = Tracker THEN "up" ELSE "starting"]
  /\ UNCHANGED <<managerVars, backlog, tries, inbox, received, known_port>>

ManagerStep == Listen \/ Accept \/ Write \/ WriteToBroken

ProcessStep(p) ==
  \/ Connect(p)
  \/ ConnectFails(p)
  \/ p \in Clients /\ ReceiveRecord(p)
  \/ p = Tracker /\ ReceiveClients
  \/ ReceiveTimeout(p)

Next == ManagerStep \/ \E p \in Processes : ProcessStep(p)

\* Every process goes on as long as it can.
Fairness == WF_vars(ManagerStep) /\ \A p \in Processes : WF_vars(ProcessStep(p))

Spec     == Init /\ [][Next]_vars
FairSpec == Spec /\ Fairness

--------------------------------------------------------------------------------
(***************************************************************************)
(* Properties.                                                             *)
(***************************************************************************)

\* Type invariant: flags, ports, counters and connections stay in range; the
\* tracker does at most MaxClients reads, the size of its table.
TypeOK ==
  /\ manager \in {"forking", "accepting", "writing", "dead"}
  /\ serving \in Connection
  /\ to_write \in 0 .. MaxClients + 2
  /\ broken \in BOOLEAN
  /\ tracker_port \in Port
  /\ configured \subseteq Clients
  /\ backlog \in Seq(Connection)
  /\ proc \in [Processes -> {"starting", "waiting", "up", "dead"}]
  /\ tries \in [Processes -> Nat]
  /\ inbox \in [Processes -> Seq(Port)]
  /\ received \in 0 .. MaxClients
  /\ known_port \in [Clients -> Port]

\* The tracker is registered before any client is configured, by the comment on
\* sleep(5) in launch_client: "Simple Hack to make sure the clients don't
\* connect before the manager has information on the Tracker, including it's
\* port!"
ClientsKnowTracker ==
  \A c \in Clients : proc[c] = "up" => known_port[c] = TrackerPort

\* While the manager answers in time, no process that closes its end early can
\* make it write twice to a closed socket: it survives.
ManagerSurvives == manager # "dead"

\* A client that is counted as configured has its record, or will read it: the
\* flag is set by the manager's second write, on the word of nobody.
ConfiguredIsServed ==
  \A c \in configured : proc[c] = "up" \/ (proc[c] = "waiting" /\ inbox[c] # << >>)

\* However late and short the reads are: a client that starts is counted.  One
\* handler writes to it twice, so even if the client closes between the writes,
\* as it does after its record, the handler survives to set the flag.
UpIsCounted ==
  \A c \in Clients :
    proc[c] = "up" => \/ c \in configured
                      \/ manager = "writing" /\ serving.who = c /\ ~broken

\* The port in a client's record and the port in the line that follows agree:
\* the manager joins each handler before it accepts the tracker's connection,
\* so that the static port never changes between the two writes.
OneServingOnePort ==
  \A c \in Clients : \A i, j \in DOMAIN inbox[c] : inbox[c][i] = inbox[c][j]

\* With a prompt manager and the races won every client is configured, though
\* the manager serves one connection at a time and the backlog is short.
AllConfigured == <>[](configured = Clients /\ \A c \in Clients : proc[c] = "up")

--------------------------------------------------------------------------------
(***************************************************************************)
(* Invariants that the proofs of module BootstrapProofs carry through.     *)
(***************************************************************************)

\* A handler has something left to write, two buffers at most if it serves a
\* client; a tracker that still connects or reads has room in its table.
CountersFit ==
  /\ manager = "writing" => to_write > 0 /\ (serving.who \in Clients => to_write <= 2)
  /\ proc[Tracker] \in {"starting", "waiting"} => received < MaxClients

\* Whoever has a record in hand is counted, or its handler is about to write the
\* second time, on a socket that never answered with a reset.
RecordCounts ==
  \A c \in Clients :
    proc[c] = "up" \/ (proc[c] = "waiting" /\ inbox[c] # << >>) =>
      \/ c \in configured
      \/ manager = "writing" /\ serving.who = c /\ ~broken /\ to_write = 1

\* A connection is served once: those in the backlog are distinct, no newer than
\* the last one of their process, not being served, and have brought nothing.
BacklogIsFresh ==
  /\ \A i \in DOMAIN backlog : backlog[i].try <= tries[backlog[i].who]
  /\ \A i, j \in DOMAIN backlog : backlog[i] = backlog[j] => i = j
  /\ \A i \in DOMAIN backlog :
       backlog[i].try = tries[backlog[i].who] => inbox[backlog[i].who] = << >>
  /\ serving.try <= tries[serving.who]
  /\ manager = "writing" => \A i \in DOMAIN backlog : backlog[i] # serving

\* What the handler has brought to the connection it serves.
PortOfServing ==
  manager = "writing" /\ serving.who \in Clients /\ serving.try = tries[serving.who] =>
    \A k \in DOMAIN inbox[serving.who] : inbox[serving.who][k] = tracker_port

\* With the races won the tracker is in front of all clients, or registered,
\* also if it does not survive its reads, unless nobody will be served any more.
TrackerFirst ==
  manager # "dead" =>
    /\ proc[Tracker] # "starting" =>
         \/ tracker_port = TrackerPort
         \/ \E j \in DOMAIN backlog : backlog[j].who = Tracker
    /\ \A i \in DOMAIN backlog :
         backlog[i].who \in Clients =>
           \/ tracker_port = TrackerPort
           \/ \E j \in 1 .. i - 1 : backlog[j].who = Tracker
    /\ manager = "writing" /\ serving.who \in Clients => tracker_port = TrackerPort

\* Then only that port is ever written to a client.
OnlyThatPort == \A c \in Clients : \A k \in DOMAIN inbox[c] : inbox[c][k] = TrackerPort

\* With a prompt manager and whole reads: whoever waits in the backlog is still
\* there, a client leaves only between the two writes, and the tracker only when
\* it has read all that its handler had to write.
NobodyLeaves ==
  /\ manager # "dead"
  /\ proc[Tracker] = "starting" => received = 0
  /\ \A i \in DOMAIN backlog :
       IsOpen(backlog[i]) /\ (backlog[i].who = Tracker => received = 0)
  /\ manager = "writing" => ~broken
  /\ manager = "writing" /\ serving.who = Tracker =>
       IsOpen(serving) /\ received + Len(inbox[Tracker]) + to_write = MaxClients
  /\ manager = "writing" /\ serving.who \in Clients /\ to_write = 2 =>
       IsOpen(serving) /\ inbox[serving.who] = << >>
  /\ manager = "writing" /\ serving.who \in Clients /\ to_write = 1 =>
       \/ proc[serving.who] = "up"
       \/ IsOpen(serving) /\ inbox[serving.who] # << >>

================================================================================
