---------------------------------- MODULE Config ----------------------------------
(***************************************************************************)
(* From the lines of manager.conf to clients that listen: init of init.c   *)
(* reads the file into the table of clients, the manager hands each client *)
(* process its record (module Bootstrap says when), and the process opens  *)
(* its own file and listens, or ends.                                      *)
(*                                                                         *)
(* What kind of line it is, the parser knows by the number of words alone. *)
(***************************************************************************)
EXTENDS Integers, SequencesExt

CONSTANTS
  Name,         \* file names
  Line,         \* lines that the file may have
  NoName,       \* "------"
  Garbage,      \* what a record holds that another one ran into
  OnDisk,       \* names of files that fopen finds
  MAX_CLIENTS,
  MAX_TASKS,
  MaxLines      \* bound: lines of the file

ASSUME ConfigAssumption ==
  /\ Line \subseteq [words : {1}, value : Int]
                    \cup [words : {2}, id : Int, name : Name]
                    \cup [words : {3}, id : Int, delay : Int, drop : Int]
                    \cup [words : {4}, id : Int, name : Name, start : Int, share : Int]
  /\ MAX_CLIENTS \in Nat \ {0}
  /\ MAX_TASKS \in Nat \ {0}
  /\ MaxLines \in Nat
  /\ NoName \notin OnDisk /\ Garbage \notin OnDisk

VARIABLES
  lines,        \* the lines read
  clients,      \* the table
  num_clients,
  timeout,
  wild,         \* init wrote where this module does not follow it
  process       \* "none", and then what became of the process of each client

table == <<clients, num_clients, timeout, wild>>
vars  == <<lines, table, process>>

Ids == 0 .. MAX_CLIENTS - 1

Client ==
  [node_id : Ids \cup {Garbage}, enabled : BOOLEAN, filename : Name \cup {NoName, Garbage},
   packet : [delay : Int, drop : Int] \cup {Garbage}, has_task : BOOLEAN, task_start_time : Int,
   task_share : Int, num_tasks : Nat, taskname : [0 .. MAX_TASKS - 1 -> Name \cup {NoName}]]

\* packet_delay and packet_drop_percentage, which are set together.
DefaultPacket == [delay |-> -1, drop |-> 100]
Packet(line)  == [delay |-> line.delay, drop |-> line.drop]

\* Mutation: the defaults of init_client, meant for a record yet to be received.
NewClient_Unnumbered(i) ==
  [node_id |-> -1, enabled |-> FALSE, filename |-> NoName, packet |-> DefaultPacket,
   has_task |-> FALSE, task_start_time |-> 1, task_share |-> 0, num_tasks |-> 0,
   taskname |-> [k \in 0 .. MAX_TASKS - 1 |-> NoName]]

NewClient(i) ==
  [node_id |-> i, enabled |-> FALSE, filename |-> NoName, packet |-> DefaultPacket,
   has_task |-> FALSE, task_start_time |-> -1, task_share |-> 0, num_tasks |-> 0,
   taskname |-> [k \in 0 .. MAX_TASKS - 1 |-> NoName]]

Init ==
  /\ lines = << >>
  /\ clients = [i \in Ids |-> NewClient(i)]
  /\ num_clients = 0
  /\ timeout = 0
  /\ wild = FALSE
  /\ process = [i \in Ids |-> "none"]

--------------------------------------------------------------------------------
(***************************************************************************)
(* init: one line.                                                         *)
(***************************************************************************)

\* Mutation: the loop that enables the clients runs once too often.
OneWord_OneTooMany(line) ==
  /\ line.words = 1
  /\ IF num_clients = 0
       THEN /\ num_clients' = line.value
            /\ clients' = [i \in Ids |-> [clients[i] EXCEPT !.enabled = @ \/ i <= line.value]]
            /\ wild' = (wild \/ line.value >= MAX_CLIENTS)
            /\ UNCHANGED timeout
       ELSE timeout' = line.value /\ UNCHANGED <<clients, num_clients, wild>>

\* A number: of clients, as long as there are none, and then the timeout.
OneWord(line) ==
  /\ line.words = 1
  /\ IF num_clients = 0
       THEN /\ num_clients' = line.value
            /\ clients' = [i \in Ids |-> [clients[i] EXCEPT !.enabled = @ \/ i < line.value]]
            /\ wild' = (wild \/ line.value > MAX_CLIENTS)
            /\ UNCHANGED timeout
       ELSE timeout' = line.value /\ UNCHANGED <<clients, num_clients, wild>>

\* The file of a client.  An id that is out of range, -1 at the end of a list
\* above all, is skipped.
TwoWords(line) ==
  /\ line.words = 2
  /\ clients' = IF line.id \in Ids THEN [clients EXCEPT ![line.id].filename = line.name]
                                   ELSE clients
  /\ UNCHANGED <<num_clients, timeout, wild>>

ThreeWords(line) ==
  /\ line.words = 3
  /\ clients' = IF line.id \in Ids THEN [clients EXCEPT ![line.id].packet = Packet(line)]
                                   ELSE clients
  /\ UNCHANGED <<num_clients, timeout, wild>>

\* The fields that a task sets in the record of its client.
WithTask(client, line) ==
  [client EXCEPT !.task_start_time = line.start,
                 !.task_share = line.share,
                 !.has_task = TRUE,
                 !.num_tasks = @ + 1]

\* The name behind the last taskname lands in the first fields of the next record;
\* one more would land in the rest of it.
Overrun(client, enabled) ==
  [client EXCEPT !.node_id = Garbage, !.enabled = enabled, !.packet = Garbage,
                 !.filename = Garbage]

\* Mutation: the count goes up before the name is stored.
FourWords_CountedFirst(line) ==
  /\ line.words = 4
  /\ IF line.id \notin Ids THEN UNCHANGED <<clients, wild>>
     ELSE LET i == line.id
              k == clients[i].num_tasks + 1
          IN  \/ /\ k < MAX_TASKS
                 /\ clients' = [clients EXCEPT ![i] =
                                  WithTask([@ EXCEPT !.taskname[k] = line.name], line)]
                 /\ UNCHANGED wild
              \/ /\ k = MAX_TASKS
                 /\ i + 1 \in Ids
                 /\ \E enabled \in BOOLEAN :
                      clients' = [clients EXCEPT ![i] = WithTask(@, line),
                                                 ![i + 1] = Overrun(@, enabled)]
                 /\ UNCHANGED wild
              \/ /\ k > MAX_TASKS \/ (k = MAX_TASKS /\ i + 1 \notin Ids)
                 /\ clients' = [clients EXCEPT ![i] = WithTask(@, line)]
                 /\ wild' = TRUE
  /\ UNCHANGED <<num_clients, timeout>>

\* A download task.  There is one start time and one share flag for all tasks of
\* a client, and nothing keeps num_tasks within taskname.
FourWords(line) ==
  /\ line.words = 4
  /\ IF line.id \notin Ids THEN UNCHANGED <<clients, wild>>
     ELSE LET i == line.id
              k == clients[i].num_tasks
          IN  \/ /\ k < MAX_TASKS
                 /\ clients' = [clients EXCEPT ![i] =
                                  WithTask([@ EXCEPT !.taskname[k] = line.name], line)]
                 /\ UNCHANGED wild
              \/ /\ k = MAX_TASKS
                 /\ i + 1 \in Ids
                 /\ \E enabled \in BOOLEAN :
                      clients' = [clients EXCEPT ![i] = WithTask(@, line),
                                                 ![i + 1] = Overrun(@, enabled)]
                 /\ UNCHANGED wild
              \/ /\ k > MAX_TASKS \/ (k = MAX_TASKS /\ i + 1 \notin Ids)
                 /\ clients' = [clients EXCEPT ![i] = WithTask(@, line)]
                 /\ wild' = TRUE
  /\ UNCHANGED <<num_clients, timeout>>

ReadLine(line) ==
  /\ ~wild
  /\ Len(lines) < MaxLines
  /\ \A i \in Ids : process[i] = "none"
  /\ lines' = Append(lines, line)
  /\ OneWord(line) \/ TwoWords(line) \/ ThreeWords(line) \/ FourWords(line)
  /\ UNCHANGED process

--------------------------------------------------------------------------------
(***************************************************************************)
(* The process that was given record i: the end of launch_client and the   *)
(* beginning of client_listener.                                           *)
(***************************************************************************)

\* Mutation: a client with a file of its own serves it, task or no task.
Outcomes_AnyFile(client) ==
  IF client.has_task \/ client.filename \in OnDisk THEN {"listening"} ELSE {"ended"}

\* Without a task it closes its socket and ends, whatever file it has.  With one,
\* but without a file of its own, it hands fclose a null pointer, which some C
\* libraries let pass.
Outcomes(client) ==
  IF ~client.has_task THEN {"ended"}
  ELSE IF client.filename \in OnDisk THEN {"listening"}
  ELSE {"listening", "crashed"}

Start(i) ==
  /\ ~wild
  /\ clients[i].enabled
  /\ process[i] = "none"
  /\ \E outcome \in Outcomes(clients[i]) : process' = [process EXCEPT ![i] = outcome]
  /\ UNCHANGED <<lines, table>>

Next ==
  \/ \E line \in Line : ReadLine(line)
  \/ \E i \in Ids : Start(i)

Spec == Init /\ [][Next]_vars

--------------------------------------------------------------------------------
(***************************************************************************)
(* Properties.                                                             *)
(***************************************************************************)

\* The elements of q that are in S, in the order of q.  (SelectSeq, in a form that
\* proofs can use.)
Matching(q, S) ==
  LET F[i \in 0 .. Len(q)] == IF i = 0 THEN << >>
                              ELSE IF q[i] \in S THEN Append(F[i - 1], q[i])
                              ELSE F[i - 1]
  IN  F[Len(q)]

\* The lines of one kind that name client i, in the order of the file.
Of(words, i) == Matching(lines, {l \in Line : l.words = words /\ l.id = i})

\* What the comments of manager.conf say the file means.  There are two numbers,
\* of the clients first and then the timeout; the clients are numbered from 0.
Numbers   == Matching(lines, {l \in Line : l.words = 1})
NodeCount == IF Numbers = << >> THEN 0 ELSE Numbers[1].value
Timeout   == IF Len(Numbers) < 2 THEN 0 ELSE Numbers[2].value

\* A task is a file name, a start time and a share, each of them with its own.
Given(i) == [k \in 1 .. Len(Of(4, i)) |->
               [name  |-> Of(4, i)[k].name,
                start |-> Of(4, i)[k].start,
                share |-> Of(4, i)[k].share]]

\* The tasks that the record of client i can tell.
Kept(i) == [k \in 1 .. clients[i].num_tasks |->
              [name  |-> clients[i].taskname[k - 1],
               start |-> clients[i].task_start_time,
               share |-> clients[i].task_share]]

TaskNames(tasks) == [k \in DOMAIN tasks |-> tasks[k].name]

\* The parser tells the two numbers apart: there are some clients, and no third
\* number.
NumbersAreClear == Len(Numbers) <= 2 /\ (Numbers # << >> => Numbers[1].value # 0)

\* What it takes for the number of clients: the first number that is not 0.
FirstCount == {k \in DOMAIN Numbers : /\ Numbers[k].value # 0
                                      /\ \A j \in 1 .. k - 1 : Numbers[j].value = 0}
CountRead  == IF FirstCount = {} THEN 0 ELSE Numbers[CHOOSE k \in FirstCount : TRUE].value

\* The client before it has no task too many.
Spared(i) == i = 0 \/ Len(Of(4, i - 1)) <= MAX_TASKS

\* No client has a task too many, and the table has room for the clients.
Fits ==
  /\ \A i \in Ids : Len(Of(4, i)) <= MAX_TASKS
  /\ CountRead <= MAX_CLIENTS

\* Type invariant.
TypeOK ==
  /\ lines \in Seq(Line)
  /\ Len(lines) <= MaxLines
  /\ clients \in [Ids -> Client]
  /\ \A i \in Ids : /\ clients[i].node_id \in {i, Garbage}
                    /\ clients[i].num_tasks <= MaxLines
  /\ num_clients \in Int
  /\ timeout \in Int
  /\ wild \in BOOLEAN
  /\ process \in [Ids -> {"none", "ended", "listening", "crashed"}]

\* The table means what the file means, in whatever order the lines come, lists
\* cut short, mixed or ended twice: the two numbers, if there are some clients;
\* of each client whose neighbor left it alone, its file and its packet numbers,
\* if they are given once, the names of its tasks, and a single task in full.
TableIsMeaning ==
  ~wild =>
    /\ NumbersAreClear =>
         /\ num_clients = NodeCount
         /\ timeout = Timeout
         /\ \A i \in Ids : Spared(i) => clients[i].enabled = (i < NodeCount)
    /\ \A i \in Ids : Spared(i) =>
         /\ clients[i].node_id = i
         /\ Len(Of(2, i)) <= 1 =>
              clients[i].filename = IF Of(2, i) = << >> THEN NoName ELSE Of(2, i)[1].name
         /\ Len(Of(3, i)) <= 1 =>
              clients[i].packet = IF Of(3, i) = << >> THEN DefaultPacket ELSE Packet(Of(3, i)[1])
         /\ clients[i].has_task = (Of(4, i) # << >>)
         /\ Len(Of(4, i)) <= MAX_TASKS => TaskNames(Kept(i)) = TaskNames(Given(i))
         /\ Len(Of(4, i)) <= 1 => Kept(i) = Given(i)

\* "Number of clients (nodes)" comes first and "Request timeout in seconds" after
\* it, by the comments of manager.conf: also when there are no clients.  Not so:
\* a 0 is taken for no number read.
NumbersAsGiven ==
  ~wild /\ Len(Numbers) <= 2 /\ (\A k \in DOMAIN Numbers : Numbers[k].value >= 0) =>
    num_clients = NodeCount /\ timeout = Timeout

\* A task "is specified by download start time (in seconds from the start of
\* simulation), file name, and share", by the comments of manager.conf: also the
\* second task of a client.  Not so: the first one loses its start time and share.
TasksAsGiven ==
  ~wild => \A i \in Ids : Spared(i) /\ Len(Of(4, i)) <= MAX_TASKS => Kept(i) = Given(i)

\* init leaves the table alone behind its end as long as the file fits it.
StaysInTable == Fits => ~wild

\* A client listens only if the file gives it a task, even if others want the
\* file it has; and a client that was given both listens for sure.
ListensForTask ==
  Fits =>
    \A i \in Ids :
      /\ process[i] = "listening" => Of(4, i) # << >>
      /\ process[i] = "crashed" => Of(2, i) = << >> \/ Last(Of(2, i)).name \notin OnDisk

--------------------------------------------------------------------------------
(***************************************************************************)
(* Invariants that the proofs of module ConfigProofs carry through.        *)
(***************************************************************************)

\* The tasks of a client are counted right even when its record was run into.
Counted == \A i \in Ids : clients[i].num_tasks = Len(Of(4, i))

\* How the parser reads the lines, clear or not: the last number behind the count
\* is the timeout, and the last line of each list holds.
TimeoutRead == IF \E k \in FirstCount : k < Len(Numbers) THEN Last(Numbers).value ELSE 0

Record(i, count, files, packets, tasks) ==
  [node_id         |-> i,
   enabled         |-> i < count,
   filename        |-> IF files = << >> THEN NoName ELSE Last(files).name,
   packet          |-> IF packets = << >> THEN DefaultPacket ELSE Packet(Last(packets)),
   has_task        |-> tasks # << >>,
   task_start_time |-> IF tasks = << >> THEN -1 ELSE Last(tasks).start,
   task_share      |-> IF tasks = << >> THEN 0 ELSE Last(tasks).share,
   num_tasks       |-> Len(tasks),
   taskname        |-> [k \in 0 .. MAX_TASKS - 1 |->
                          IF k < Len(tasks) THEN tasks[k + 1].name ELSE NoName]]

AsRead(i) == Record(i, CountRead, Of(2, i), Of(3, i), Of(4, i))

TableIsRead ==
  ~wild =>
    /\ \A i \in Ids : Spared(i) => clients[i] = AsRead(i)
    /\ num_clients = CountRead
    /\ timeout = TimeoutRead

================================================================================
