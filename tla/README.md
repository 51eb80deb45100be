# A formal model of p1.worden.mike

`p1.worden.mike` (C, with a C++ timer library) simulates a small peer-to-peer
file sharing network on one host. A **manager** reads a configuration, forks a
**tracker** and one process per **client**, and hands out configurations over
TCP. Clients tell the tracker over UDP which file they are after; the tracker
answers with the clients that share it; a client then downloads the file from
one of them, 32 bytes at a time, over UDP.

This directory holds TLA+ modules of that program, the TLC runs that check
them, and TLAPS proofs of their main invariants. Paths below are relative to
`src/p1.worden.mike/`.

## 1. Inventory

| Part | Code | State it keeps | Operations | Talks to |
|---|---|---|---|---|
| Manager | `src/manager.c:9-157` | the array of client records, the listening socket | fork, listen, accept, compare counts | forks all others |
| Connection handler | `src/manager.c:165-275` | static `tracker_port`, `configured` flags | read the hello, write 25 records (tracker) or two buffers (client) | joined by the manager: one at a time |
| Tracker | `src/tracker.c` | `group_assign_list[MAX_FILES]`, `clients[].node_port` | `update_group_assign`, `find_group_assign`, `tracker_listener` | TCP to the manager once, UDP with clients |
| Client, start | `src/client.c:496-663` | its record | sleep, connect until a whole record is read | TCP to the manager |
| Client, loop | `src/client.c:328-486` | the file it shares, `elapsed_time` | tick, serve one record request | UDP from other clients |
| Client, update | `src/client.c:22-140` | one more open socket per call | send `GROUP_SHOW_INTEREST`, wait a second | UDP to the tracker |
| Client, download | `src/client.c:148-299` | statics: record counter, record count, port; automatics: buffer, attempts | choose a neighbor, request, receive, write the file | UDP to one client |
| Encoding | `src/utility.c` | none | (de)serialize integers, requests, groups, records | called by the ends of every exchange |
| Configuration | `src/init.c` | none | parse `manager.conf` | called by `main` |
| Timer queue | `src/timers.cc`, `src/timers-c.cc` | sorted list of deadlines | add, remove, next time, execute | called by both select loops |
| Logging | `src/utility.c:147-199` | log files | append | everybody |

What makes it hard:

* **Start-up races.** The tracker connects as soon as it is forked, while the
  manager still forks clients and has not called `listen`; the clients bridge
  the gap with `sleep(5)`. Nobody ignores SIGPIPE.
* **One thread for everything.** A client's loop serves requests, ticks,
  updates and whole download sessions in the same thread; in an update or a
  session it serves nobody, so that peers answer late, after the 1 s timeout.
* **Datagrams.** Requests and answers are lost, delayed past their timeout,
  and repeated by retries; no message carries a sequence number that is looked
  at.
* **State that outlives a session, and state that does not.** The record counter
  is `static`, the record buffer is not.
* **Limits.** `MAX_FILES` is 1, the table has no bounds check on neighbors, each
  update leaks a descriptor, a backlog is 3 for up to 25 clients, a file of any
  length is read into 20000 bytes.

What makes each part correct, in short: the bootstrap configures everybody with
the tracker's port; the tracker's table holds exactly what sharing clients have
said, once, and never loses it; a client's answer is no older than its last
request and names the ports of others; a download terminates its sessions and
ends with the wanted file, written once and intact. `PROJECT.json` lists the
hazards at their lines, with the properties that watch them.

## 2. Modules

| Module | What it is |
|---|---|
| `GroupAssign` | Pure functions: the table of groups, its update and search (`tracker.c:96-165`), and what a client makes of an answer (`utility.c:84-111`). No variables. |
| `Tracker` | Extends `GroupAssign`: the tracker's datagram branch, the group updates of all clients, and the datagrams between them. |
| `MCTracker` | Instances of `Tracker` with three clients. |
| `TrackerProofs` | Theorems about `Tracker`. |
| `Delivery` | The abstract promise of a download: nothing, then the wanted file, for ever. |
| `Transfer` | One client's download sessions and the peer it downloads from; implements `Delivery` under stated conditions. |
| `MCTransfer` | Instances of `Transfer`. |
| `TransferProofs` | Theorems about `Transfer`, with the refinement of `Delivery`. |
| `Bootstrap` | The manager, its handler, and the connections of tracker and clients. |
| `MCBootstrap` | Instances of `Bootstrap` with two or three clients. |
| `BootstrapProofs` | Theorems about `Bootstrap`. |
| `TimerSet` | The abstract promise of the timer library: a set of timers with plain due times, of which the first one due runs first. |
| `TimerQueue` | The library: a sorted list of pairs of seconds and microseconds; implements `TimerSet`. |
| `MCTimerQueue` | An instance of `TimerQueue`. |
| `TimerProofs` | Theorems about `TimerQueue`, with the refinement of `TimerSet`. |
| `EventLoop` | The select loop of a client, on the times of `TimerQueue`. |
| `MCEventLoop` | An instance of `EventLoop`. |
| `EventLoopProofs` | Theorems about `EventLoop`. |
| `Wire` | Pure functions: integers and file records as bytes. |
| `WireProofs` | What survives the encoding. |
| `Swarm` | Several whole clients, each serving and downloading, over `Wire`; implements `Transfer` for each of them. |
| `MCSwarm` | An instance of `Swarm` with two clients and a dead port. |
| `SwarmProofs` | Theorems about `Swarm`, with the refinement of `Transfer`. |
| `Config` | From the lines of the configuration to clients that listen. |
| `MCConfig` | An instance of `Config`. |
| `ConfigProofs` | Theorems about `Config`. |

How they compose: `Config` ends where the manager of `Bootstrap` begins;
`Bootstrap` ends where `Tracker` and the loops begin. A client's tick in
`EventLoop` does what `Tracker` (the update) and `Transfer` (the session) say;
`EventLoop` runs on an instance of `TimerQueue`. `Swarm` puts several clients
together and uses `Transfer` twice: its operators, through an instance per
client, and its next-state relation, as what every client must implement.

Definitions whose names have a suffix after an underscore (`Accept_ThirdWrite`)
are plausible bugs. No specification uses them; they stand next to the operator
they would replace, and `PROJECT.json` names the property that each one breaks.

### GroupAssign and Tracker

A port is named by the client that listens on it: all processes run on one
host, so addresses carry no information. `group_assign_list` is a function from
slots to records with the file name, `num_files`, and a sequence of neighbors
whose length is `num_neighbors`.

| Action | Code |
|---|---|
| `EarlyTick` | a tick before `task_start_time`: `client_tracker_comms` returns early, `elapsed_time` grows |
| `ShowInterest` | a tick that is due: socket, `sendto`, log entry; with the last descriptor gone `log_entry` writes through NULL and the client is `dead` |
| `ReceiveAssign` | `recvfrom` returns an answer and the client decodes it (`DeserializeGroupAssign`); with neighbors it goes on to a download |
| `AssignTimeout` | `recvfrom` returns -1, unnoticed; a zeroed buffer decodes to no neighbors |
| `EndDownload` | what a session (module `Transfer`) leaves of the client: idle, silent for ever (the counter is off a multiple of 8), or dead (no descriptor for the output file) |
| `HandleRequest` | the datagram branch of `tracker_listener`: update, find, answer |
| `Lose` | the network |

The decoding mixes two indices, so `neighbor_port` has a hole at the client's
own position; the hole holds an arbitrary port (`junk`), since the code never
initializes it. Left out: log lines, IP addresses (the decoder's `strcpy` of
single bytes runs past an address, into entries that are rewritten or not
read), ids in the client's copy (they are only logged), truncation of file
names to 32 bytes.

Each update has a socket of its own, and an answer carries the number of the
socket it was sent to (`sock`). Answers to an update that has timed out arrive
all the same and stay in their sockets. That nobody takes one of them is
`Awaits`, the socket in use; what this is worth to the client is
`AnswersAreCurrent`: whoever was listed for its file when the update began
(history variable `listed`) is in the answer it may take, so that a retry never
sets a client back. With one socket for all updates, the obvious cure for the
leak, an old answer would be taken for the new one and the property fails:
that is its mutant (`Awaits_OneSocket`).

### Transfer and Delivery

The file is a sequence of records. One action per step of the loop:
`BeginSession` (the tick with a counter at a multiple of the period and an
answer that names a port), `SendRequest`, `RecvReply`, `RecvTimeout`,
`EndSession` (with the write of the output file when the counts agree), and
`Serve` for the peer. `Garbage` stands for memory never assigned: the automatic
`file_buff` at the start of each session, `downloaded_fr.filesize` before the
first answer (then `fwrite` may take any number of bytes), and the part of a
peer's buffer behind its file. `filesize` in bytes and `num_records` are
identified. A peer's file has any length: nothing keeps it within the buffer
(`client.c:388-391`), and its record count crosses the network modulo
`CountRange`, two bytes (`RecordCount`). A peer that does not survive the
reading of a file too long is one that does not listen. A port on which nobody
listens, or a client's own port, swallows requests. `LateAnswers` says whether a
peer may take longer than the timeout, as a peer that is in an update or a
session of its own does.

`Delivery` has one variable and one step. `Transfer` maps it to `saved`.

### Bootstrap

`manager` is the manager's program counter; a handler is a countdown of writes
on the connection `serving`. A process is `starting` (about to connect),
`waiting` (in `recv`), `up` or `dead`. TCP is modelled as on Linux: a connect
before `listen` is refused and the next write to that socket raises SIGPIPE; a
first write to a socket closed by the other end goes unnoticed, the second one
raises SIGPIPE; the kernel completes connections into the backlog without the
manager; the listening socket is inherited by the children and outlives the
manager. The tracker deserializes part of a record when a read is short, through
pointers it may not have set (`utility.c:291-313`): with `ShortReads` such a
read either counts, as a whole one does, or leaves the tracker dead. The message
that announces the manager's termination is left out, because the flag is reset
in the next line (`manager.c:141-142`) and the loop accepts for ever, as
`Accept` does.

### TimerSet and TimerQueue

The list of `timers.cc` is a sequence of events with a handle, a timeout and a
`Timeval`. `AddTimer`, `RemoveTimer`, and `BeginExecute`/`EndExecute` (the two
halves of `ExecuteNextTimer`, before and after the callback) are driven by any
caller, also from within a callback; while the callback runs its event is out
of the list, in `executing`. `Advance` is the clock. `Timeval_Addusecs` keeps
the code's `>` (`timers.cc:132`): a sum of exactly one second stays in the
microseconds. `Timeval_Cmp` and `Timeval_Sub` are taken line by line as well,
since the question is whether the missing carry matters. The C wrapper
(`timers-c.cc`) passes everything on.

`TimerSet` has numbers for times and a set for the list. The mapping sums
seconds and microseconds.

### EventLoop

`client_listener` from the moment `launch_client` has added its one timer. `pc`
is the place in the loop: its `head`, in `select`, `drain` (the inner loop
over expired timers), or `comms` (the session). The time of select and of
sessions is real (`Elapse`); everything else takes less than a microsecond. A
timer that is found expired at the head of the loop is executed without a
session and without counting (`HeadExpired`, `client.c:406-409`). The loop of
`tracker_listener` is the same with an empty `comms`.

A tick is compared with the start time of the task (`HasStarted`,
`client.c:45`); before that `comms` takes no time. `manager.conf` gives the start
time in seconds from the start of the simulation, the client counts periods of
three seconds. `NotBeforeStart` and `StartsOnTime` are the two halves of what the
comment promises, in seconds of the clock: no client begins before, and one whose
time has come has begun at its next timeout. The first holds, since a period is
longer than a second; the second does not.

### Wire

`serialize_record` and `deserialize_record` byte by byte: three integers of two
bytes, the contents, the name. The record has 294 bytes and the buffers 256:
`Datagram` keeps what both sides send and receive, `At` reads on behind it. The
writes behind the sender's buffer are not followed.

### Swarm

Every client has a socket with a queue of requests. One in `select` serves the
first of them; with nothing to read its timer may begin a group update
(`BeginUpdate`), which waits up to a second for the tracker and ends with a
session (`BeginSession`) or without (`EndUpdate`: it named nobody, timed out, or
could not be sent). During both nobody is served. Requests outlive their
session, their answers go to a closed socket and vanish. `T(c)` is `Transfer`
with the variables of client `c`; its `requests` are those of the session of `c`
in its peer's queue (`Outstanding`, a filter `Asks` of the queue), its `replies`
what `Transfer` keeps of an answer (`Answers`); an update is no step of it yet.
A request and an answer pass through `Wire`. `overlapped` is a history variable:
a session of the client met with an update or a session of its peer. The
client's timer is reduced to a choice, since `EventLoop` shows what it does.

### Config

`init` reads lines and tells them apart by their number of words: a number, the
file of a client, a delay, a task. A task too many is written past `taskname`
into the record of the next client (`Overrun`), and behind the table if there
is none; from there on the model says nothing (`wild`). `Start` is the process
of an enabled client, up to where it listens, ends (no task), or calls
`fclose(NULL)` (a task and no file), which may crash or not.

What a file means is stated from the comments of `manager.conf`, without
following the parser: two numbers, of the clients first and then the timeout
(`NodeCount`, `Timeout`); tasks each with a name, a start time and a share
(`Given`); the file and the packet numbers of a client. `Of` is a filter of the
file: the lines of one kind that name the client, whatever stands between them.
`TableIsMeaning` says where the table holds that meaning: the numbers, if there
are some clients and no third number; of a client whose neighbor left it alone,
the file and packet numbers that are given once, the names of its tasks, and its
one task in full. Without these conditions it is `NumbersAsGiven` and
`TasksAsGiven`, which fail: a count of 0 is taken for no number read
(`init.c:84`), and all tasks of a client share the start time and the share
flag of the last one (`init.c:123-124`).

## 3. Runs

Passing:

| Run | Instance | Shows |
|---|---|---|
| `tracker_one_slot` | 3 clients, 2 files, 1 slot, lossy | The table is sound (`RegistrySound`) and only grows, an answer is never older than the update that takes it (`AnswersAreCurrent`), and old answers agree with the table up to the hole (`ViewsAgreeWithTable`), while two files compete for the slot. |
| `tracker_two_slots` | 3 clients, 2 files, 2 slots, fair, no loss | No duplicates in the table; a sharer finds itself in its answer and in the table in the end. |
| `transfer_prompt` | 2 peers and a dead port, 3 losses, fair | Refinement of `Delivery`; sessions end; one session with a live peer saves the file. |
| `transfer_late` | 2 late peers, 2 losses | Indices stay in range, answers lag but never run ahead, the file is written at most once. |
| `bootstrap_prompt` | 3 clients, backlog 2, fair, races won | Everybody is configured with the right port, nobody kills the manager, `configured` is not a lie. |
| `bootstrap_slow` | 3 clients, 3 tries each, all races open, short reads, which may kill the tracker | The tracker's index stays in its table; a client that is up is counted, even if it closes between the two writes; the writes to one connection agree on the port. |
| `timerqueue_any_caller` | 3 timers, any calls, callbacks that return -1, 0 or a new timeout | The wait given to select is exact (`WaitIsExact`) in spite of the missing carry; refinement of `TimerSet`. |
| `eventloop_busy` | late select, long sessions, 3 requests, fair | No client begins before its start time in seconds (`NotBeforeStart`), an idle client loses no tick, select never sleeps past the timer, requests are served, the ticks go on. |
| `swarm_pair` | 2 clients, one with a file too long for its buffer, and a dead port, 1 loss each, fair | Each client implements `Transfer`; a file is damaged only after its session met a session or an update of the peer; sessions and updates end though clients wait for each other or themselves; old requests are all served. |
| `config_any_file` | 2 clients, 2 tasks, all files of up to 4 lines | The table is what the comments of `manager.conf` say the file means, under the conditions above (`TableIsMeaning`); nothing is written behind it if the file fits; who listens was given a task. |

Expected violations, each a finding in `PROJECT.json`:

| Run | What TLC finds |
|---|---|
| `transfer_late_answer` | A late answer is stored as the next record (`client.c:276`). |
| `bootstrap_race` | A refused tracker dies and the clients run with port -1 (`manager.c:105`). |

Behaviour that the models show as well, without a run of its own:

* With the only slot taken, a client of another file is answered with the first
  group (`tracker.c:157`): in the instance of `tracker_one_slot` the file name
  of an answer need not be the one asked for.
* A client that stands before others in its answer reads the port at its own
  position, which nobody wrote (`utility.c:106`): in the same instance a port in
  `view` may be `junk`, and `ViewsAgreeWithTable` has to except that position.
* A session that ends by its attempts on a multiple of the period is resumed
  with a new buffer and writes a file without its first records
  (`client.c:165-169`): `SavedIntact` fails for `transfer_late_answer` with
  `LateAnswers = FALSE` and `MaxAttempts = 3`.
* A file whose length is a multiple of the period is overwritten with garbage by
  the first tick after the download (`client.c:176`): `SavedIntact` fails there
  with a wanted file of three records and `LateAnswers = FALSE`.
* A peer without a file answers with a length of zero and stalls the download
  for ever (`client.c:272`): `EventuallySaved` fails for `transfer_prompt` if
  `Content[q]` is empty.
* A client begins when it has counted as many ticks as its start time, not when
  the time in seconds has come that `manager.conf:18-19` speaks of:
  `StartsOnTime` fails for `eventloop_busy`, and with `Timeouts = {6}`, the three
  seconds of `client.c:652`, already at the first tick behind the start time.
* 0 clients and a timeout of 1 are read as one client (`init.c:84`), against the
  order of numbers in `manager.conf:2-6`: `NumbersAsGiven` fails for
  `config_any_file`.
* The first of two tasks has the start time and the share flag of the second
  (`init.c:123-124`), against `manager.conf:17-20`: `TasksAsGiven` fails there.

### Bounds

* Three clients are the least with a sharer, a second entry behind it, and a
  third client to read both or to ask for another file. Two files and one or
  two slots give both a full and a spare table.
* `FdLimit = 3` lets a client make two full updates and the fatal third, so
  that a late first request meets its successors, and a late first answer the
  second update.
* `MaxRecords = 7`, `MaxAttempts = 8`, `InterestPeriod = 3` for 625, 800 and 8:
  as in the code the longest file is one past a multiple of the period
  (625 = 78·8 + 1) and a session has attempts to spare. `CountRange = 8` is the
  least that `MaxRecords` allows.
* `MaxLoss` bounds datagrams lost, `MaxTries` the connections of a client, the
  table sent to the tracker has three records for 25, the backlog is 2 for 3.
* `TimerQueue`: seconds of three microseconds and milliseconds of one, timeouts
  of 1, 3 and 7, so that sums below, of exactly, and above a second occur, and
  carries of more than one; the clock crosses three seconds. Three timers are
  the least for an insertion between two.
* `EventLoop`: a second of two microseconds, timeouts of 1 to 3, a select that
  may be one late, sessions of four, longer than any timeout, so that the timer
  has expired behind a session. A start time of two, so that ticks of less than a
  second, which may come early, and of a second and more, which may not, both
  occur. Three requests and three ticks: the properties about requests and ticks
  look at one and its successor.
* `Swarm`: two live clients that may ask each other, a port on which nobody
  listens, and a client's own port, as the junk of an update may name it; a file
  of two records, and one of five, whose count wraps around to one; three records
  and attempts at most, a period of 3, two
  sessions each, so that requests of the first are met by the second. Bytes
  have two values: three records need two of them. A record has 9 cells and the
  datagram 8: the name is cut, as in the code.
* `Config`: two clients, one with a record behind it and one without; two tasks
  per client for `MAX_TASKS`, so that the third one runs over; four lines are
  enough for three tasks and a number, or for two numbers with zeros in front.

Deadlock is not checked: a client that fell silent, a completed download, a
configured system and a table without timers stop, as they do in the code as
far as these actions go, and some models stop at their bounds.

### Fairness

* `Tracker`: the select loop serves a datagram that has arrived; a client's
  periodic timer goes on firing; `recvfrom` returns within its timeout; a
  session ends (shown by `SessionsEnd`). No fairness on `Lose`.
* `Transfer`: ticks go on, the loop runs, a peer comes back to its select loop.
  Which neighbor is chosen is not fair: `rand` may always take the dead one, and
  `EventuallySaved` says so.
* `Bootstrap`: each process runs while it can.
* `EventLoop`: the clock runs, and the thread is scheduled. No fairness on
  requests: they are finitely many, and `TicksGoOn` needs that. A client whose
  timer expires behind every request it serves gets to no tick, by
  `HeadExpired`.
* `Swarm`: the threads of listening clients are scheduled and `recv` returns
  within its timeout. No fairness on ticks: a client need not begin sessions.

## 4. Proofs

All theorems hold for every value of the constants that satisfies the named
assumptions of the modules. Each follows from an inductive invariant whose
preservation is proved action by action.

`TrackerProofs` (no assumption beyond `GroupAssignAssumption` and
`TrackerAssumption`, lossy or not, for any number of clients, files, slots):

* `TypeCorrect`, `TableStaysWellFormed`: by `TableInv`, that is `TypeOK`, the
  property, and `UnusedSlots`: a slot with `num_files = 0` is empty, without
  which a new file could land on old neighbors.
* `RegistryIsSound`: by `RequestsSound` in addition, since a listing is as sound
  as the request it came from, and requests may be arbitrarily old.
* `TableGrowsOnly`: an action property, by `TableInv` and the lemma
  `UpdateGrows` about `UpdateGroupAssign`.
* `LateAnswersDoNoHarm` (`AnswersAreCurrent`): by `ListedStay` (whoever was listed
  when the update began still is, which is where `TableGrowsOnly` comes in) and
  `RepliesSound` (no answer is in a socket that is not open yet, so that none
  that is older than the update can be in its socket). The answer is read from
  the table after the request arrived, hence after the update began.
* `OldViewsAreGood` (`ViewsAgreeWithTable`): by `RepliesAgree`, the same of
  answers on their way, and `UpdateKeepsEntries`; `DeserializedPorts` shows that
  no position which a client reads lies behind the list it was sent.
* `SharersAreAnswered`: by `RequestsSound`, and because slots that other files
  have taken stay taken.

`TransferProofs`:

* `TypeCorrect`, `AnswersNeverRunAhead` (by `LagInv`): no condition, and files of
  any length at the peers.
* `SavedFileIsFinal` (by `CountInv`): if all listening peers hold the wanted
  file (`AllHoldIt`), it fits the buffer (`ItFits`) and its length is no
  multiple of the period (`OddLength`), however late answers are. The file of
  three records described above shows that `OddLength` cannot go; `AllHoldIt`
  fixes whose length is meant, since the code takes it from whichever peer
  answered last.
* `PromptDelivery` (by `PromptInv`): `Spec => Delivers` if moreover answers are
  prompt and `AttemptsToSpare` holds. `transfer_late_answer` and the resumed
  session described above show that neither can go. `PromptInv` says that the
  records stored are a prefix of the file and that at most the record just asked
  for is on its way.

`BootstrapProofs`, for any number of clients, tries, records and any backlog:

* `TypeCorrect` and `UpClientsAreCounted` with every race open and reads of any
  length: by `CountersFit` (a handler writes to a client twice at most) and
  `RecordCounts` (whoever has a record in hand is counted, or its handler still
  has the second write to do on a socket that has not answered with a reset).
* `WritesAgree`, likewise: by `BacklogIsFresh` (a connection is accepted once
  and has brought nothing before) and `PortOfServing`.
* `TrackerIsKnown`, under `ListenFirst` and `SleepSuffices`: by `TrackerFirst`
  (the tracker's connection is ahead of those of all clients, in the backlog or
  already served) and `OnlyThatPort`. Neither promptness nor whole reads are
  needed, nor that the tracker survives its own. `bootstrap_race` shows that
  `ListenFirst` cannot go.
* `PromptManagerSurvives` and `ConfiguredAreServed`, under `Prompt` and without
  short reads, whoever wins the races: by `BacklogIsFresh` and `NobodyLeaves`.

`TimerProofs`, for any length of a second, timeouts, callbacks and number of
timers, without conditions:

* `TypeCorrect` and `WaitForTheFirst`: by `Sorted` and `HandlesDiffer`. The
  comparison of two timevals agrees with that of their sums even where one was
  not carried, since only microseconds up to and including a whole second occur
  (`CmpAgrees`).
* `TimersRefineSet`: `Spec => ImplementsTimerSet`, from the same invariant.

`WireProofs`: `RecordSurvives`, a fact about operators. The contents come back
unchanged from any datagram that has room for them (`WireAssumption`), the
numbers modulo what two bytes hold; of the name arrives what fits.

`EventLoopProofs`, for any clock, timeouts, delays and number of requests. The
lemmas of `TimerProofs` come in through an `INSTANCE`, whose assumption is
proved from that of `EventLoop` (`TimersAssumed`):

* `TypeCorrect`: the list holds exactly one timer, since every expiration puts
  it back, so that its first element is always defined.
* `SelectWakesForTimer`: the wait comes from the first deadline, by
  `SubIsDifference`.
* `StartTimesAreKept` (`NotBeforeStart`): a count of n stands for n periods
  (`NeverEarly`), by `TicksTakePeriods`: the deadline is at least the start plus a
  period for each tick that was counted, and one more. With a period of a second
  or more that gives the start time in seconds.
* `OnlyWorkLosesTicks`, by `SkipsArePaid`, if a second has more than one
  microsecond: every expiration found at the head of the loop has a request or
  a session before it.

`SwarmProofs`, for any number of clients, whoever may download from whom, any
losses and old requests, files of any length. `Spec` contains fairness, which no
proof uses:

* `TypeCorrect`: by `RequestsSound` (a request comes from a session that was
  begun, and while that lasts it is in the queue of the session's peer) and
  `AnswersSound` (there are answers only for a session that lasts). That the
  numbers survive their bytes is `RecordSurvives` of `WireProofs`, through
  `RequestArrives` and `AnswerArrives`.
* `EachIsATransfer`: the refinement of `Transfer` by every client, from the same
  invariants. A step of client `d` must leave `Outstanding(c)` alone for every
  other `c` although they share queues: `AsksAppend` and `AsksTail` say what
  the filter does at either end of a queue. They are inductions over the queue.
* `IntactWithoutOverlap`: by `PeerIsPrompt` (while a session has met with no
  session and no update of its peer's, its peer is in select), `UpdateIsDue`, and
  `PromptInvs`, which is `PromptInv` of `Transfer` for every client that can do
  without late answers. A refinement
  alone would not do: the mapped peer may be late, and only `PeerIsPrompt` turns a
  timeout of the swarm into a loss, so that `PromptInv` is preserved.

`ConfigProofs`, for any set of lines, any size of the table and files of any
length:

* `TypeCorrect`: with `Counted`, the tasks of a client are counted right even
  when its record was run into; so the counts are bounded by the lines.
* `TableMeansFile` (`TableIsMeaning`): in two parts. `TableIsRead` says how the
  parser reads a file, clear or not, and is inductive, one line at a time: a
  line adds itself to the end of the filtered lists of its kind, `Counted` says
  that the name behind the last taskname is written exactly when the file has a
  task too many. From it follows, without a look at the steps, what the comments
  of `manager.conf` say, under the conditions of `TableIsMeaning`
  (`NumbersAreRead`, `TasksAreRead`, `RecordFields`).
* `TableIsKept` and `ListenersHaveTasks`, from the former and `Counted`.

Induction: both modules need facts about filters of sequences, which are
recursive functions. The lemma `Induction` states it for sets (a set with 0 and
all successors holds all natural numbers) and follows from the library's
theorem that `<` is well founded; each use defines the set of lengths for which
the claim holds.

Checked by TLC only: liveness (`InterestIsRecorded`, `SessionsEnd`,
`EventuallySaved`, `AllConfigured`, `RequestsServed`, `TicksGoOn`), which the
prover does not handle under fairness.

## 5. Not modelled

* Logging and debug output (pure output, but for the NULL file in `Tracker`) and
  `main`, which makes two calls.
* Failing system calls other than the ones named; a `fork`, `bind` or
  `pthread_create` that fails ends the process with a message.
* The copy of the timer library and its test programs under `timers/`, which the
  build does not use, and the Xcode project.
* `serialize_group_req`, `serialize_group_assign` and the reading end of the
  first: they write and read all fields in the same order within their
  buffers and are taken as exact. Addresses: all processes run on one host.
  The decoder's `strcpy` of single bytes may run past an address, into entries
  that are rewritten or not read.
* Requests without end. A client that is always asked serves for ever and may
  get to no tick (see Fairness); the model bounds the requests.
* The end of the manager: it announces it and goes on (`manager.c:141-142`), as
  `Accept` does.
* Memory after an out-of-bounds write: `Config` stops there (`wild`), and neither
  the 38 bytes that `serialize_record` writes behind its buffer are followed, nor
  what a client's file overwrites that is longer than the buffer it is read into.
* How many updates a client should survive. The descriptors it leaks are
  counted (`sockets`, `FdLimit`) and the last one kills it, but no comment or
  test promises anything that a property could say.
* Several tasks of one client, beyond what `init` stores: only the first name is
  ever downloaded.
