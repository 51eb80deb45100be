---------------------------------- MODULE Swarm ----------------------------------
(***************************************************************************)
(* Several whole clients that download from one another.                   *)
(*                                                                         *)
(* Each is one thread (module EventLoop): in select it answers the         *)
(* requests in its socket, first come first served; a timeout of select    *)
(* with nothing to read may begin a group update, in which it waits up to  *)
(* a second for the tracker (module Tracker), and if the update names      *)
(* somebody a session of its own, client_client_comms of module Transfer.  *)
(* Until it is back in select its socket fills up.  Requests of a session  *)
(* that is over are still answered, to a socket that was closed.           *)
(*                                                                         *)
(* A client in select answers within the second that others wait, one in   *)
(* an update or a session may answer later.  Both ways, what arrives is    *)
(* what module Wire makes of a file record.                                *)
(***************************************************************************)
EXTENDS Wire

CONSTANTS
  Clients,         \* client processes, each with its UDP port
  Listening,       \* those that have a task, and so run client_listener
  Neighbors,       \* Neighbors[c]: the ports that updates of c may name
  Data,            \* contents of a record
  Content,         \* Content[c]: the records in the memory of client c
  Wanted,          \* Wanted[c]: the file that the task of c asks for
  NotSaved,        \* the output file was not written yet
  MaxRecords,      \* num_records_max
  MaxAttempts,     \* max_downloads_session
  InterestPeriod,  \* a group update is due every so many records
  MaxSessions,     \* bound: sessions of a client
  MaxLoss          \* bound: datagrams lost per downloading client

ASSUME SwarmAssumption ==
  /\ Listening \subseteq Clients
  /\ Neighbors \in [Clients -> SUBSET Clients]
  /\ \A c \in Clients \ Listening : Neighbors[c] = {}
  /\ {MaxRecords, MaxAttempts, InterestPeriod} \subseteq Nat \ {0}
  /\ Content \in [Clients -> Seq(Data)]
  /\ Wanted \in [Clients -> Seq(Data)]
  /\ MaxRecords < Byte * Byte
  /\ Data \cup {Garbage} \subseteq Cell
  /\ Garbage \notin Data \cup Nat
  /\ NotSaved \notin Seq(Data \cup {Garbage})
  /\ BufBytes > 0
  /\ MaxSessions \in Nat
  /\ MaxLoss \in Nat

VARIABLES
  pc,                          \* "select", "update", "loop" or "recv"
  sessions,                    \* sessions begun so far; the last one has the open socket
  num_records_downloaded,
  num_records_file,
  current_records_downloaded,
  download_port,
  file_buff,
  filesize,
  inbox,                       \* requests in the socket of client_listener
  replies,                     \* answers in the socket of the session
  saved,
  losses,
  overlapped                   \* history: a session met with an update or a session
                               \* of its peer

transfer == <<num_records_downloaded, num_records_file, current_records_downloaded,
              download_port, file_buff, filesize, saved, losses>>
vars     == <<pc, sessions, transfer, inbox, replies, overlapped>>

RecordNumber == 0 .. MaxRecords - 1
Buf          == Data \cup {Garbage}
Request      == [from : Clients, session : 1 .. MaxSessions, fr : FileRecord]

Init ==
  /\ pc = [c \in Clients |-> "select"]
  /\ sessions = [c \in Clients |-> 0]
  /\ num_records_downloaded = [c \in Clients |-> 0]
  /\ num_records_file = [c \in Clients |-> MaxRecords]
  /\ current_records_downloaded = [c \in Clients |-> 0]
  /\ download_port = [c \in Clients |-> c]
  /\ file_buff = [c \in Clients |-> [i \in RecordNumber |-> Garbage]]
  /\ filesize = [c \in Clients |-> Garbage]
  /\ inbox = [c \in Clients |-> << >>]
  /\ replies = [c \in Clients |-> << >>]
  /\ saved = [c \in Clients |-> NotSaved]
  /\ losses = [c \in Clients |-> 0]
  /\ overlapped = [c \in Clients |-> FALSE]

InSession(c) == pc[c] \in {"loop", "recv"}

\* The socket that request r came from is still open.
IsOpen(r) == InSession(r.from) /\ r.session = sessions[r.from]

\* The record numbers that session n of client c asks for in the queue q.
Asks(q, c, n) ==
  LET F[i \in 0 .. Len(q)] ==
        IF i = 0 THEN << >>
        ELSE IF q[i].from = c /\ q[i].session = n THEN Append(F[i - 1], q[i].fr.record_number)
        ELSE F[i - 1]
  IN  F[Len(q)]

\* Those that the session of c has asked for and its peer has not answered yet.
Outstanding(c) ==
  IF InSession(c) THEN Asks(inbox[download_port[c]], c, sessions[c]) ELSE << >>

\* What module Transfer keeps of the answers in q.
Answers(q) == [i \in DOMAIN q |-> [num_records |-> q[i].num_records, buf |-> q[i].buf[1]]]

\* One client as module Transfer sees it, its peer answering whenever it likes.
\* Record counts are two bytes; an update is no step yet.
T(c) == INSTANCE Transfer WITH
  Peers       <- Clients,
  Wanted      <- Wanted[c],
  CountRange  <- Byte * Byte,
  LateAnswers <- TRUE,
  pc                         <- IF InSession(c) THEN pc[c] ELSE "select",
  num_records_downloaded     <- num_records_downloaded[c],
  num_records_file           <- num_records_file[c],
  current_records_downloaded <- current_records_downloaded[c],
  download_port              <- download_port[c],
  file_buff                  <- file_buff[c],
  filesize                   <- filesize[c],
  requests                   <- Outstanding(c),
  replies                    <- Answers(replies[c]),
  saved                      <- saved[c],
  losses                     <- losses[c]

\* What a request says.  Its filesize was never set; the name is that of the
\* client's own file, whichever file it is after.
Asked(c) ==
  [record_number |-> num_records_downloaded[c], num_records |-> 1, filesize |-> 0,
   buf |-> [k \in 1 .. BufBytes |-> Garbage], filename |-> [k \in 1 .. NameBytes |-> Garbage]]

\* What p answers to the request fr: that record, filled in.
Answer(p, fr) ==
  [fr EXCEPT !.num_records = Len(Content[p]),
             !.filesize    = Len(Content[p]),
             !.buf         = [k \in 1 .. BufBytes |-> T(p)!Record(p, fr.record_number)]]

--------------------------------------------------------------------------------
(***************************************************************************)
(* An update and a session (client_client_comms).                          *)
(***************************************************************************)

\* Select timed out with nothing to read, and the record counter allows a group
\* update.  The sessions that c is to serve are now served late.
BeginUpdate(c) ==
  /\ pc[c] = "select"
  /\ inbox[c] = << >>
  /\ num_records_downloaded[c] % InterestPeriod = 0
  /\ pc' = [pc EXCEPT ![c] = "update"]
  /\ overlapped' = [d \in Clients |-> \/ overlapped[d]
                                      \/ InSession(d) /\ download_port[d] = c]
  /\ UNCHANGED <<sessions, transfer, inbox, replies>>

\* The update named no neighbor, timed out, or could not be sent.
EndUpdate(c) ==
  /\ pc[c] = "update"
  /\ pc' = [pc EXCEPT ![c] = "select"]
  /\ UNCHANGED <<sessions, transfer, inbox, replies, overlapped>>

\* The update named p, which may be in an update or a session as well, or c.
BeginSession(c, p) ==
  /\ pc[c] = "update"
  /\ sessions[c] < MaxSessions
  /\ pc' = [pc EXCEPT ![c] = "loop"]
  /\ sessions' = [sessions EXCEPT ![c] = @ + 1]
  /\ current_records_downloaded' = [current_records_downloaded EXCEPT ![c] = 0]
  /\ download_port' = [download_port EXCEPT ![c] = p]
  /\ file_buff' = [file_buff EXCEPT ![c] = [i \in RecordNumber |-> Garbage]]
  /\ filesize' = [filesize EXCEPT ![c] = Garbage]
  /\ overlapped' = [overlapped EXCEPT ![c] = @ \/ pc[p] # "select"]
  /\ UNCHANGED <<num_records_downloaded, num_records_file, saved, losses, inbox, replies>>

\* Mutation: the condition of the while is not looked at.
SendRequest_Unchecked(c) ==
  /\ pc[c] = "loop"
  /\ pc' = [pc EXCEPT ![c] = "recv"]
  /\ download_port[c] \in Listening
  /\ inbox' = [inbox EXCEPT ![download_port[c]] =
       Append(@, [from |-> c, session |-> sessions[c], fr |-> Received(Asked(c))])]
  /\ UNCHANGED <<sessions, transfer, replies, overlapped>>

\* A request reaches the peer, or nobody, or is lost (or its answer will be).
SendRequest(c) ==
  /\ pc[c] = "loop"
  /\ T(c)!IsWanting
  /\ pc' = [pc EXCEPT ![c] = "recv"]
  /\ current_records_downloaded' = [current_records_downloaded EXCEPT ![c] = @ + 1]
  /\ LET p == download_port[c]
         r == [from |-> c, session |-> sessions[c], fr |-> Received(Asked(c))]
     IN  \/ /\ p \in Listening
            /\ inbox' = [inbox EXCEPT ![p] = Append(@, r)]
            /\ UNCHANGED losses
         \/ /\ p \notin Listening
            /\ UNCHANGED <<inbox, losses>>
         \/ /\ losses[c] < MaxLoss
            /\ losses' = [losses EXCEPT ![c] = @ + 1]
            /\ UNCHANGED inbox
  /\ UNCHANGED <<sessions, num_records_downloaded, num_records_file, download_port,
                 file_buff, filesize, replies, saved, overlapped>>

RecvReply(c) ==
  /\ pc[c] = "recv"
  /\ replies[c] # << >>
  /\ LET r == Head(replies[c])
         n == num_records_downloaded[c]
     IN  /\ num_records_file' = [num_records_file EXCEPT ![c] = r.num_records]
         /\ filesize' = [filesize EXCEPT ![c] = r.filesize]
         /\ file_buff' = [file_buff EXCEPT ![c][n] = r.buf[1]]
         /\ num_records_downloaded' = [num_records_downloaded EXCEPT ![c] = n + 1]
  /\ pc' = [pc EXCEPT ![c] = "loop"]
  /\ replies' = [replies EXCEPT ![c] = Tail(@)]
  /\ UNCHANGED <<sessions, current_records_downloaded, download_port, inbox, saved,
                 losses, overlapped>>

\* Mutation: no receive timeout is set.
RecvTimeout_Never(c) == FALSE /\ UNCHANGED vars

\* Mutation: the receive timeout is shorter than a prompt answer.
RecvTimeout_Impatient(c) ==
  /\ pc[c] = "recv"
  /\ pc' = [pc EXCEPT ![c] = "loop"]
  /\ UNCHANGED <<sessions, transfer, inbox, replies, overlapped>>

\* A peer in select answers in time; the timeout then means a loss.
RecvTimeout(c) ==
  /\ pc[c] = "recv"
  /\ replies[c] = << >>
  /\ Outstanding(c) # << >> => pc[download_port[c]] # "select"
  /\ pc' = [pc EXCEPT ![c] = "loop"]
  /\ UNCHANGED <<sessions, transfer, inbox, replies, overlapped>>

\* The session's socket is closed, with what it still holds.
EndSession(c) ==
  /\ pc[c] = "loop"
  /\ ~T(c)!IsWanting
  /\ pc' = [pc EXCEPT ![c] = "select"]
  /\ \/ /\ num_records_downloaded[c] = num_records_file[c]
        /\ \E file \in T(c)!Written : saved' = [saved EXCEPT ![c] = file]
     \/ /\ num_records_downloaded[c] # num_records_file[c]
        /\ UNCHANGED saved
  /\ replies' = [replies EXCEPT ![c] = << >>]
  /\ UNCHANGED <<sessions, num_records_downloaded, num_records_file,
                 current_records_downloaded, download_port, file_buff, filesize, inbox,
                 losses, overlapped>>

--------------------------------------------------------------------------------
(***************************************************************************)
(* Serving (the request branch of client_listener).                        *)
(***************************************************************************)

\* Mutation: an answer goes to whatever session its requester has by now, as if
\* all of them used one socket.
Delivered_AnySession(r) == InSession(r.from)

\* An answer arrives only at the socket that the request was sent from.
Delivered(r) == IsOpen(r)

\* Mutation: a request whose sender is gone is not taken off the queue.
Serve_KeepsStale(p) ==
  /\ pc[p] = "select"
  /\ inbox[p] # << >>
  /\ LET r == Head(inbox[p])
     IN  /\ IsOpen(r)
         /\ inbox' = [inbox EXCEPT ![p] = Tail(@)]
         /\ replies' = [replies EXCEPT ![r.from] =
              Append(@, Received(Answer(p, r.fr)))]
  /\ UNCHANGED <<pc, sessions, transfer, overlapped>>

Serve(p) ==
  /\ pc[p] = "select"
  /\ inbox[p] # << >>
  /\ LET r == Head(inbox[p])
     IN  /\ inbox' = [inbox EXCEPT ![p] = Tail(@)]
         /\ replies' = IF Delivered(r)
                         THEN [replies EXCEPT ![r.from] =
                                 Append(@, Received(Answer(p, r.fr)))]
                         ELSE replies
  /\ UNCHANGED <<pc, sessions, transfer, overlapped>>

\* The steps that a client outside select can take.
Session(c) == \/ EndUpdate(c)
              \/ \E p \in Neighbors[c] : BeginSession(c, p)
              \/ SendRequest(c)
              \/ RecvReply(c)
              \/ RecvTimeout(c)
              \/ EndSession(c)

Next ==
  \/ \E c \in Listening : BeginUpdate(c)
  \/ \E c \in Clients : EndUpdate(c)
  \/ \E c \in Clients : \E p \in Neighbors[c] : BeginSession(c, p)
  \/ \E c \in Clients : SendRequest(c)
  \/ \E c \in Clients : RecvReply(c)
  \/ \E c \in Clients : RecvTimeout(c)
  \/ \E c \in Clients : EndSession(c)
  \/ \E p \in Clients : Serve(p)

\* Every thread is scheduled, and recv returns, at the tracker's answer or the
\* peer's or after its second.  No fairness for the ticks: a client need not
\* begin updates.
Spec == /\ Init
        /\ [][Next]_vars
        /\ \A c \in Listening : WF_vars(Session(c)) /\ WF_vars(Serve(c))

--------------------------------------------------------------------------------
(***************************************************************************)
(* Properties.                                                             *)
(***************************************************************************)

\* Type invariant.
TypeOK ==
  /\ pc \in [Clients -> {"select", "update", "loop", "recv"}]
  /\ sessions \in [Clients -> 0 .. MaxSessions]
  /\ \A c \in Clients : InSession(c) => sessions[c] > 0
  /\ num_records_downloaded \in [Clients -> 0 .. MaxRecords]
  /\ \A c \in Clients : pc[c] = "recv" => num_records_downloaded[c] < MaxRecords
  /\ num_records_file \in [Clients -> Nat]
  /\ current_records_downloaded \in [Clients -> 0 .. MaxAttempts]
  /\ download_port \in [Clients -> Clients]
  /\ file_buff \in [Clients -> [RecordNumber -> Buf]]
  /\ filesize \in [Clients -> Nat \cup {Garbage}]
  /\ \A c \in Clients : filesize[c] \in {num_records_file[c], Garbage}
  /\ inbox \in [Clients -> Seq(Request)]
  /\ \A c \in Clients : \A i \in DOMAIN inbox[c] : inbox[c][i].fr.record_number \in RecordNumber
  /\ \A c \in Clients \ Listening : inbox[c] = << >>
  /\ replies \in [Clients -> Seq(FileRecord)]
  /\ saved \in [Clients -> Seq(Buf) \cup {NotSaved}]
  /\ losses \in [Clients -> 0 .. MaxLoss]
  /\ overlapped \in [Clients -> BOOLEAN]

\* However many clients serve and download at once, each of them sees no more
\* than what module Transfer allows a peer that may be late: what is checked and
\* proved there holds for every client of the swarm.  That the records pass
\* through bytes, and their names are cut, makes no difference.
EachImplementsTransfer ==
  /\ \A c \in Clients : T(c)!Init
  /\ [][\A c \in Clients : [T(c)!Next]_(T(c)!vars)]_vars

\* What a file needs to arrive whole, with module Transfer's conditions: the
\* neighbors that answer all have it, it fits in file_buff, its length is no
\* multiple of the period, there are attempts to spare.
CanArrive(c) ==
  /\ \A p \in Neighbors[c] \cap Listening : Content[p] = Wanted[c]
  /\ Len(Wanted[c]) <= MaxRecords
  /\ Len(Wanted[c]) % InterestPeriod # 0
  /\ Len(Wanted[c]) + MaxLoss <= MaxAttempts

\* Answers come late only from a peer that is in an update or a session of its
\* own: a client whose sessions never met with one of those saves the right file
\* or none, whoever else downloads from that peer and whatever old requests it
\* has in its socket.
IntactUnlessOverlapped ==
  \A c \in Clients :
    CanArrive(c) /\ ~overlapped[c] => saved[c] \in {NotSaved, Wanted[c]}

\* Clients that wait for each other, for themselves or for the tracker do not do
\* so for ever.
SessionsEnd == \A c \in Listening : (pc[c] # "select") ~> (pc[c] = "select")

\* The requests that pile up behind a session are all served in the end, those
\* whose senders are gone included.
RequestsServed == \A c \in Listening : inbox[c] # << >> ~> inbox[c] = << >>

--------------------------------------------------------------------------------
(***************************************************************************)
(* Invariants that the proofs of module SwarmProofs carry through.         *)
(***************************************************************************)

\* A request comes from a session that was begun, and as long as that session
\* lasts it is in the queue of the session's peer.
RequestsSound ==
  \A p \in Clients : \A i \in DOMAIN inbox[p] :
    LET r == inbox[p][i]
    IN  r.session <= sessions[r.from] /\ (IsOpen(r) => download_port[r.from] = p)

\* There are answers only for a session that lasts, and each says twice how long
\* the file is.
AnswersSound ==
  \A c \in Clients :
    /\ ~InSession(c) => replies[c] = << >>
    /\ \A i \in DOMAIN replies[c] :
         /\ replies[c][i].num_records \in Nat
         /\ replies[c][i].filesize = replies[c][i].num_records
         /\ replies[c][i].buf[1] \in Buf

\* An update is begun when the record counter allows it, and waits for nothing
\* that could change the counter.
UpdateIsDue ==
  \A c \in Clients : pc[c] = "update" => num_records_downloaded[c] % InterestPeriod = 0

\* While a session has met with no update or session of its peer's, its peer is
\* in select.
PeerIsPrompt ==
  \A c \in Clients :
    InSession(c) =>
      /\ download_port[c] \in Neighbors[c]
      /\ ~overlapped[c] => pc[download_port[c]] = "select"

\* What module Transfer shows of a client with prompt peers.
PromptInvs == \A c \in Clients : CanArrive(c) /\ ~overlapped[c] => T(c)!PromptInv

================================================================================
