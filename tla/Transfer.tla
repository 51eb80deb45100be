-------------------------------- MODULE Transfer --------------------------------
(***************************************************************************)
(* A client downloads its file, record by record, from one neighbor at a   *)
(* time: client_client_comms of client.c on one side, the request branch   *)
(* of client_listener on the other.                                        *)
(*                                                                         *)
(* A tick starts a session if the record counter allows a group update and *)
(* the update named a neighbor (module Tracker).  The session sends one    *)
(* request at a time from a socket of its own, waits a second for an       *)
(* answer, and ends when the file is complete or after MaxAttempts         *)
(* requests.  What survives a session, in static variables, is the record  *)
(* counter and the record count of the file; the records do not survive,   *)
(* they are in a local buffer.                                             *)
(*                                                                         *)
(* A neighbor is single threaded: while it waits in a session or a group   *)
(* update of its own it answers nobody, and the requests queued at it are  *)
(* answered when it is back in select, too late for those that asked.      *)
(*                                                                         *)
(* The file of a neighbor has any length.  It is read into a buffer of     *)
(* MaxRecords records, and nobody looks whether it fits: a neighbor that   *)
(* dies of a longer one is not in Listening, one that survives serves what *)
(* lies behind the buffer's end.                                           *)
(***************************************************************************)
EXTENDS Naturals, Sequences

CONSTANTS
  Peers,           \* ports that an update may name
  Listening,       \* those on which a client listens
  Data,            \* contents of a record
  Content,         \* Content[p]: the records in the memory of peer p
  Wanted,          \* the file the task asks for
  Garbage,         \* what a variable holds that was never assigned
  NotSaved,        \* the output file was not written yet
  MaxRecords,      \* num_records_max and FILE_BUF_RECORDS (625)
  CountRange,      \* values of a record count in a datagram, two bytes (65536)
  MaxAttempts,     \* max_downloads_session (800)
  InterestPeriod,  \* a group update is due every so many records (8)
  LateAnswers,     \* whether a peer may take longer than the receive timeout
  MaxLoss          \* bound: datagrams lost in all

ASSUME TransferAssumption ==
  /\ Listening \subseteq Peers
  /\ Content \in [Peers -> Seq(Data)]
  /\ Wanted \in Seq(Data)
  /\ Garbage \notin Data \cup Nat
  /\ NotSaved \notin Seq(Data \cup {Garbage})
  /\ MaxRecords \in Nat \ {0}
  /\ CountRange \in Nat /\ MaxRecords < CountRange
  /\ MaxAttempts \in Nat \ {0}
  /\ InterestPeriod \in Nat \ {0}
  /\ LateAnswers \in BOOLEAN
  /\ MaxLoss \in Nat

VARIABLES
  pc,                         \* "select", "loop" (head of the while) or "recv"
  num_records_downloaded,     \* static
  num_records_file,           \* static
  current_records_downloaded, \* requests sent in this session
  download_port,              \* the peer of this session
  file_buff,                  \* the records stored in this session
  filesize,                   \* downloaded_fr.filesize, counted in records
  requests,                   \* record numbers queued at the peer
  replies,                    \* answers queued in the socket of the session
  saved,                      \* the output file
  losses

session == <<current_records_downloaded, download_port, file_buff, filesize>>
vars    == <<pc, num_records_downloaded, num_records_file, session,
             requests, replies, saved, losses>>

RecordNumber == 0 .. MaxRecords - 1
Buf          == Data \cup {Garbage}
Reply        == [num_records : 0 .. CountRange - 1, buf : Buf]

Init ==
  /\ pc = "select"
  /\ num_records_downloaded = 0
  /\ num_records_file = MaxRecords
  /\ current_records_downloaded = 0
  /\ download_port \in Peers
  /\ file_buff = [i \in RecordNumber |-> Garbage]
  /\ filesize = Garbage
  /\ requests = << >>
  /\ replies = << >>
  /\ saved = NotSaved
  /\ losses = 0

--------------------------------------------------------------------------------
(***************************************************************************)
(* The downloading client.                                                 *)
(***************************************************************************)

\* Mutation: the update is not tied to the record counter.
BeginSession_Always(p) ==
  /\ pc = "select"
  /\ pc' = "loop"
  /\ download_port' = p
  /\ current_records_downloaded' = 0
  /\ file_buff' = [i \in RecordNumber |-> Garbage]
  /\ filesize' = Garbage
  /\ requests' = << >>
  /\ replies' = << >>
  /\ UNCHANGED <<num_records_downloaded, num_records_file, saved, losses>>

\* A tick whose update named p, and a fresh socket.
BeginSession(p) ==
  /\ pc = "select"
  /\ num_records_downloaded % InterestPeriod = 0
  /\ pc' = "loop"
  /\ download_port' = p
  /\ current_records_downloaded' = 0
  /\ file_buff' = [i \in RecordNumber |-> Garbage]
  /\ filesize' = Garbage
  /\ requests' = << >>
  /\ replies' = << >>
  /\ UNCHANGED <<num_records_downloaded, num_records_file, saved, losses>>

\* Mutation: the attempts of a session are not bounded.
IsWanting_Unbounded ==
  /\ num_records_downloaded < MaxRecords
  /\ num_records_downloaded < num_records_file

\* Mutation: the last record is left out.
IsWanting_StopsEarly ==
  /\ num_records_downloaded < MaxRecords
  /\ num_records_downloaded + 1 < num_records_file
  /\ current_records_downloaded < MaxAttempts

IsWanting ==
  /\ num_records_downloaded < MaxRecords
  /\ num_records_downloaded < num_records_file
  /\ current_records_downloaded < MaxAttempts

\* Mutation: the record after the one that is stored is asked for.
RequestedRecord_Next == num_records_downloaded + 1

RequestedRecord == num_records_downloaded

\* Mutation: attempts are not counted.
SendRequest_NotCounted ==
  /\ pc = "loop"
  /\ IsWanting
  /\ pc' = "recv"
  /\ IF download_port \in Listening THEN requests' = Append(requests, RequestedRecord)
                                    ELSE UNCHANGED requests
  /\ UNCHANGED <<num_records_downloaded, num_records_file, session, replies, saved, losses>>

\* A loss of the request or of its answer look the same from here; a port on
\* which nobody listens swallows everything.
SendRequest ==
  /\ pc = "loop"
  /\ IsWanting
  /\ pc' = "recv"
  /\ current_records_downloaded' = current_records_downloaded + 1
  /\ \/ /\ download_port \in Listening
        /\ requests' = Append(requests, RequestedRecord)
        /\ UNCHANGED losses
     \/ /\ download_port \notin Listening
        /\ UNCHANGED <<requests, losses>>
     \/ /\ losses < MaxLoss
        /\ losses' = losses + 1
        /\ UNCHANGED requests
  /\ UNCHANGED <<num_records_downloaded, num_records_file, download_port, file_buff,
                 filesize, replies, saved>>

\* The next datagram in the socket is taken for the record last asked for:
\* nobody compares the record number it carries.
RecvReply ==
  /\ pc = "recv"
  /\ replies # << >>
  /\ pc' = "loop"
  /\ replies' = Tail(replies)
  /\ num_records_file' = Head(replies).num_records
  /\ filesize' = Head(replies).num_records
  /\ file_buff' = [file_buff EXCEPT ![num_records_downloaded] = Head(replies).buf]
  /\ num_records_downloaded' = num_records_downloaded + 1
  /\ UNCHANGED <<current_records_downloaded, download_port, requests, saved, losses>>

\* A prompt peer answers within the second; the timeout then means a loss.
RecvTimeout ==
  /\ pc = "recv"
  /\ replies = << >>
  /\ requests = << >> \/ LateAnswers
  /\ pc' = "loop"
  /\ UNCHANGED <<num_records_downloaded, num_records_file, session, requests,
                 replies, saved, losses>>

\* fwrite takes as many bytes as downloaded_fr.filesize says; without an answer
\* in this session that variable was never assigned.  (In bytes the size of a
\* longer file leaves two bytes before its record count does, but it is used only
\* when the count is the number of records stored.)
Written == {[i \in 1 .. k |-> file_buff[i - 1]] :
              k \in IF filesize = Garbage THEN 0 .. MaxRecords ELSE {filesize}}

\* Mutation: the file is written whether or not it is complete.
EndSession_WritesAlways ==
  /\ pc = "loop"
  /\ ~IsWanting
  /\ pc' = "select"
  /\ saved' \in Written
  /\ requests' = << >>
  /\ replies' = << >>
  /\ UNCHANGED <<num_records_downloaded, num_records_file, session, losses>>

\* The socket is closed: what is still on its way to it is lost, and a request
\* that the peer still has queued will be answered to nobody.
EndSession ==
  /\ pc = "loop"
  /\ ~IsWanting
  /\ pc' = "select"
  /\ IF num_records_downloaded = num_records_file THEN saved' \in Written
                                                  ELSE UNCHANGED saved
  /\ requests' = << >>
  /\ replies' = << >>
  /\ UNCHANGED <<num_records_downloaded, num_records_file, session, losses>>

--------------------------------------------------------------------------------
(***************************************************************************)
(* The peer: it ignores the name of the file it is asked for and sends the *)
(* record of the one file it has, or what lies behind it in the buffer.    *)
(***************************************************************************)

Record(p, i) == IF i < Len(Content[p]) THEN Content[p][i + 1] ELSE Garbage

RecordCount(p) == Len(Content[p]) % CountRange

Serve ==
  /\ pc \in {"loop", "recv"}
  /\ requests # << >>
  /\ requests' = Tail(requests)
  /\ replies' = Append(replies, [num_records |-> RecordCount(download_port),
                                 buf |-> Record(download_port, Head(requests))])
  /\ UNCHANGED <<pc, num_records_downloaded, num_records_file, session, saved, losses>>

Next ==
  \/ \E p \in Peers : BeginSession(p)
  \/ SendRequest
  \/ RecvReply
  \/ RecvTimeout
  \/ EndSession
  \/ Serve

\* Ticks go on, recv returns, the loop runs, and a peer comes back to select.
Fairness ==
  /\ WF_vars(\E p \in Peers : BeginSession(p))
  /\ WF_vars(SendRequest \/ RecvReply \/ RecvTimeout \/ EndSession)
  /\ WF_vars(Serve)

Spec     == Init /\ [][Next]_vars
FairSpec == Spec /\ Fairness

--------------------------------------------------------------------------------
(***************************************************************************)
(* Properties.                                                             *)
(***************************************************************************)

\* Type invariant: every record number stays within file_buff, on both sides, and
\* the length that is written is the one that the records stored are counted
\* against, though the peer's file has any length.
TypeOK ==
  /\ pc \in {"select", "loop", "recv"}
  /\ num_records_downloaded \in 0 .. MaxRecords
  /\ pc = "recv" => num_records_downloaded < MaxRecords
  /\ num_records_file \in Nat
  /\ current_records_downloaded \in 0 .. MaxAttempts
  /\ download_port \in Peers
  /\ file_buff \in [RecordNumber -> Buf]
  /\ filesize \in {num_records_file, Garbage}
  /\ requests \in Seq(RecordNumber)
  /\ replies \in Seq(Reply)
  /\ saved \in Seq(Buf) \cup {NotSaved}
  /\ losses \in 0 .. MaxLoss

\* What the output file of a task is for: when it is there, it is the file that
\* was asked for (fwrite in client_client_comms).
SavedIntact == saved \in {NotSaved, Wanted}

\* A file that was written is not written again (the sessions that ticks would
\* start after the download are held off by the record counter).
SavedIsFinal == [][saved = NotSaved]_saved

\* However late answers come and whatever is lost in between, what is stored as
\* record i is record i of the session's peer or an earlier one, never a later
\* one: answers lag, they do not run ahead.
AnswersOnlyLag ==
  pc \in {"loop", "recv"} =>
    \A i \in RecordNumber :
      \/ file_buff[i] = Garbage
      \/ \E k \in 0 .. i : file_buff[i] = Record(download_port, k)

\* A session does not keep the client from its timer and from serving others
\* for ever: the attempts of a session are bounded even if nothing is answered.
SessionsEnd == (pc # "select") ~> (pc = "select")

\* The promise of a download task, in full: module Delivery.
D == INSTANCE Delivery WITH file <- saved
Delivers == D!Spec

\* The promise includes that the file is saved some day.  One session with a
\* peer that listens is enough, whatever the sessions before it met.
EventuallySaved == <>(saved # NotSaved \/ [](download_port \notin Listening))

--------------------------------------------------------------------------------
(***************************************************************************)
(* The conditions under which a download works, and the invariants that    *)
(* the proofs of module TransferProofs carry through.                      *)
(***************************************************************************)

\* Everybody that answers has the file that is wanted; it fits in file_buff; its
\* length is no multiple of the period; a session has attempts for every record
\* and every loss.
AllHoldIt     == \A p \in Listening : Content[p] = Wanted
ItFits        == Len(Wanted) <= MaxRecords
OddLength     == Len(Wanted) % InterestPeriod # 0
AttemptsToSpare == Len(Wanted) + MaxLoss <= MaxAttempts

\* With prompt peers: between sessions either nothing has happened yet or the
\* file is saved; in a session the records stored are a prefix of the file, and
\* at most the record just asked for is on its way.
PromptInv ==
  LET N == Len(Wanted)
      nd == num_records_downloaded
  IN
  /\ pc = "select" => \/ saved = NotSaved /\ nd = 0 /\ num_records_file = MaxRecords
                      \/ saved = Wanted /\ nd = N
  /\ pc # "select" =>
       /\ saved = NotSaved
       /\ nd <= N
       /\ nd = 0 => num_records_file = MaxRecords /\ filesize = Garbage
       /\ nd > 0 => /\ num_records_file = N
                    /\ filesize = N
                    /\ download_port \in Listening
       /\ \A i \in 0 .. nd - 1 : file_buff[i] = Wanted[i + 1]
       /\ download_port \in Listening =>
            current_records_downloaded <= nd + losses +
              (IF requests # << >> \/ replies # << >> THEN 1 ELSE 0)
       /\ requests # << >> \/ replies # << >> => pc = "recv" /\ download_port \in Listening
       /\ requests # << >> => requests = <<nd>> /\ replies = << >>
       /\ replies # << >> => replies = <<[num_records |-> N, buf |-> Record(download_port, nd)]>>
  /\ pc = "recv" => nd < N

\* With late peers too: once an answer was stored the record count is the one
\* of the file, and the file is written only when all of it was counted.
CountInv ==
  LET N == Len(Wanted)
      nd == num_records_downloaded
  IN
  /\ nd <= N
  /\ pc = "recv" => nd < N
  /\ num_records_file = IF nd = 0 THEN MaxRecords ELSE N
  /\ requests # << >> \/ replies # << >> => download_port \in Listening
  /\ \A i \in DOMAIN replies : replies[i].num_records = N
  /\ saved # NotSaved => pc = "select" /\ nd = N

\* Requests on their way are for the current record or an earlier one, and so
\* are the answers.
LagInv ==
  pc # "select" =>
    /\ \A i \in DOMAIN requests : requests[i] <= num_records_downloaded
    /\ \A i \in DOMAIN replies :
         \E k \in 0 .. num_records_downloaded : replies[i].buf = Record(download_port, k)

================================================================================
