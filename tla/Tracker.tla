-------------------------------- MODULE Tracker --------------------------------
(***************************************************************************)
(* The tracker process and the group updates of the clients.               *)
(*                                                                         *)
(* A client that is due opens a fresh UDP socket, sends GROUP_SHOW_INTEREST *)
(* and waits up to a second for GROUP_ASSIGN; the tracker takes one        *)
(* datagram at a time, updates its table and answers from it.  Datagrams   *)
(* may be overtaken by the timeout, arrive in any order, or be lost.  The  *)
(* client never closes the socket, so answers to updates that timed out    *)
(* stay in sockets that nobody reads, and every update costs a descriptor; *)
(* the update that takes the last one leaves none for the log file, and    *)
(* log_entry writes through the null FILE that fopen returned.             *)
(***************************************************************************)
EXTENDS GroupAssign

CONSTANTS
  Task,        \* Task[n]: taskname[0] of client n, the file it downloads
  Share,       \* the clients with task_share = 1
  Start,       \* Start[n]: task_start_time of client n, in ticks of its timer
  FdLimit,     \* descriptors a client can still open when its listener starts
  Lossy        \* whether datagrams may be lost

ASSUME TrackerAssumption ==
  /\ Task \in [Nodes -> Files]
  /\ Share \subseteq Nodes
  /\ Start \in [Nodes -> Nat]
  /\ FdLimit \in Nat \ {0}
  /\ Lossy \in BOOLEAN

VARIABLES
  \* the tracker
  group_assign_list,  \* the table of groups
  node_port,          \* clients[n].node_port, the port last heard from n
  \* the clients
  pc,                 \* "idle" in select, "waiting" in recvfrom, "downloading",
                      \* "silent" (no update is ever sent again), or "dead"
  elapsed_time,       \* ticks counted, up to Start[n]: later ones are never read
  sockets,            \* sockets opened for updates; the last one is in use
  view,               \* the ga of client_client_comms: what the last update
                      \* returned, until the session it led to is over
  \* datagrams on their way
  requests,
  replies,            \* those in the sockets of the clients
  \* history: read by properties only
  listed              \* whom the table listed for its file, itself left out,
                      \* when a client sent its last request

trackerVars == <<group_assign_list, node_port>>
clientVars  == <<pc, elapsed_time, sockets, view, listed>>
vars        == <<trackerVars, clientVars, requests, replies>>

GroupReq == [node_id : Nodes, type : {GROUP_REQ_NO_SHARE, GROUP_REQ_SHARE},
             filename : Files, client_port : Nodes, sock : Nat]
Reply    == [node_id : Nodes, sock : Nat, group : Group]
View     == [filename : Files \cup {NoFile}, neighbor_port : Seq(Port)]

\* An update that times out deserializes a buffer of zeros.
NoAnswer == [filename |-> NoFile, neighbor_port |-> << >>]

Init ==
  /\ group_assign_list = [i \in Slots |-> EmptyGroup]
  /\ node_port = [n \in Nodes |-> NoPort]
  /\ pc = [n \in Nodes |-> "idle"]
  /\ elapsed_time = [n \in Nodes |-> 0]
  /\ sockets = [n \in Nodes |-> 0]
  /\ view = [n \in Nodes |-> NoAnswer]
  /\ requests = {}
  /\ replies = {}
  /\ listed = [n \in Nodes |-> {}]

--------------------------------------------------------------------------------
(***************************************************************************)
(* Clients.                                                                *)
(***************************************************************************)

\* The timer fires before the start time: nothing but the tick is counted.
EarlyTick(n) ==
  /\ pc[n] = "idle"
  /\ elapsed_time[n] < Start[n]
  /\ elapsed_time' = [elapsed_time EXCEPT ![n] = @ + 1]
  /\ UNCHANGED <<trackerVars, pc, sockets, view, listed, requests, replies>>

\* Mutation: the share flag is compared with the wrong constant.
ShowInterestOf_ShareInverted(n) ==
  [node_id |-> n,
   type |-> IF n \in Share THEN GROUP_REQ_NO_SHARE ELSE GROUP_REQ_SHARE,
   filename |-> Task[n], client_port |-> n, sock |-> sockets[n] + 1]

ShowInterestOf(n) ==
  [node_id |-> n,
   type |-> IF n \in Share THEN GROUP_REQ_SHARE ELSE GROUP_REQ_NO_SHARE,
   filename |-> Task[n], client_port |-> n, sock |-> sockets[n] + 1]

\* The clients other than n that the table lists for its file.
OthersListed(n) ==
  {m \in Nodes \ {n} : \E i \in Slots : /\ group_assign_list[i].filename = Task[n]
                                        /\ IsListed(group_assign_list[i], m)}

ShowInterest(n) ==
  /\ pc[n] = "idle"
  /\ elapsed_time[n] >= Start[n]
  /\ requests' = requests \cup {ShowInterestOf(n)}
  /\ sockets' = [sockets EXCEPT ![n] = @ + 1]
  /\ pc' = [pc EXCEPT ![n] = IF sockets[n] + 1 < FdLimit THEN "waiting" ELSE "dead"]
  /\ listed' = [listed EXCEPT ![n] = OthersListed(n)]
  /\ UNCHANGED <<trackerVars, elapsed_time, view, replies>>

\* Mutation: one socket is kept for all updates, so that none is leaked.
Awaits_OneSocket(n, r) == r.node_id = n

\* The answer is in the socket that the update in progress has opened.
Awaits(n, r) == r.node_id = n /\ r.sock = sockets[n]

\* The junk port is whatever the stack held, possibly a port in use.
ReceiveAssign(n) ==
  /\ pc[n] = "waiting"
  /\ \E r \in replies, junk \in Port :
       /\ Awaits(n, r)
       /\ view' = [view EXCEPT ![n] = DeserializeGroupAssign(r.group, n, junk)]
       /\ replies' = replies \ {r}
  /\ pc' = [pc EXCEPT ![n] = IF view'[n].neighbor_port = << >> THEN "idle" ELSE "downloading"]
  /\ UNCHANGED <<trackerVars, elapsed_time, sockets, listed, requests>>

\* recvfrom gives up; its result is not looked at.
AssignTimeout(n) ==
  /\ pc[n] = "waiting"
  /\ \A r \in replies : ~Awaits(n, r)
  /\ view' = [view EXCEPT ![n] = NoAnswer]
  /\ pc' = [pc EXCEPT ![n] = "idle"]
  /\ UNCHANGED <<trackerVars, elapsed_time, sockets, listed, requests, replies>>

\* The session with the chosen neighbor (module Transfer) ends.  If it leaves
\* the record counter off a multiple of 8, no update is ever sent again; if it
\* completes the file while its own socket holds the last descriptor, the
\* output file cannot be opened and fwrite is handed a null FILE.
EndDownload(n) ==
  /\ pc[n] = "downloading"
  /\ \E next \in {"idle", "silent", "dead"} :
       /\ next = "dead" => sockets[n] + 1 >= FdLimit
       /\ pc' = [pc EXCEPT ![n] = next]
  /\ view' = [view EXCEPT ![n] = NoAnswer]
  /\ UNCHANGED <<trackerVars, elapsed_time, sockets, listed, requests, replies>>

--------------------------------------------------------------------------------
(***************************************************************************)
(* The tracker.  It answers to the socket that the request came from,      *)
(* where the answer arrives unless it is lost; the sockets of a client     *)
(* that died are closed.                                                   *)
(***************************************************************************)
\* Mutation: the answer is taken from the table as it was before the update.
Answer_BeforeUpdate(gr) ==
  [node_id |-> gr.node_id, sock |-> gr.sock,
   group |-> group_assign_list[FindGroupAssign(group_assign_list, gr)]]

Answer(gr) ==
  LET ga == UpdateGroupAssign(group_assign_list, gr)
  IN  [node_id |-> gr.node_id, sock |-> gr.sock, group |-> ga[FindGroupAssign(ga, gr)]]

HandleRequest(gr) ==
  /\ gr \in requests
  /\ requests' = requests \ {gr}
  /\ node_port' = [node_port EXCEPT ![gr.node_id] = gr.client_port]
  /\ group_assign_list' = UpdateGroupAssign(group_assign_list, gr)
  /\ \/ pc[gr.node_id] # "dead" /\ replies' = replies \cup {Answer(gr)}
     \/ (pc[gr.node_id] = "dead" \/ Lossy) /\ UNCHANGED replies
  /\ UNCHANGED clientVars

\* A request is lost.
Lose ==
  /\ Lossy
  /\ \E gr \in requests : requests' = requests \ {gr}
  /\ UNCHANGED <<trackerVars, clientVars, replies>>

TrackerStep == \E gr \in requests : HandleRequest(gr)

Next ==
  \/ \E n \in Nodes : \/ EarlyTick(n)
                      \/ ShowInterest(n)
                      \/ ReceiveAssign(n)
                      \/ AssignTimeout(n)
                      \/ EndDownload(n)
  \/ TrackerStep
  \/ Lose

\* The tracker's select loop serves a datagram that has arrived.  A client's
\* timer goes on firing, recvfrom returns after a second at the latest, and a
\* session is bounded by its 800 attempts.
Fairness ==
  /\ WF_vars(TrackerStep)
  /\ \A n \in Nodes : /\ WF_vars(EarlyTick(n) \/ ShowInterest(n))
                      /\ WF_vars(ReceiveAssign(n) \/ AssignTimeout(n))
                      /\ WF_vars(EndDownload(n))

Spec     == Init /\ [][Next]_vars
FairSpec == Spec /\ Fairness

--------------------------------------------------------------------------------
(***************************************************************************)
(* Properties.                                                             *)
(***************************************************************************)

\* Type invariant: table, clients and datagrams stay within the values that
\* struct group_assign, struct group_show_interest and the client can hold.
TypeOK ==
  /\ group_assign_list \in [Slots -> Group]
  /\ node_port \in [Nodes -> Port]
  /\ pc \in [Nodes -> {"idle", "waiting", "downloading", "silent", "dead"}]
  /\ elapsed_time \in [Nodes -> Nat]
  /\ sockets \in [Nodes -> Nat]
  /\ view \in [Nodes -> View]
  /\ listed \in [Nodes -> SUBSET Nodes]
  /\ requests \subseteq GroupReq
  /\ replies \subseteq Reply

\* Whoever the tracker lists was configured to share the file it is listed
\* for, has itself asked to be listed, and is listed under its own port, no
\* matter which requests were lost, late or overtaken (update_group_assign).
RegistrySound ==
  \A i \in Slots : \A j \in DOMAIN group_assign_list[i].neighbors :
    LET nb == group_assign_list[i].neighbors[j]
    IN  /\ nb.id \in Share
        /\ Task[nb.id] = group_assign_list[i].filename
        /\ nb.port = nb.id
        /\ sockets[nb.id] > 0

\* A client asks again and again, and late duplicates of a request meet its
\* successors, yet no file gets two groups and no client two entries in one:
\* this is what keeps num_neighbors within the MAX_CLIENTS entries of
\* neighbor_id, which update_group_assign never checks.
TableWellFormed ==
  /\ \A i, k \in Slots :
       group_assign_list[i].filename = group_assign_list[k].filename
         => i = k \/ group_assign_list[i] = EmptyGroup
  /\ \A i \in Slots : LET nbs == group_assign_list[i].neighbors
                      IN  \A j, k \in DOMAIN nbs : nbs[j].id = nbs[k].id => j = k

\* The tracker never forgets and never reorders: a group keeps its file, its
\* entries and their positions, the positions clients hold on to.
TableOnlyGrows ==
  [][\A i \in Slots :
       /\ group_assign_list[i].num_files = 1
            => group_assign_list'[i].filename = group_assign_list[i].filename
       /\ \A j \in DOMAIN group_assign_list[i].neighbors :
            /\ j \in DOMAIN group_assign_list'[i].neighbors
            /\ group_assign_list'[i].neighbors[j] = group_assign_list[i].neighbors[j]]_vars

\* However old the answer a client works from, the ports in it are still those
\* of the clients listed for that file, with the one exception of the client's
\* own position, which holds junk.
ViewsAgreeWithTable ==
  \A n \in Nodes : \A j \in DOMAIN view[n].neighbor_port :
    \E i \in Slots :
      LET nbs == group_assign_list[i].neighbors
      IN  /\ group_assign_list[i].filename = view[n].filename
          /\ j \in DOMAIN nbs
          /\ nbs[j].id = n \/ nbs[j].port = view[n].neighbor_port[j]

\* A client that tries again after a timeout is never set back by the answer it
\* has given up: whoever was listed for its file when an update began is in the
\* answer that this update may take, and the list of ports it works from has
\* room for them all.  What keeps late answers out is that the update opens a
\* socket of its own (client_tracker_comms).
AnswersAreCurrent ==
  \A n \in Nodes :
    /\ \A r \in replies :
         r.node_id = n /\ r.sock = sockets[n] =>
           \A m \in listed[n] : IsListed(r.group, m)
    /\ pc[n] \in {"idle", "downloading", "silent"} /\ view[n].filename # NoFile =>
         Cardinality(listed[n]) <= Len(view[n].neighbor_port)

\* A sharing client that gets an answer finds itself listed in it, unless all
\* slots are taken by other files: the table is updated before it is read.
SharerIsAnswered ==
  \A r \in replies :
    r.node_id \in Share =>
      \/ IsListed(r.group, r.node_id)
      \/ \A i \in Slots : group_assign_list[i].filename \notin {NoFile, Task[r.node_id]}

\* Without losses the tracker lists every sharing client for its file in the
\* end, whatever the timing of ticks and timeouts, unless all slots are taken
\* by other files.
InterestIsRecorded ==
  \A n \in Share :
    <>(\/ \E i \in Slots : /\ group_assign_list[i].filename = Task[n]
                           /\ IsListed(group_assign_list[i], n)
       \/ \A i \in Slots : group_assign_list[i].filename \notin {NoFile, Task[n]})

--------------------------------------------------------------------------------
(***************************************************************************)
(* Invariants that the proofs of module TrackerProofs carry through.       *)
(***************************************************************************)

\* An unused slot is as init_group_assign left it.
UnusedSlots ==
  \A i \in Slots :
    /\ group_assign_list[i].num_files = 0 => group_assign_list[i] = EmptyGroup
    /\ group_assign_list[i].num_files = 1 => group_assign_list[i].filename \in Files

\* A request says what its sender is configured to say, from a socket the
\* sender has opened.
RequestsSound ==
  \A gr \in requests :
    LET n == gr.node_id
    IN  /\ gr.type = IF n \in Share THEN GROUP_REQ_SHARE ELSE GROUP_REQ_NO_SHARE
        /\ gr.filename = Task[n]
        /\ gr.client_port = n
        /\ gr.sock \in 1 .. sockets[n]

\* No answer is in a socket that is not open yet.
RepliesSound == \A r \in replies : r.sock <= sockets[r.node_id]

\* Whoever was listed when an update began still is.
ListedStay ==
  \A n \in Nodes : \A m \in listed[n] :
    /\ m # n
    /\ \E i \in Slots : /\ group_assign_list[i].filename = Task[n]
                         /\ IsListed(group_assign_list[i], m)

\* An answer agrees with the table, now and later, entry by entry.
RepliesAgree ==
  \A r \in replies : \A j \in DOMAIN r.group.neighbors :
    \E i \in Slots : LET nbs == group_assign_list[i].neighbors
                    IN  /\ group_assign_list[i].filename = r.group.filename
                        /\ j \in DOMAIN nbs
                        /\ nbs[j] = r.group.neighbors[j]

================================================================================
