------------------------------ MODULE GroupAssign ------------------------------
(***************************************************************************)
(* The table in which the tracker keeps one group of sharing clients per   *)
(* file, and what the two ends make of a GROUP_ASSIGN datagram.  These are *)
(* the pure functions of tracker.c and utility.c; the processes that call  *)
(* them are in module Tracker.                                             *)
(*                                                                         *)
(* Every client runs on one host, so the address of a client is its UDP    *)
(* port, and a port is named by the node whose listener is bound to it.    *)
(***************************************************************************)
EXTENDS Naturals, Sequences, FiniteSets

CONSTANTS
  Nodes,       \* ids of the clients that were configured with a task
  Files,       \* file names
  NoFile,      \* the empty name that an unused slot of the table carries
  NoPort,      \* stands for every port on which no client listens
  MaxFiles     \* MAX_FILES, the number of slots of the table

ASSUME GroupAssignAssumption ==
  /\ IsFiniteSet(Nodes)
  /\ NoFile \notin Files
  /\ NoPort \notin Nodes
  /\ MaxFiles \in Nat \ {0}

GROUP_REQ_NO_SHARE == 1
GROUP_REQ_SHARE    == 2

Slots    == 1 .. MaxFiles
Port     == Nodes \cup {NoPort}
Neighbor == [id : Nodes, port : Port]
Group    == [filename  : Files \cup {NoFile},
             num_files : {0, 1},
             neighbors : Seq(Neighbor)]

--------------------------------------------------------------------------------
(***************************************************************************)
(* Filling the table.                                                      *)
(***************************************************************************)

\* Mutation: num_files is not reset and starts with what the stack held.
EmptyGroup_NumFilesNotReset ==
  [filename |-> NoFile, num_files |-> 7, neighbors |-> << >>]

EmptyGroup == [filename |-> NoFile, num_files |-> 0, neighbors |-> << >>]

IsListed(g, n) == \E j \in DOMAIN g.neighbors : g.neighbors[j].id = n

NeighborOf(gr) == [id |-> gr.node_id, port |-> gr.client_port]

\* Mutation: the scan for the node is forgotten.
AddNeighbor_NoScan(g, gr) ==
  [g EXCEPT !.neighbors = Append(@, NeighborOf(gr))]

\* Mutation: the new neighbor is put in front.
AddNeighbor_InFront(g, gr) ==
  IF IsListed(g, gr.node_id)
    THEN g
    ELSE [g EXCEPT !.neighbors = <<NeighborOf(gr)>> \o @]

AddNeighbor(g, gr) ==
  IF IsListed(g, gr.node_id)
    THEN g
    ELSE [g EXCEPT !.neighbors = Append(@, NeighborOf(gr))]

NewGroup(gr) ==
  [filename |-> gr.filename, num_files |-> 1, neighbors |-> <<NeighborOf(gr)>>]

\* Mutation: the comparison is inverted, as with a bare strcmp(...).
Known_Inverted(ga, gr) == {i \in Slots : ga[i].filename # gr.filename}

\* The slots whose file is the one asked for: the strcmp of both loops.
Known(ga, gr) == {i \in Slots : ga[i].filename = gr.filename}

IsFirstFree(ga, i) ==
  ga[i].num_files = 0 /\ \A k \in Slots : ga[k].num_files = 0 => i <= k

\* Mutation: with the table full, the file in the first slot is replaced.
UpdateGroupAssign_Evicts(ga, gr) ==
  IF gr.type = GROUP_REQ_NO_SHARE
    THEN ga
    ELSE [i \in Slots |->
            IF i \in Known(ga, gr) THEN AddNeighbor(ga[i], gr)
            ELSE IF Known(ga, gr) = {} /\ i = 1 THEN NewGroup(gr) ELSE ga[i]]

\* A client that does not share changes nothing.  Otherwise the client joins
\* the group of its file; a file without a group takes the first unused slot;
\* and when there is none the request leaves no trace.
UpdateGroupAssign(ga, gr) ==
  IF gr.type = GROUP_REQ_NO_SHARE
    THEN ga
    ELSE [i \in Slots |->
            IF i \in Known(ga, gr) THEN AddNeighbor(ga[i], gr)
            ELSE IF Known(ga, gr) = {} /\ IsFirstFree(ga, i) THEN NewGroup(gr) ELSE ga[i]]

--------------------------------------------------------------------------------
(***************************************************************************)
(* Answering from the table.                                               *)
(***************************************************************************)

\* The last slot with the file asked for, and the first slot when no slot has it.
FindGroupAssign(ga, gr) ==
  IF Known(ga, gr) = {}
    THEN 1
    ELSE CHOOSE i \in Known(ga, gr) : \A k \in Known(ga, gr) : k <= i

\* The client drops its own entry and counts the others.  It compacts their
\* ids, but it stores a port at the position the entry has in the datagram:
\* the port at its own position is never assigned (junk), and the ports past
\* the count are out of reach.  Ids serve only the log, they are left out.
DeserializeGroupAssign(g, node_id, junk) ==
  LET others == {j \in DOMAIN g.neighbors : g.neighbors[j].id # node_id}
  IN  [filename |-> g.filename,
       neighbor_port |-> [j \in 1 .. Cardinality(others) |->
                            IF j \in others THEN g.neighbors[j].port ELSE junk]]

================================================================================
