----------------------------- MODULE TrackerProofs -----------------------------
(***************************************************************************)
(* Proofs about module Tracker, for every number of clients, files, slots  *)
(* and descriptors.                                                        *)
(***************************************************************************)
EXTENDS Tracker, SequenceTheorems, FiniteSetTheorems, WellFoundedInduction, TLAPS

TableInv == TypeOK /\ UnusedSlots /\ TableWellFormed

--------------------------------------------------------------------------------
(***************************************************************************)
(* Lemmas on the operators of module GroupAssign.                          *)
(***************************************************************************)

\* Entering a neighbor keeps what is there and adds at most one entry, of a
\* client that was not listed.
LEMMA AddNeighborProperties ==
  ASSUME NEW g \in Group, NEW gr \in GroupReq
  PROVE  LET h == AddNeighbor(g, gr)
         IN  /\ h \in Group
             /\ h.filename = g.filename /\ h.num_files = g.num_files
             /\ h.neighbors = g.neighbors \/ /\ ~IsListed(g, gr.node_id)
                                             /\ h.neighbors = Append(g.neighbors, NeighborOf(gr))
<1>1. NeighborOf(gr) \in Neighbor
  BY DEF NeighborOf, Neighbor, GroupReq, Port
<1>2. g.neighbors \in Seq(Neighbor)
  BY DEF Group
<1>3. Append(g.neighbors, NeighborOf(gr)) \in Seq(Neighbor)
  BY <1>1, <1>2, AppendProperties
<1>4. [g EXCEPT !.neighbors = Append(@, NeighborOf(gr))] \in Group
  BY <1>3 DEF Group
<1> QED
  BY <1>4 DEF AddNeighbor, Group

\* The first neighbor of a file makes a group.
LEMMA NewGroupType ==
  ASSUME NEW gr \in GroupReq
  PROVE  /\ NewGroup(gr) \in Group
         /\ NewGroup(gr).filename = gr.filename
         /\ NewGroup(gr).num_files = 1
         /\ NewGroup(gr).neighbors = <<NeighborOf(gr)>>
<1>1. NeighborOf(gr) \in Neighbor
  BY DEF NeighborOf, Neighbor, GroupReq, Port
<1>2. <<NeighborOf(gr)>> \in Seq(Neighbor)
  BY <1>1
<1> QED
  BY <1>2 DEF NewGroup, Group, GroupReq

\* The four things an update can do to a slot.
LEMMA UpdateOfSlot ==
  ASSUME NEW ga \in [Slots -> Group], NEW gr \in GroupReq, NEW i \in Slots
  PROVE  LET u == UpdateGroupAssign(ga, gr)
         IN  \/ u[i] = ga[i]
             \/ /\ gr.type # GROUP_REQ_NO_SHARE
                /\ ga[i].filename = gr.filename
                /\ u[i] = AddNeighbor(ga[i], gr)
             \/ /\ gr.type # GROUP_REQ_NO_SHARE
                /\ \A k \in Slots : ga[k].filename # gr.filename
                /\ IsFirstFree(ga, i)
                /\ u[i] = NewGroup(gr)
  BY DEF UpdateGroupAssign, Known

LEMMA UpdateType ==
  ASSUME NEW ga \in [Slots -> Group], NEW gr \in GroupReq
  PROVE  UpdateGroupAssign(ga, gr) \in [Slots -> Group]
<1>1. ASSUME NEW i \in Slots
      PROVE  UpdateGroupAssign(ga, gr)[i] \in Group
  BY UpdateOfSlot, AddNeighborProperties, NewGroupType
<1> QED
  BY <1>1 DEF UpdateGroupAssign

\* What a client makes of an answer is a list of ports.
LEMMA DeserializeType ==
  ASSUME NEW g \in Group, NEW n \in Nodes, NEW junk \in Port
  PROVE  DeserializeGroupAssign(g, n, junk) \in View
<1> DEFINE others == {j \in DOMAIN g.neighbors : g.neighbors[j].id # n}
<1>1. g.neighbors \in Seq(Neighbor) /\ g.filename \in Files \cup {NoFile}
  BY DEF Group
<1>2. Len(g.neighbors) \in Nat /\ DOMAIN g.neighbors = 1 .. Len(g.neighbors)
  BY <1>1, LenProperties
<1>3. IsFiniteSet(others) /\ Cardinality(others) \in Nat
  <2>1. IsFiniteSet(1 .. Len(g.neighbors))
    BY <1>2, FS_Interval
  <2>2. others \in SUBSET (1 .. Len(g.neighbors))
    BY <1>2
  <2>3. IsFiniteSet(others)
    BY <2>1, <2>2, FS_Subset
  <2> QED
    BY <2>3, FS_CardinalityType
<1>4. ASSUME NEW j \in others
      PROVE  g.neighbors[j].port \in Port
  <2>1. j \in 1 .. Len(g.neighbors)
    BY <1>2
  <2>2. g.neighbors[j] \in Neighbor
    BY <1>1, <2>1, ElementOfSeq
  <2> QED
    BY <2>2 DEF Neighbor
<1> DEFINE card == Cardinality(others)
           ports == [j \in 1 .. card |-> IF j \in others THEN g.neighbors[j].port ELSE junk]
<1>5. ports \in Seq(Port)
  <2>1. ports \in [1 .. card -> Port]
    <3> HIDE DEF others
    <3> QED
      BY <1>4
  <2>2. card \in Nat
    BY <1>3
  <2> HIDE DEF card, ports
  <2> QED
    BY <2>1, <2>2, SeqDef
<1>6. DeserializeGroupAssign(g, n, junk) = [filename |-> g.filename, neighbor_port |-> ports]
  BY DEF DeserializeGroupAssign
<1> QED
  <2> HIDE DEF ports
  <2> QED
    BY <1>1, <1>5, <1>6 DEF View

--------------------------------------------------------------------------------
(***************************************************************************)
(* The table.                                                              *)
(***************************************************************************)

\* An update keeps one group per file, one entry per client and group, and
\* leaves what it does not use as it was.
LEMMA UpdateKeepsTable ==
  ASSUME TypeOK, UnusedSlots, TableWellFormed, NEW gr \in GroupReq,
         NEW ga, ga = UpdateGroupAssign(group_assign_list, gr)
  PROVE  /\ ga \in [Slots -> Group]
         /\ \A i \in Slots : /\ ga[i].num_files = 0 => ga[i] = EmptyGroup
                             /\ ga[i].num_files = 1 => ga[i].filename \in Files
         /\ \A i, k \in Slots : ga[i].filename = ga[k].filename
                                  => i = k \/ ga[i] = EmptyGroup
         /\ \A i \in Slots : LET nbs == ga[i].neighbors
                             IN  \A j, k \in DOMAIN nbs : nbs[j].id = nbs[k].id => j = k
<1> DEFINE old == group_assign_list
<1>0. old \in [Slots -> Group] /\ gr.filename \in Files /\ NoFile \notin Files
  BY GroupAssignAssumption DEF TypeOK, GroupReq
<1>1. ga \in [Slots -> Group]
  BY <1>0, UpdateType
<1>2. ASSUME NEW i \in Slots
      PROVE  \/ ga[i] = old[i]
             \/ /\ old[i].filename = gr.filename
                /\ ga[i].filename = gr.filename
                /\ ga[i].num_files = old[i].num_files
                /\ ~IsListed(old[i], gr.node_id)
                /\ ga[i].neighbors = Append(old[i].neighbors, NeighborOf(gr))
             \/ /\ \A k \in Slots : old[k].filename # gr.filename
                /\ IsFirstFree(old, i)
                /\ ga[i].filename = gr.filename
                /\ ga[i].num_files = 1
                /\ ga[i].neighbors = <<NeighborOf(gr)>>
  <2>1. CASE ga[i] = old[i]
    BY <2>1
  <2>2. CASE /\ old[i].filename = gr.filename
             /\ ga[i] = AddNeighbor(old[i], gr)
    <3>1. old[i] \in Group
      BY <1>0
    <3>2. CASE IsListed(old[i], gr.node_id)
      BY <2>2, <3>2 DEF AddNeighbor
    <3>3. CASE ~IsListed(old[i], gr.node_id)
      BY <2>2, <3>1, <3>3, AddNeighborProperties DEF AddNeighbor, Group
    <3> QED
      BY <3>2, <3>3
  <2>3. CASE /\ \A k \in Slots : old[k].filename # gr.filename
             /\ IsFirstFree(old, i)
             /\ ga[i] = NewGroup(gr)
    BY <2>3, NewGroupType
  <2> QED
    BY <1>0, <2>1, <2>2, <2>3, UpdateOfSlot
<1>3. \A i \in Slots : old[i].num_files \in {0, 1}
  BY <1>0 DEF Group
<1>4. \A i \in Slots : /\ ga[i].num_files = 0 => ga[i] = EmptyGroup
                       /\ ga[i].num_files = 1 => ga[i].filename \in Files
  BY <1>0, <1>2, <1>3 DEF UnusedSlots, EmptyGroup
<1>5. ASSUME NEW i \in Slots, NEW k \in Slots, ga[i].filename = ga[k].filename, i # k
      PROVE  ga[i] = EmptyGroup
  <2>1. old[i].filename = old[k].filename => old[i] = EmptyGroup /\ old[k] = EmptyGroup
    BY <1>5 DEF TableWellFormed
  <2>2. IsFirstFree(old, i) /\ IsFirstFree(old, k) => i = k
    BY DEF IsFirstFree, Slots
  <2> QED
    BY <1>0, <1>2, <1>5, <2>1, <2>2 DEF EmptyGroup
<1>6. ASSUME NEW i \in Slots
      PROVE  LET nbs == ga[i].neighbors
             IN  \A j, k \in DOMAIN nbs : nbs[j].id = nbs[k].id => j = k
  <2>1. old[i].neighbors \in Seq(Neighbor) /\ NeighborOf(gr) \in Neighbor
    BY <1>0 DEF Group, NeighborOf, Neighbor, GroupReq, Port
  <2>2. CASE ga[i] = old[i]
    BY <2>2 DEF TableWellFormed
  <2>3. CASE /\ ~IsListed(old[i], gr.node_id)
             /\ ga[i].neighbors = Append(old[i].neighbors, NeighborOf(gr))
    <3> DEFINE s == old[i].neighbors
               t == ga[i].neighbors
    <3>1. /\ DOMAIN t = 1 .. Len(s) + 1 /\ DOMAIN s = 1 .. Len(s) /\ Len(s) \in Nat
          /\ \A j \in 1 .. Len(s) : t[j] = s[j]
          /\ t[Len(s) + 1] = NeighborOf(gr)
      BY <2>1, <2>3, AppendProperties, LenProperties
    <3>2. \A j \in DOMAIN s : s[j].id # gr.node_id
      BY <2>3 DEF IsListed
    <3>3. \A j, k \in DOMAIN s : s[j].id = s[k].id => j = k
      BY DEF TableWellFormed
    <3>4. NeighborOf(gr).id = gr.node_id
      BY DEF NeighborOf
    <3> HIDE DEF s, t
    <3>5. ASSUME NEW j \in DOMAIN t, NEW k \in DOMAIN t, t[j].id = t[k].id
          PROVE  j = k
      <4>1. CASE j \in DOMAIN s /\ k \in DOMAIN s
        BY <3>1, <3>3, <3>5, <4>1
      <4>2. CASE j \in DOMAIN s /\ k = Len(s) + 1
        BY <3>1, <3>2, <3>4, <3>5, <4>2
      <4>3. CASE j = Len(s) + 1 /\ k \in DOMAIN s
        BY <3>1, <3>2, <3>4, <3>5, <4>3
      <4> QED
        BY <3>1, <3>5, <4>1, <4>2, <4>3
    <3> QED
      BY <3>5 DEF t
  <2>4. CASE ga[i].neighbors = <<NeighborOf(gr)>>
    BY <2>4
  <2> QED
    BY <1>2, <2>2, <2>3, <2>4
<1> QED
  BY <1>1, <1>4, <1>5, <1>6

--------------------------------------------------------------------------------
(***************************************************************************)
(* Type correctness and the shape of the table.                            *)
(***************************************************************************)

LEMMA InitTableInv == Init => TableInv
<1> SUFFICES ASSUME Init
             PROVE  TableInv
  OBVIOUS
<1>1. EmptyGroup \in Group
  BY EmptySeq DEF EmptyGroup, Group
<1>2. NoAnswer \in View
  BY EmptySeq DEF NoAnswer, View
<1>3. TypeOK
  BY <1>1, <1>2 DEF Init, TypeOK, Port
<1>4. UnusedSlots /\ TableWellFormed
  BY DEF Init, UnusedSlots, TableWellFormed, EmptyGroup
<1> QED
  BY <1>3, <1>4 DEF TableInv

\* A file has one slot at most, so the last match is the only one.
LEMMA FoundSlot ==
  ASSUME TypeOK, UnusedSlots, TableWellFormed, NEW gr \in GroupReq,
         NEW ga, ga = UpdateGroupAssign(group_assign_list, gr)
  PROVE  /\ FindGroupAssign(ga, gr) \in Slots
         /\ \A i \in Slots : ga[i].filename = gr.filename => FindGroupAssign(ga, gr) = i
<1>1. \A i, k \in Slots : ga[i].filename = ga[k].filename
                            => i = k \/ ga[i] = EmptyGroup
  BY UpdateKeepsTable
<1>2. ASSUME NEW i \in Slots, ga[i].filename = gr.filename
      PROVE  FindGroupAssign(ga, gr) = i
  <2>1. ga[i] # EmptyGroup
    BY <1>2, GroupAssignAssumption DEF EmptyGroup, GroupReq
  <2>2. Known(ga, gr) = {i}
    BY <1>1, <1>2, <2>1 DEF Known
  <2>3. i <= i
    BY DEF Slots
  <2> QED
    BY <2>2, <2>3 DEF FindGroupAssign
<1>3. CASE Known(ga, gr) = {}
  BY <1>2, <1>3, GroupAssignAssumption DEF FindGroupAssign, Slots
<1>4. CASE Known(ga, gr) # {}
  BY <1>2, <1>4 DEF Known
<1> QED
  BY <1>2, <1>3, <1>4

\* The group that answers a request is one of the table.
LEMMA AnswerType ==
  ASSUME TypeOK, UnusedSlots, TableWellFormed, NEW gr \in GroupReq
  PROVE  Answer(gr) \in Reply
<1> DEFINE ga == UpdateGroupAssign(group_assign_list, gr)
<1>1. ga \in [Slots -> Group]
  BY UpdateKeepsTable
<1>2. FindGroupAssign(ga, gr) \in Slots
  BY FoundSlot
<1> HIDE DEF ga
<1>3. ga[FindGroupAssign(ga, gr)] \in Group
  BY <1>1, <1>2
<1> QED
  BY <1>3 DEF Answer, Reply, GroupReq, ga

LEMMA NextTableInv == TableInv /\ [Next]_vars => TableInv'
<1> SUFFICES ASSUME TypeOK, UnusedSlots, TableWellFormed, [Next]_vars
             PROVE  TableInv'
  BY DEF TableInv
<1>0. group_assign_list' = group_assign_list => UnusedSlots' /\ TableWellFormed'
  BY DEF UnusedSlots, TableWellFormed
<1>1. ASSUME NEW n \in Nodes, EarlyTick(n)
      PROVE  TableInv'
  BY <1>0, <1>1 DEF EarlyTick, trackerVars, TypeOK, TableInv
<1>2. ASSUME NEW n \in Nodes, ShowInterest(n)
      PROVE  TableInv'
  <2>1. ShowInterestOf(n) \in GroupReq /\ OthersListed(n) \in SUBSET Nodes
    BY TrackerAssumption DEF ShowInterestOf, GroupReq, TypeOK, OthersListed
  <2>2. TypeOK'
    BY <1>2, <2>1 DEF ShowInterest, trackerVars, TypeOK
  <2> QED
    BY <1>0, <1>2, <2>2 DEF ShowInterest, trackerVars, TableInv
<1>3. ASSUME NEW n \in Nodes, ReceiveAssign(n)
      PROVE  TableInv'
  <2>1. PICK r \in replies, junk \in Port :
             /\ view' = [view EXCEPT ![n] = DeserializeGroupAssign(r.group, n, junk)]
             /\ replies' = replies \ {r}
    BY <1>3 DEF ReceiveAssign
  <2>2. r.group \in Group
    BY DEF TypeOK, Reply
  <2>3. DeserializeGroupAssign(r.group, n, junk) \in View
    BY <2>2, DeserializeType
  <2>4. view' \in [Nodes -> View]
    BY <2>1, <2>3 DEF TypeOK
  <2>5. TypeOK'
    BY <1>3, <2>1, <2>4 DEF ReceiveAssign, trackerVars, TypeOK
  <2> QED
    BY <1>0, <1>3, <2>5 DEF ReceiveAssign, trackerVars, TableInv
<1>4. ASSUME NEW n \in Nodes, AssignTimeout(n) \/ EndDownload(n)
      PROVE  TableInv'
  <2>1. NoAnswer \in View
    BY EmptySeq DEF NoAnswer, View
  <2> QED
    BY <1>0, <1>4, <2>1 DEF AssignTimeout, EndDownload, trackerVars, TypeOK, TableInv
<1>6. ASSUME NEW gr \in requests, HandleRequest(gr)
      PROVE  TableInv'
  <2>1. gr \in GroupReq
    BY DEF TypeOK
  <2>2. Answer(gr) \in Reply
    BY <2>1, AnswerType
  <2>3. group_assign_list' = UpdateGroupAssign(group_assign_list, gr)
    BY <1>6 DEF HandleRequest
  <2>4. /\ group_assign_list' \in [Slots -> Group]
        /\ UnusedSlots'
        /\ TableWellFormed'
    BY <2>1, <2>3, UpdateKeepsTable DEF UnusedSlots, TableWellFormed
  <2>5. gr.node_id \in Nodes /\ gr.client_port \in Port
    BY <2>1 DEF GroupReq, Port
  <2>6. TypeOK'
    BY <1>6, <2>2, <2>4, <2>5 DEF HandleRequest, clientVars, TypeOK
  <2> QED
    BY <2>4, <2>6 DEF TableInv
<1>7. CASE Lose
  BY <1>0, <1>7 DEF Lose, trackerVars, clientVars, TypeOK, TableInv
<1>8. CASE UNCHANGED vars
  BY <1>0, <1>8 DEF vars, trackerVars, clientVars, TypeOK, TableInv
<1> QED
  BY <1>1, <1>2, <1>3, <1>4, <1>6, <1>7, <1>8 DEF Next, TrackerStep

\* Table, clients and datagrams keep their types.  The answer to a request is a
\* group of the table because a file never has two: the last match of
\* find_group_assign is the only one.
THEOREM TypeCorrect == Spec => []TypeOK
<1> QED
  BY InitTableInv, NextTableInv, PTL DEF Spec, TableInv

\* One group per file, one entry per client: retries and late duplicates never
\* make num_neighbors outgrow the number of clients.
THEOREM TableStaysWellFormed == Spec => []TableWellFormed
<1> QED
  BY InitTableInv, NextTableInv, PTL DEF Spec, TableInv

--------------------------------------------------------------------------------
(***************************************************************************)
(* Who is listed.                                                          *)
(***************************************************************************)

LEMMA NextRegistry ==
  ASSUME TypeOK, RequestsSound, RegistrySound, [Next]_vars
  PROVE  RequestsSound' /\ RegistrySound'
<1>0. /\ group_assign_list \in [Slots -> Group]
      /\ sockets \in [Nodes -> Nat]
      /\ \A i \in Slots : \A j \in DOMAIN group_assign_list[i].neighbors :
           group_assign_list[i].neighbors[j].id \in Nodes
  <2>1. ASSUME NEW i \in Slots, NEW j \in DOMAIN group_assign_list[i].neighbors
        PROVE  group_assign_list[i].neighbors[j].id \in Nodes
    <3>1. group_assign_list[i].neighbors \in Seq(Neighbor)
      BY DEF TypeOK, Group
    <3>2. group_assign_list[i].neighbors[j] \in Neighbor
      BY <3>1, ElementOfSeq, LenProperties
    <3> QED
      BY <3>2 DEF Neighbor
  <2> QED
    BY <2>1 DEF TypeOK
<1>a. UNCHANGED <<group_assign_list, sockets>> => RegistrySound'
  BY DEF RegistrySound
<1>b. requests' \subseteq requests /\ UNCHANGED sockets => RequestsSound'
  BY DEF RequestsSound
<1>1. ASSUME NEW n \in Nodes, EarlyTick(n) \/ ReceiveAssign(n) \/ AssignTimeout(n) \/ EndDownload(n)
      PROVE  RequestsSound' /\ RegistrySound'
  BY <1>1, <1>a, <1>b DEF EarlyTick, ReceiveAssign, AssignTimeout, EndDownload, trackerVars
<1>2. ASSUME NEW n \in Nodes, ShowInterest(n)
      PROVE  RequestsSound' /\ RegistrySound'
  <2>1. /\ sockets' = [sockets EXCEPT ![n] = @ + 1]
        /\ requests' = requests \cup {ShowInterestOf(n)}
        /\ UNCHANGED group_assign_list
    BY <1>2 DEF ShowInterest, trackerVars
  <2>2. \A m \in Nodes : sockets'[m] \in Nat /\ sockets[m] <= sockets'[m]
    BY <1>0, <2>1
  <2>3. RegistrySound'
    BY <1>0, <2>1, <2>2 DEF RegistrySound
  <2>4. ASSUME NEW gr \in requests
        PROVE  gr.sock \in 1 .. sockets'[gr.node_id]
    BY <1>0, <2>2 DEF RequestsSound, TypeOK, GroupReq
  <2>5. sockets[n] + 1 \in 1 .. sockets'[n]
    BY <1>0, <2>1
  <2>6. RequestsSound'
    BY <2>1, <2>4, <2>5 DEF RequestsSound, ShowInterestOf
  <2> QED
    BY <2>3, <2>6
<1>3. ASSUME NEW gr \in requests, HandleRequest(gr)
      PROVE  RequestsSound' /\ RegistrySound'
  <2>1. /\ requests' \subseteq requests
        /\ UNCHANGED sockets
        /\ group_assign_list' = UpdateGroupAssign(group_assign_list, gr)
    BY <1>3 DEF HandleRequest, clientVars
  <2>2. gr \in GroupReq
    BY DEF TypeOK
  <2>3. gr.type # GROUP_REQ_NO_SHARE =>
          /\ NeighborOf(gr).id \in Share
          /\ Task[NeighborOf(gr).id] = gr.filename
          /\ NeighborOf(gr).port = NeighborOf(gr).id
          /\ sockets[NeighborOf(gr).id] > 0
    BY <1>0, <2>2 DEF RequestsSound, NeighborOf, GroupReq, GROUP_REQ_NO_SHARE, GROUP_REQ_SHARE
  <2>4. ASSUME NEW i \in Slots,
               NEW j \in DOMAIN group_assign_list'[i].neighbors
        PROVE  LET nb == group_assign_list'[i].neighbors[j]
               IN  /\ nb.id \in Share
                   /\ Task[nb.id] = group_assign_list'[i].filename
                   /\ nb.port = nb.id
                   /\ sockets[nb.id] > 0
    <3> DEFINE g == group_assign_list[i]
               h == group_assign_list'[i]
    <3>1. CASE h = g
      BY <3>1 DEF RegistrySound
    <3>2. CASE /\ gr.type # GROUP_REQ_NO_SHARE
               /\ g.filename = gr.filename
               /\ h.filename = gr.filename
               /\ h.neighbors = Append(g.neighbors, NeighborOf(gr))
      <4>1. g.neighbors \in Seq(Neighbor) /\ NeighborOf(gr) \in Neighbor
        BY <1>0, <2>2 DEF Group, NeighborOf, Neighbor, GroupReq, Port
      <4>2. /\ DOMAIN h.neighbors = 1 .. Len(g.neighbors) + 1
            /\ DOMAIN g.neighbors = 1 .. Len(g.neighbors)
            /\ \A k \in 1 .. Len(g.neighbors) : h.neighbors[k] = g.neighbors[k]
            /\ h.neighbors[Len(g.neighbors) + 1] = NeighborOf(gr)
            /\ Len(g.neighbors) \in Nat
        BY <3>2, <4>1, AppendProperties, LenProperties
      <4>3. CASE j \in DOMAIN g.neighbors
        BY <3>2, <4>2, <4>3 DEF RegistrySound
      <4>4. CASE j = Len(g.neighbors) + 1
        BY <2>3, <3>2, <4>2, <4>4
      <4> QED
        BY <4>2, <4>3, <4>4
    <3>3. CASE gr.type # GROUP_REQ_NO_SHARE /\ h = NewGroup(gr)
      BY <2>2, <2>3, <3>3, NewGroupType
    <3>4. g \in Group
      BY <1>0
    <3>5. \/ h = g
          \/ /\ gr.type # GROUP_REQ_NO_SHARE
             /\ g.filename = gr.filename
             /\ h = AddNeighbor(g, gr)
          \/ gr.type # GROUP_REQ_NO_SHARE /\ h = NewGroup(gr)
      BY <1>0, <2>1, <2>2, UpdateOfSlot
    <3>6. h = AddNeighbor(g, gr) =>
            \/ h = g
            \/ h.filename = g.filename /\ h.neighbors = Append(g.neighbors, NeighborOf(gr))
      BY <3>4 DEF AddNeighbor, Group
    <3> QED
      BY <3>1, <3>2, <3>3, <3>5, <3>6
  <2> QED
    BY <1>b, <2>1, <2>4 DEF RegistrySound
<1>4. CASE Lose \/ UNCHANGED vars
  BY <1>4, <1>a, <1>b DEF Lose, vars, trackerVars, clientVars
<1> QED
  BY <1>1, <1>2, <1>3, <1>4 DEF Next, TrackerStep

\* The tracker lists nobody who does not share, nobody under a wrong file or
\* port, and nobody who has not asked, whatever is lost or overtaken.
THEOREM RegistryIsSound == Spec => []RegistrySound
<1>1. Init => RequestsSound /\ RegistrySound
  BY DEF Init, RequestsSound, RegistrySound, EmptyGroup
<1>2. TableInv /\ RequestsSound /\ RegistrySound /\ [Next]_vars
        => (RequestsSound /\ RegistrySound)'
  BY NextRegistry DEF TableInv
<1> QED
  BY <1>1, <1>2, InitTableInv, NextTableInv, PTL DEF Spec

--------------------------------------------------------------------------------
(***************************************************************************)
(* What the table has once listed.                                         *)
(***************************************************************************)

LEMMA UpdateGrows ==
  ASSUME TypeOK, NEW gr \in GroupReq, NEW i \in Slots,
         NEW h, h = UpdateGroupAssign(group_assign_list, gr)[i]
  PROVE  LET g == group_assign_list[i]
         IN  /\ g.num_files = 1 => h.filename = g.filename
             /\ g.num_files = 1 \/ g.neighbors = << >> =>
                  \A j \in DOMAIN g.neighbors : /\ j \in DOMAIN h.neighbors
                                                /\ h.neighbors[j] = g.neighbors[j]
<1> DEFINE g == group_assign_list[i]
<1>1. g \in Group /\ g.neighbors \in Seq(Neighbor) /\ NeighborOf(gr) \in Neighbor
  BY DEF TypeOK, Group, NeighborOf, Neighbor, GroupReq, Port
<1>2. CASE h = g
  BY <1>2
<1>3. CASE h.filename = g.filename /\ h.neighbors = Append(g.neighbors, NeighborOf(gr))
  <2>1. /\ DOMAIN h.neighbors = 1 .. Len(g.neighbors) + 1
        /\ DOMAIN g.neighbors = 1 .. Len(g.neighbors)
        /\ \A k \in 1 .. Len(g.neighbors) : h.neighbors[k] = g.neighbors[k]
    BY <1>1, <1>3, AppendProperties, LenProperties
  <2> QED
    BY <1>1, <1>3, <2>1, LenProperties
<1>4. CASE g.num_files = 0
  BY <1>4, EmptySeq
<1>5. CASE h = AddNeighbor(g, gr)
  <2>1. CASE IsListed(g, gr.node_id)
    BY <1>2, <1>5, <2>1 DEF AddNeighbor
  <2>2. CASE ~IsListed(g, gr.node_id)
    <3>1. h = [g EXCEPT !.neighbors = Append(g.neighbors, NeighborOf(gr))]
      BY <1>5, <2>2 DEF AddNeighbor
    <3>2. h.filename = g.filename /\ h.neighbors = Append(g.neighbors, NeighborOf(gr))
      BY <1>1, <3>1 DEF Group
    <3> QED
      BY <1>3, <3>2
  <2> QED
    BY <2>1, <2>2
<1>6. group_assign_list \in [Slots -> Group]
  BY DEF TypeOK
<1>7. h = g \/ h = AddNeighbor(g, gr) \/ g.num_files = 0
  BY <1>6, UpdateOfSlot DEF IsFirstFree
<1> QED
  BY <1>2, <1>4, <1>5, <1>7

\* A group keeps its file and its entries, each in its place, for ever: a client
\* may work from an old answer.
THEOREM TableGrowsOnly == Spec => TableOnlyGrows
<1>1. TableInv /\ [Next]_vars =>
        [\A i \in Slots :
           /\ group_assign_list[i].num_files = 1
                => group_assign_list'[i].filename = group_assign_list[i].filename
           /\ \A j \in DOMAIN group_assign_list[i].neighbors :
                /\ j \in DOMAIN group_assign_list'[i].neighbors
                /\ group_assign_list'[i].neighbors[j] = group_assign_list[i].neighbors[j]]_vars
  <2> SUFFICES ASSUME TypeOK, UnusedSlots, Next, NEW i \in Slots
               PROVE  LET g == group_assign_list[i]
                          h == group_assign_list'[i]
                      IN  /\ g.num_files = 1 => h.filename = g.filename
                          /\ \A j \in DOMAIN g.neighbors :
                               j \in DOMAIN h.neighbors /\ h.neighbors[j] = g.neighbors[j]
    BY DEF TableInv
  <2>1. CASE UNCHANGED group_assign_list
    BY <2>1
  <2>2. ASSUME NEW gr \in requests, HandleRequest(gr)
        PROVE  LET g == group_assign_list[i]
                   h == group_assign_list'[i]
               IN  /\ g.num_files = 1 => h.filename = g.filename
                   /\ \A j \in DOMAIN g.neighbors :
                        j \in DOMAIN h.neighbors /\ h.neighbors[j] = g.neighbors[j]
    <3>1. group_assign_list[i].num_files = 1 \/ group_assign_list[i].neighbors = << >>
      BY DEF TypeOK, Group, UnusedSlots, EmptyGroup
    <3>2. gr \in GroupReq /\ group_assign_list' = UpdateGroupAssign(group_assign_list, gr)
      BY <2>2 DEF TypeOK, HandleRequest
    <3> QED
      BY <3>1, <3>2, UpdateGrows
  <2> QED
    BY <2>1, <2>2 DEF Next, TrackerStep, EarlyTick, ShowInterest, ReceiveAssign,
       AssignTimeout, EndDownload, Lose, trackerVars
<1> QED
  BY <1>1, InitTableInv, NextTableInv, PTL DEF Spec, TableOnlyGrows

--------------------------------------------------------------------------------
(***************************************************************************)
(* What clients are told.                                                  *)
(***************************************************************************)

LEMMA LeastOfNaturals ==
  ASSUME NEW S \in SUBSET Nat, S # {}
  PROVE  \E i \in S : \A k \in S : i <= k
<1> DEFINE Before == {p \in Nat \X Nat : p[1] < p[2]}
<1>1. IsWellFoundedOn(Before, Nat)
  BY NatLessThanWellFounded, SMT DEF OpToRel
<1>2. PICK i \in S : \A k \in S : <<k, i>> \notin Before
  <2> HIDE DEF Before
  <2> QED
    BY <1>1, WFMin
<1>3. ASSUME NEW k \in S
      PROVE  i <= k
  <2>1. i \in Nat /\ k \in Nat
    OBVIOUS
  <2>2. ~(k < i)
    BY <1>2, <2>1
  <2> QED
    BY <2>1, <2>2
<1> QED
  BY <1>3

\* An entry keeps its place in its file's group when the table is updated.
LEMMA UpdateKeepsEntries ==
  ASSUME TypeOK, UnusedSlots, NEW gr \in GroupReq,
         NEW ga, ga = UpdateGroupAssign(group_assign_list, gr),
         NEW i \in Slots, NEW j \in DOMAIN group_assign_list[i].neighbors
  PROVE  /\ ga[i].filename = group_assign_list[i].filename
         /\ j \in DOMAIN ga[i].neighbors
         /\ ga[i].neighbors[j] = group_assign_list[i].neighbors[j]
<1>1. group_assign_list[i].num_files = 1
  <2>1. group_assign_list[i].neighbors # << >>
    OBVIOUS
  <2> QED
    BY <2>1 DEF TypeOK, Group, UnusedSlots, EmptyGroup
<1> QED
  BY <1>1, UpdateGrows

LEMMA NextRepliesAgree ==
  ASSUME TableInv, RepliesAgree, [Next]_vars
  PROVE  RepliesAgree'
<1>1. CASE UNCHANGED group_assign_list /\ replies' \subseteq replies
  BY <1>1 DEF RepliesAgree
<1>2. ASSUME NEW gr \in requests, HandleRequest(gr)
      PROVE  RepliesAgree'
  <2> DEFINE ga == UpdateGroupAssign(group_assign_list, gr)
  <2>1. gr \in GroupReq /\ group_assign_list' = ga
    BY <1>2 DEF HandleRequest, TableInv, TypeOK
  <2> SUFFICES ASSUME NEW r \in replies', NEW j \in DOMAIN r.group.neighbors
               PROVE  \E i \in Slots : /\ ga[i].filename = r.group.filename
                                       /\ j \in DOMAIN ga[i].neighbors
                                       /\ ga[i].neighbors[j] = r.group.neighbors[j]
    BY <2>1 DEF RepliesAgree
  <2> HIDE DEF ga
  <2>2. CASE r \in replies
    <3>1. PICK i \in Slots : /\ group_assign_list[i].filename = r.group.filename
                             /\ j \in DOMAIN group_assign_list[i].neighbors
                             /\ group_assign_list[i].neighbors[j] = r.group.neighbors[j]
      BY <2>2 DEF RepliesAgree
    <3> QED
      BY <2>1, <3>1, UpdateKeepsEntries DEF TableInv, ga
  <2>3. CASE r = Answer(gr)
    <3>1. r.group = ga[FindGroupAssign(ga, gr)]
      BY <2>3 DEF Answer, ga
    <3>2. FindGroupAssign(ga, gr) \in Slots
      BY <2>1, FoundSlot DEF TableInv, ga
    <3> QED
      BY <3>1, <3>2
  <2> QED
    BY <1>2, <2>2, <2>3 DEF HandleRequest
<1> QED
  BY <1>1, <1>2 DEF Next, TrackerStep, EarlyTick, ShowInterest, ReceiveAssign,
     AssignTimeout, EndDownload, Lose, trackerVars, vars

\* The client counts the others, so no position it uses lies behind the list.
LEMMA DeserializedPorts ==
  ASSUME NEW g \in Group, NEW n \in Nodes, NEW junk \in Port,
         NEW j \in DOMAIN DeserializeGroupAssign(g, n, junk).neighbor_port
  PROVE  /\ j \in DOMAIN g.neighbors
         /\ \/ g.neighbors[j].id = n
            \/ g.neighbors[j].port = DeserializeGroupAssign(g, n, junk).neighbor_port[j]
<1> DEFINE others == {k \in DOMAIN g.neighbors : g.neighbors[k].id # n}
<1>1. g.neighbors \in Seq(Neighbor)
  BY DEF Group
<1>2. Len(g.neighbors) \in Nat /\ DOMAIN g.neighbors = 1 .. Len(g.neighbors)
  BY <1>1, LenProperties
<1>3. Cardinality(others) \in Nat /\ Cardinality(others) <= Len(g.neighbors)
  <2>1. IsFiniteSet(1 .. Len(g.neighbors)) /\ Cardinality(1 .. Len(g.neighbors)) = Len(g.neighbors)
    BY <1>2, FS_Interval
  <2>2. others \in SUBSET (1 .. Len(g.neighbors))
    BY <1>2
  <2>3. IsFiniteSet(others) /\ Cardinality(others) <= Len(g.neighbors)
    <3> HIDE DEF others
    <3> QED
      BY <2>1, <2>2, FS_Subset
  <2> QED
    BY <2>3, FS_CardinalityType
<1>4. /\ j \in 1 .. Cardinality(others)
      /\ DeserializeGroupAssign(g, n, junk).neighbor_port[j]
           = IF j \in others THEN g.neighbors[j].port ELSE junk
  BY DEF DeserializeGroupAssign
<1>5. j \in DOMAIN g.neighbors
  BY <1>2, <1>3, <1>4
<1> QED
  BY <1>4, <1>5

LEMMA NextViewsAgree ==
  ASSUME TableInv, RepliesAgree, ViewsAgreeWithTable, [Next]_vars
  PROVE  ViewsAgreeWithTable'
<1> DEFINE Agrees(v, n, j) ==
             \E i \in Slots :
               /\ group_assign_list[i].filename = v.filename
               /\ j \in DOMAIN group_assign_list[i].neighbors
               /\ \/ group_assign_list[i].neighbors[j].id = n
                  \/ group_assign_list[i].neighbors[j].port = v.neighbor_port[j]
<1>1. CASE UNCHANGED <<group_assign_list, view>>
  BY <1>1 DEF ViewsAgreeWithTable
<1>2. ASSUME NEW n \in Nodes, ReceiveAssign(n)
      PROVE  ViewsAgreeWithTable'
  <2>1. UNCHANGED group_assign_list
    BY <1>2 DEF ReceiveAssign, trackerVars
  <2>2. PICK r \in replies, junk \in Port :
          view' = [view EXCEPT ![n] = DeserializeGroupAssign(r.group, n, junk)]
    BY <1>2 DEF ReceiveAssign
  <2>3. view'[n] = DeserializeGroupAssign(r.group, n, junk) /\ r.group \in Group
    BY <2>2 DEF TableInv, TypeOK, Reply
  <2>4. ASSUME NEW j \in DOMAIN view'[n].neighbor_port
        PROVE  Agrees(view'[n], n, j)
    <3>1. /\ j \in DOMAIN r.group.neighbors
          /\ \/ r.group.neighbors[j].id = n
             \/ r.group.neighbors[j].port = view'[n].neighbor_port[j]
      BY <2>3, <2>4, DeserializedPorts
    <3>2. PICK i \in Slots : /\ group_assign_list[i].filename = r.group.filename
                             /\ j \in DOMAIN group_assign_list[i].neighbors
                             /\ group_assign_list[i].neighbors[j] = r.group.neighbors[j]
      BY <3>1 DEF RepliesAgree
    <3>3. view'[n].filename = r.group.filename
      BY <2>3 DEF DeserializeGroupAssign
    <3> QED
      BY <3>1, <3>2, <3>3
  <2>5. \A m \in Nodes : m = n \/ view'[m] = view[m]
    BY <2>2 DEF TableInv, TypeOK
  <2>6. ASSUME NEW m \in Nodes, NEW j \in DOMAIN view'[m].neighbor_port
        PROVE  Agrees(view'[m], m, j)
    BY <2>4, <2>5 DEF ViewsAgreeWithTable
  <2> QED
    BY <2>1, <2>6 DEF ViewsAgreeWithTable
<1>3. ASSUME NEW n \in Nodes, AssignTimeout(n) \/ EndDownload(n)
      PROVE  ViewsAgreeWithTable'
  <2>1. UNCHANGED group_assign_list /\ view' = [view EXCEPT ![n] = NoAnswer]
    BY <1>3 DEF AssignTimeout, EndDownload, trackerVars
  <2>2. \A m \in Nodes : view'[m].neighbor_port = << >> \/ view'[m] = view[m]
    BY <2>1 DEF TableInv, TypeOK, NoAnswer
  <2> QED
    BY <2>1, <2>2 DEF ViewsAgreeWithTable
<1>4. ASSUME NEW gr \in requests, HandleRequest(gr)
      PROVE  ViewsAgreeWithTable'
  <2>1. /\ gr \in GroupReq
        /\ group_assign_list' = UpdateGroupAssign(group_assign_list, gr)
        /\ UNCHANGED view
    BY <1>4 DEF HandleRequest, clientVars, TableInv, TypeOK
  <2>2. ASSUME NEW i \in Slots, NEW j \in DOMAIN group_assign_list[i].neighbors
        PROVE  /\ group_assign_list'[i].filename = group_assign_list[i].filename
               /\ j \in DOMAIN group_assign_list'[i].neighbors
               /\ group_assign_list'[i].neighbors[j] = group_assign_list[i].neighbors[j]
    BY <2>1, UpdateKeepsEntries DEF TableInv
  <2> QED
    BY <2>1, <2>2 DEF ViewsAgreeWithTable
<1> QED
  BY <1>1, <1>2, <1>3, <1>4 DEF Next, TrackerStep, EarlyTick, ShowInterest,
     EndDownload, Lose, trackerVars, clientVars, vars

\* However old its answer, a client finds at the ports it got the neighbors that
\* the table lists there: entries are only ever added behind the others.
THEOREM OldViewsAreGood == Spec => []ViewsAgreeWithTable
<1>1. Init => RepliesAgree /\ ViewsAgreeWithTable
  BY DEF Init, RepliesAgree, ViewsAgreeWithTable, NoAnswer
<1>2. TableInv /\ RepliesAgree /\ ViewsAgreeWithTable /\ [Next]_vars
        => (RepliesAgree /\ ViewsAgreeWithTable)'
  BY NextRepliesAgree, NextViewsAgree
<1> QED
  BY <1>1, <1>2, InitTableInv, NextTableInv, PTL DEF Spec

\* The answer to a sharer is taken after its entry was made, if there was room.
LEMMA AnswerToSharer ==
  ASSUME TableInv, RequestsSound, NEW gr \in requests, gr.node_id \in Share,
         NEW ga, ga = UpdateGroupAssign(group_assign_list, gr)
  PROVE  \/ IsListed(ga[FindGroupAssign(ga, gr)], gr.node_id)
         \/ \A i \in Slots : ga[i].filename \notin {NoFile, Task[gr.node_id]}
<1>1. /\ gr \in GroupReq /\ gr.type = GROUP_REQ_SHARE /\ gr.filename = Task[gr.node_id]
      /\ group_assign_list \in [Slots -> Group]
      /\ NeighborOf(gr) \in Neighbor
  BY DEF TableInv, TypeOK, RequestsSound, NeighborOf, Neighbor, GroupReq, Port
<1>2. gr.type # GROUP_REQ_NO_SHARE
  BY <1>1 DEF GROUP_REQ_SHARE, GROUP_REQ_NO_SHARE
<1>3. \A i \in Slots : ga[i].filename = gr.filename => FindGroupAssign(ga, gr) = i
  BY <1>1, FoundSlot DEF TableInv
<1>4. CASE \E i \in Slots : group_assign_list[i].filename = gr.filename
  <2>1. PICK i \in Slots : group_assign_list[i].filename = gr.filename
    BY <1>4
  <2>2. ga[i] = AddNeighbor(group_assign_list[i], gr)
    BY <1>2, <2>1 DEF UpdateGroupAssign, Known
  <2>3. group_assign_list[i] \in Group /\ ga[i].filename = gr.filename
    BY <1>1, <2>1, <2>2, AddNeighborProperties
  <2>4. IsListed(ga[i], gr.node_id)
    <3> DEFINE nbs == group_assign_list[i].neighbors
    <3>1. CASE ga[i].neighbors = Append(nbs, NeighborOf(gr))
      <4>1. nbs \in Seq(Neighbor)
        BY <2>3 DEF Group
      <4>2. /\ Len(nbs) + 1 \in DOMAIN ga[i].neighbors
            /\ ga[i].neighbors[Len(nbs) + 1] = NeighborOf(gr)
        BY <1>1, <3>1, <4>1, AppendProperties, LenProperties
      <4> QED
        BY <4>2 DEF IsListed, NeighborOf
    <3>2. CASE IsListed(group_assign_list[i], gr.node_id)
      BY <2>2, <3>2 DEF AddNeighbor
    <3>3. CASE ~IsListed(group_assign_list[i], gr.node_id)
      <4>1. ga[i] = [group_assign_list[i] EXCEPT !.neighbors = Append(nbs, NeighborOf(gr))]
        BY <2>2, <3>3 DEF AddNeighbor
      <4> QED
        BY <2>3, <3>1, <4>1 DEF Group
    <3> QED
      BY <3>2, <3>3
  <2> QED
    BY <1>3, <2>3, <2>4
<1>5. CASE /\ \A i \in Slots : group_assign_list[i].filename # gr.filename
           /\ \E i \in Slots : group_assign_list[i].num_files = 0
  <2> DEFINE free == {i \in Slots : group_assign_list[i].num_files = 0}
  <2>1. PICK i \in free : \A k \in free : i <= k
    <3>1. free \in SUBSET Nat /\ free # {}
      BY <1>5 DEF Slots
    <3> HIDE DEF free
    <3> QED
      BY <3>1, LeastOfNaturals
  <2>2. ga[i] = NewGroup(gr)
    BY <1>2, <1>5, <2>1 DEF UpdateGroupAssign, Known, IsFirstFree
  <2>3. ga[i].filename = gr.filename /\ IsListed(ga[i], gr.node_id)
    BY <2>2 DEF NewGroup, IsListed, NeighborOf
  <2> QED
    BY <1>3, <2>3
<1>6. CASE /\ \A i \in Slots : group_assign_list[i].filename # gr.filename
           /\ \A i \in Slots : group_assign_list[i].num_files # 0
  <2>1. ASSUME NEW i \in Slots
        PROVE  group_assign_list[i].num_files = 1 /\ ga[i] = group_assign_list[i]
    BY <1>1, <1>6 DEF UpdateGroupAssign, Known, IsFirstFree, Group
  <2>2. \A i \in Slots : ga[i].filename \in Files
    BY <2>1 DEF TableInv, UnusedSlots
  <2> QED
    BY <1>1, <1>6, <2>1, <2>2, GroupAssignAssumption
<1> QED
  BY <1>4, <1>5, <1>6

LEMMA NextSharerIsAnswered ==
  ASSUME TableInv, RequestsSound, SharerIsAnswered, [Next]_vars
  PROVE  SharerIsAnswered'
<1>1. CASE UNCHANGED group_assign_list /\ replies' \subseteq replies
  BY <1>1 DEF SharerIsAnswered
<1>2. ASSUME NEW gr \in requests, HandleRequest(gr)
      PROVE  SharerIsAnswered'
  <2>1. gr \in GroupReq /\ group_assign_list' = UpdateGroupAssign(group_assign_list, gr)
    BY <1>2 DEF HandleRequest, TableInv, TypeOK
  <2>2. ASSUME NEW r \in replies', r.node_id \in Share
        PROVE  \/ IsListed(r.group, r.node_id)
               \/ \A i \in Slots : group_assign_list'[i].filename \notin {NoFile, Task[r.node_id]}
    <3>1. CASE r = Answer(gr)
      BY <2>1, <2>2, <3>1, AnswerToSharer DEF Answer
    <3>2. CASE r \in replies /\ \A i \in Slots : group_assign_list[i].filename
                                                    \notin {NoFile, Task[r.node_id]}
      <4>1. ASSUME NEW i \in Slots
            PROVE  group_assign_list'[i].filename = group_assign_list[i].filename
        <5>1. group_assign_list[i].num_files = 1
          BY <3>2 DEF TableInv, TypeOK, Group, UnusedSlots, EmptyGroup
        <5> QED
          BY <2>1, <5>1, UpdateGrows DEF TableInv
      <4> QED
        BY <3>2, <4>1
    <3> QED
      BY <1>2, <2>2, <3>1, <3>2 DEF HandleRequest, SharerIsAnswered
  <2> QED
    BY <2>2 DEF SharerIsAnswered
<1> QED
  BY <1>1, <1>2 DEF Next, TrackerStep, EarlyTick, ShowInterest, ReceiveAssign,
     AssignTimeout, EndDownload, Lose, trackerVars, vars

\* A sharer that is not in the answer to its request will find no slot either:
\* other files have taken them all, and keep them.
THEOREM SharersAreAnswered == Spec => []SharerIsAnswered
<1>1. Init => RequestsSound /\ RegistrySound /\ SharerIsAnswered
  BY DEF Init, RequestsSound, RegistrySound, EmptyGroup, SharerIsAnswered
<1>2. TableInv /\ RequestsSound /\ RegistrySound /\ SharerIsAnswered /\ [Next]_vars
        => (RequestsSound /\ RegistrySound /\ SharerIsAnswered)'
  BY NextRegistry, NextSharerIsAnswered DEF TableInv
<1> QED
  BY <1>1, <1>2, InitTableInv, NextTableInv, PTL DEF Spec

--------------------------------------------------------------------------------
(***************************************************************************)
(* Late answers.                                                           *)
(***************************************************************************)

\* Only open sockets hold answers.
LEMMA NextRepliesSound ==
  ASSUME TypeOK, RequestsSound, RepliesSound, [Next]_vars
  PROVE  RepliesSound'
<1>0. /\ \A r \in replies : r.node_id \in Nodes /\ r.sock \in Nat
      /\ sockets \in [Nodes -> Nat]
  BY DEF TypeOK, Reply
<1>1. CASE UNCHANGED sockets /\ replies' \subseteq replies
  BY <1>1 DEF RepliesSound
<1>2. ASSUME NEW n \in Nodes, ShowInterest(n)
      PROVE  RepliesSound'
  <2>1. sockets' = [sockets EXCEPT ![n] = @ + 1] /\ UNCHANGED replies
    BY <1>2 DEF ShowInterest
  <2>2. \A m \in Nodes : sockets[m] \in Nat /\ sockets'[m] \in Nat /\ sockets[m] <= sockets'[m]
    BY <1>0, <2>1
  <2> QED
    BY <1>0, <2>1, <2>2 DEF RepliesSound
<1>3. ASSUME NEW gr \in requests, HandleRequest(gr)
      PROVE  RepliesSound'
  <2>1. Answer(gr).sock = gr.sock /\ Answer(gr).node_id = gr.node_id
    BY DEF Answer
  <2>2. gr.sock \in 1 .. sockets[gr.node_id] /\ sockets[gr.node_id] \in Nat
    BY <1>0 DEF RequestsSound, TypeOK, GroupReq
  <2> QED
    BY <1>3, <2>1, <2>2 DEF HandleRequest, clientVars, RepliesSound
<1> QED
  BY <1>1, <1>2, <1>3 DEF Next, TrackerStep, EarlyTick, ReceiveAssign, AssignTimeout,
     EndDownload, Lose, clientVars, vars

\* Whoever is listed for a file stays listed for it.
LEMMA UpdateKeepsListed ==
  ASSUME TableInv, NEW gr \in GroupReq, NEW m, NEW i \in Slots,
         IsListed(group_assign_list[i], m)
  PROVE  LET ga == UpdateGroupAssign(group_assign_list, gr)
         IN  /\ ga[i].filename = group_assign_list[i].filename
             /\ IsListed(ga[i], m)
<1>1. PICK j \in DOMAIN group_assign_list[i].neighbors :
             group_assign_list[i].neighbors[j].id = m
  BY DEF IsListed
<1> QED
  BY <1>1, UpdateKeepsEntries DEF TableInv, IsListed

LEMMA NextListedStay ==
  ASSUME TableInv, ListedStay, [Next]_vars
  PROVE  ListedStay'
<1>1. CASE UNCHANGED <<group_assign_list, listed>>
  BY <1>1 DEF ListedStay
<1>2. ASSUME NEW n \in Nodes, ShowInterest(n)
      PROVE  ListedStay'
  <2>1. /\ listed' = [listed EXCEPT ![n] = OthersListed(n)]
        /\ UNCHANGED group_assign_list
    BY <1>2 DEF ShowInterest, trackerVars
  <2>2. \A k \in Nodes : listed'[k] = IF k = n THEN OthersListed(n) ELSE listed[k]
    BY <2>1 DEF TableInv, TypeOK
  <2> QED
    BY <2>1, <2>2 DEF ListedStay, OthersListed
<1>3. ASSUME NEW gr \in requests, HandleRequest(gr)
      PROVE  ListedStay'
  <2>1. /\ group_assign_list' = UpdateGroupAssign(group_assign_list, gr)
        /\ UNCHANGED listed
        /\ gr \in GroupReq
    BY <1>3 DEF HandleRequest, clientVars, TableInv, TypeOK
  <2>2. ASSUME NEW n \in Nodes, NEW m \in listed[n]
        PROVE  /\ m # n
               /\ \E i \in Slots : /\ group_assign_list'[i].filename = Task[n]
                                   /\ IsListed(group_assign_list'[i], m)
    <3>1. PICK i \in Slots : /\ group_assign_list[i].filename = Task[n]
                             /\ IsListed(group_assign_list[i], m)
      BY DEF ListedStay
    <3>2. m # n
      BY DEF ListedStay
    <3>3. /\ group_assign_list'[i].filename = Task[n]
          /\ IsListed(group_assign_list'[i], m)
      BY <2>1, <3>1, UpdateKeepsListed
    <3> QED
      BY <3>2, <3>3
  <2> QED
    BY <2>1, <2>2 DEF ListedStay
<1> QED
  BY <1>1, <1>2, <1>3 DEF Next, TrackerStep, EarlyTick, ReceiveAssign, AssignTimeout,
     EndDownload, Lose, trackerVars, clientVars, vars

\* The answer to a request lists whoever was listed when the request was sent.
LEMMA AnswerIsCurrent ==
  ASSUME TableInv, RequestsSound, ListedStay, NEW gr \in requests,
         NEW m \in listed[gr.node_id]
  PROVE  IsListed(Answer(gr).group, m)
<1> DEFINE ga == UpdateGroupAssign(group_assign_list, gr)
<1>1. gr \in GroupReq /\ gr.node_id \in Nodes /\ gr.filename = Task[gr.node_id]
  BY DEF TableInv, TypeOK, RequestsSound, GroupReq
<1>2. PICK i \in Slots : /\ group_assign_list[i].filename = Task[gr.node_id]
                         /\ IsListed(group_assign_list[i], m)
  BY <1>1 DEF ListedStay
<1>3. ga[i].filename = gr.filename /\ IsListed(ga[i], m)
  BY <1>1, <1>2, UpdateKeepsListed
<1>4. FindGroupAssign(ga, gr) = i
  BY <1>1, <1>3, FoundSlot DEF TableInv
<1> QED
  BY <1>3, <1>4 DEF Answer

\* The list of ports is as long as the number of others in the answer.
LEMMA RoomForOthers ==
  ASSUME NEW g \in Group, NEW n \in Nodes, NEW junk \in Port, NEW L,
         \A m \in L : m # n /\ IsListed(g, m)
  PROVE  Cardinality(L) <= Len(DeserializeGroupAssign(g, n, junk).neighbor_port)
<1> DEFINE others == {j \in DOMAIN g.neighbors : g.neighbors[j].id # n}
           place  == [m \in L |-> CHOOSE j \in others : g.neighbors[j].id = m]
<1>1. IsFiniteSet(others) /\ Cardinality(others) \in Nat
  <2>1. g.neighbors \in Seq(Neighbor)
    BY DEF Group
  <2>2. Len(g.neighbors) \in Nat /\ DOMAIN g.neighbors = 1 .. Len(g.neighbors)
    BY <2>1, LenProperties
  <2>3. IsFiniteSet(1 .. Len(g.neighbors))
    BY <2>2, FS_Interval
  <2>4. others \in SUBSET (1 .. Len(g.neighbors))
    BY <2>2
  <2>5. IsFiniteSet(others)
    BY <2>3, <2>4, FS_Subset
  <2> QED
    BY <2>5, FS_CardinalityType
<1>2. ASSUME NEW m \in L
      PROVE  place[m] \in others /\ g.neighbors[place[m]].id = m
  <2>1. \E j \in others : g.neighbors[j].id = m
    BY DEF IsListed
  <2> QED
    BY <2>1
<1>3. place \in Injection(L, others)
  <2>1. place \in [L -> others]
    <3> HIDE DEF others
    <3> QED
      BY <1>2
  <2> HIDE DEF place
  <2>2. \A k, m \in L : place[k] = place[m] => k = m
    BY <1>2
  <2> QED
    BY <2>1, <2>2 DEF Injection, IsInjective
<1>4. Cardinality(L) <= Cardinality(others)
  <2> HIDE DEF place, others
  <2> QED
    BY <1>1, <1>3, FS_Injection
<1> DEFINE card == Cardinality(others)
           ports == DeserializeGroupAssign(g, n, junk).neighbor_port
<1>5. Len(ports) = card
  <2>1. ports = [j \in 1 .. card |-> IF j \in others THEN g.neighbors[j].port ELSE junk]
    BY DEF DeserializeGroupAssign
  <2>2. card \in Nat
    BY <1>1
  <2>3. DOMAIN ports = 1 .. card
    BY <2>1
  <2>4. ports \in Seq(Port)
    BY DeserializeType DEF View
  <2> HIDE DEF ports, card
  <2> QED
    BY <2>2, <2>3, <2>4, LenProperties
<1> QED
  BY <1>4, <1>5

LEMMA NextAnswersAreCurrent ==
  ASSUME TableInv, RequestsSound, RepliesSound, ListedStay, AnswersAreCurrent, [Next]_vars
  PROVE  AnswersAreCurrent'
<1> DEFINE Fresh(n, r)  == \A m \in listed[n] : IsListed(r.group, m)
           HasRoom(n)   == /\ pc[n] \in {"idle", "downloading", "silent"}
                           /\ view[n].filename # NoFile
                           => Cardinality(listed[n]) <= Len(view[n].neighbor_port)
<1>0. /\ pc \in [Nodes -> {"idle", "waiting", "downloading", "silent", "dead"}]
      /\ sockets \in [Nodes -> Nat]
      /\ view \in [Nodes -> View]
      /\ listed \in [Nodes -> SUBSET Nodes]
      /\ replies \subseteq Reply
  BY DEF TableInv, TypeOK
<1>1. ASSUME NEW n \in Nodes, EarlyTick(n)
      PROVE  AnswersAreCurrent'
  BY <1>1 DEF EarlyTick, AnswersAreCurrent
<1>2. ASSUME NEW n \in Nodes, ShowInterest(n)
      PROVE  AnswersAreCurrent'
  <2>1. /\ sockets' = [sockets EXCEPT ![n] = @ + 1]
        /\ pc' = [pc EXCEPT ![n] = IF sockets[n] + 1 < FdLimit THEN "waiting" ELSE "dead"]
        /\ listed' = [listed EXCEPT ![n] = OthersListed(n)]
        /\ UNCHANGED <<view, replies>>
    BY <1>2 DEF ShowInterest
  <2>2. /\ pc'[n] \in {"waiting", "dead"}
        /\ sockets'[n] = sockets[n] + 1 /\ sockets[n] \in Nat
        /\ \A k \in Nodes \ {n} : /\ pc'[k] = pc[k]
                                  /\ sockets'[k] = sockets[k]
                                  /\ listed'[k] = listed[k]
    BY <1>0, <2>1
  <2>3. \A r \in replies : r.node_id = n => r.sock # sockets'[n]
    BY <1>0, <2>2 DEF RepliesSound, Reply
  <2>4. \A k \in Nodes \ {n} : HasRoom(k)'
    BY <2>1, <2>2 DEF AnswersAreCurrent
  <2> QED
    BY <2>1, <2>2, <2>3, <2>4 DEF AnswersAreCurrent
<1>3. ASSUME NEW n \in Nodes, ReceiveAssign(n)
      PROVE  AnswersAreCurrent'
  <2>1. PICK r \in replies, junk \in Port :
             /\ Awaits(n, r)
             /\ view' = [view EXCEPT ![n] = DeserializeGroupAssign(r.group, n, junk)]
             /\ replies' = replies \ {r}
    BY <1>3 DEF ReceiveAssign
  <2>2. UNCHANGED <<sockets, listed>> /\ \A k \in Nodes \ {n} : pc'[k] = pc[k] /\ view'[k] = view[k]
    BY <1>0, <1>3, <2>1 DEF ReceiveAssign
  <2>3. \A m \in listed[n] : m # n /\ IsListed(r.group, m)
    BY <2>1 DEF Awaits, AnswersAreCurrent, ListedStay
  <2>4. Cardinality(listed[n]) <= Len(DeserializeGroupAssign(r.group, n, junk).neighbor_port)
    BY <1>0, <2>3, RoomForOthers DEF Reply
  <2>5. Cardinality(listed[n]) <= Len(view'[n].neighbor_port)
    BY <1>0, <2>1, <2>4
  <2> QED
    BY <2>1, <2>2, <2>5 DEF AnswersAreCurrent
<1>4. ASSUME NEW n \in Nodes, AssignTimeout(n) \/ EndDownload(n)
      PROVE  AnswersAreCurrent'
  <2>1. /\ UNCHANGED <<sockets, listed, replies>>
        /\ view' = [view EXCEPT ![n] = NoAnswer]
        /\ \A k \in Nodes \ {n} : pc'[k] = pc[k] /\ view'[k] = view[k]
    BY <1>0, <1>4 DEF AssignTimeout, EndDownload
  <2>2. view'[n].filename = NoFile
    BY <1>0, <2>1 DEF NoAnswer
  <2> QED
    BY <2>1, <2>2 DEF AnswersAreCurrent
<1>5. ASSUME NEW gr \in requests, HandleRequest(gr)
      PROVE  AnswersAreCurrent'
  <2>1. /\ UNCHANGED <<pc, sockets, view, listed>>
        /\ replies' \subseteq replies \cup {Answer(gr)}
    BY <1>5 DEF HandleRequest, clientVars
  <2>2. Fresh(gr.node_id, Answer(gr)) /\ Answer(gr).node_id = gr.node_id
    BY AnswerIsCurrent DEF Answer
  <2> QED
    BY <2>1, <2>2 DEF AnswersAreCurrent
<1>6. CASE Lose \/ UNCHANGED vars
  BY <1>6 DEF Lose, vars, clientVars, AnswersAreCurrent
<1> QED
  BY <1>1, <1>2, <1>3, <1>4, <1>5, <1>6 DEF Next, TrackerStep

\* An update that follows a timeout is not set back by the late answer: what it
\* takes is at least as recent as its own request.
THEOREM LateAnswersDoNoHarm == Spec => []AnswersAreCurrent
<1> DEFINE IInv == /\ RequestsSound /\ RegistrySound
                   /\ RepliesSound /\ ListedStay /\ AnswersAreCurrent
<1>1. Init => IInv
  BY DEF Init, RequestsSound, RegistrySound, EmptyGroup, RepliesSound, ListedStay,
         AnswersAreCurrent, NoAnswer
<1>2. TableInv /\ IInv /\ [Next]_vars => IInv'
  BY NextRegistry, NextRepliesSound, NextListedStay, NextAnswersAreCurrent DEF TableInv
<1> QED
  BY <1>1, <1>2, InitTableInv, NextTableInv, PTL DEF Spec

================================================================================
