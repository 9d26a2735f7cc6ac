------------------------------ MODULE MeshProofs ------------------------------
(***************************************************************************)
(* The peer lists of hosts that know each other follow the hails and       *)
(* farewells of the one that leaves and joins again.                       *)
(***************************************************************************)
EXTENDS MCStateSync, DeliveryProofs

\* A host hails and bids farewell to all others: they are no more than
\* JoinNetwork asks for, and what it sends leaves the host.
AllReached ==
  /\ IsFiniteSet(Node)
  /\ Cardinality(Node \ {n3}) <= RandomPeerCount
  /\ "sendfail" \notin Faults

\* A packet of n3 is on its way to q that q will take.
Announced(type, q) ==
  \E p \in net :
    /\ p.to = q /\ p.msg.sender = n3 /\ p.msg.body.type = type
    /\ ~Seen(p.to, p.msg.id)

\* Every host has the right of n3, or its last word is on its way there; and
\* nothing older is.
Told ==
  /\ joined[n3] =>
       /\ ~InFlight("Farewell")
       /\ \A q \in Node \ {n3} : n3 \in peers[q] \/ Announced("Hail", q)
  /\ ~joined[n3] =>
       /\ ~InFlight("Hail")
       /\ \A q \in Node \ {n3} : n3 \notin peers[q] \/ Announced("Farewell", q)

\* Only n3 comes and goes.
OnlyThirdMoves ==
  \A p \in net : p.msg.body.type \in {"Hail", "Farewell"} => p.msg.sender = n3

MeshInv ==
  /\ Inv
  /\ HeldLive
  /\ peers[n3] = Node \ {n3}
  /\ OnlyThirdMoves
  /\ Told

-----------------------------------------------------------------------------

\* The mesh starts like that.
LEMMA MeshInitHolds ==
  ASSUME MeshInit PROVE MeshInv
PROOF
<1>1. [owner |-> n1, kind |-> light, state |-> off, version |-> 0] \in Data
  BY MeshAssumption DEF Data
<1>2. TypeOK
  BY <1>1 DEF MeshInit, TypeOK
<1>3. UniqueIds /\ NotSentBack /\ OnlyReadableSent /\ OnlyThirdMoves
  BY DEF MeshInit, UniqueIds, NotSentBack, OnlyReadableSent, OnlyThirdMoves
<1>4. NoSelfPeer /\ HeldLive /\ peers[n3] = Node \ {n3}
  BY MeshAssumption DEF MeshInit, NoSelfPeer, HeldLive
<1>5. UnreadableStaysHome
  BY DEF MeshInit, UnreadableStaysHome, Readable, Owns
<1>6. Told
  BY MeshAssumption DEF MeshInit, Told, InFlight
<1> QED
  BY <1>2, <1>3, <1>4, <1>5, <1>6 DEF MeshInv, Inv

\* A step of the mesh is a step of StateSync.
LEMMA MeshStepIsStep ==
  ASSUME [MeshNext]_vars PROVE [Next]_vars
PROOF
<1>1. ASSUME NEW s \in State, PatchStateOwn(n1, d1, s) PROVE Next
  BY <1>1, MeshAssumption DEF Next, UserRequest
<1>2. ASSUME NEW n \in Node, DeleteDevice(n, d1) PROVE Next
  BY <1>2, MeshAssumption DEF Next, UserRequest
<1>3. ASSUME LeaveNetwork(n3) \/ JoinNetwork(n3) PROVE Next
  BY <1>3, MeshAssumption DEF Next, UserRequest
<1>4. ASSUME NEW p \in net, ReceiveMessage(p) \/ DropPacket(p) PROVE Next
  BY <1>4 DEF Next
<1> QED
  BY <1>1, <1>2, <1>3, <1>4 DEF MeshNext

\* A step that neither says anything of n3 nor brings it to anybody.
LEMMA NothingTold ==
  ASSUME MeshInv, Inv', HeldLive', peers' = peers, joined' = joined,
         \A x \in net' : x.msg.body.type \in {"Hail", "Farewell"} => x \in net,
         \A x \in net : x.msg.body.type \in {"Hail", "Farewell"} /\ ~Seen(x.to, x.msg.id)
                          => x \in net' /\ ~Seen(x.to, x.msg.id)'
  PROVE  MeshInv'
PROOF
<1>1. OnlyThirdMoves'
  BY DEF MeshInv, OnlyThirdMoves
<1>2. \A type \in {"Hail", "Farewell"} : InFlight(type)' => InFlight(type)
  BY DEF InFlight
<1>3. ASSUME NEW type \in {"Hail", "Farewell"}, NEW q, Announced(type, q)
      PROVE  Announced(type, q)'
  <2>1. PICK p \in net : /\ p.to = q /\ p.msg.sender = n3 /\ p.msg.body.type = type
                         /\ ~Seen(p.to, p.msg.id)
    BY <1>3 DEF Announced
  <2>2. p \in net' /\ ~Seen(p.to, p.msg.id)'
    BY <2>1
  <2> QED
    BY <2>1, <2>2 DEF Announced
<1>4. Told'
  BY <1>2, <1>3 DEF MeshInv, Told
<1> QED
  BY <1>1, <1>4 DEF MeshInv

-----------------------------------------------------------------------------
(* Receipts.                                                               *)

\* A receipt leaves what the others will know of n3 as it is.
LEMMA ReceiptTells ==
  ASSUME MeshInv, Inv', NEW p \in net, ReceiveMessage(p)
  PROVE  MeshInv'
PROOF
<1> USE DEF MeshInv, Inv
<1>1. /\ net \ {p} \subseteq net'
      /\ \A x \in net' : x.msg.body.type \in {"Hail", "Farewell"} => x \in net
      /\ QuarantineStep(p.to, {p.msg.id})
      /\ HeldLive'
  BY ReceiptDelivers DEF Delivery, ToldOn, QuarantineStep
<1>2. p.to \in Node
  BY DEF TypeOK, Packet
<1>3. \A x \in net : ~Seen(x.to, x.msg.id) /\ (x.to # p.to \/ x.msg.id # p.msg.id)
                       => x \in net' /\ ~Seen(x.to, x.msg.id)'
  BY <1>1, <1>2, NewsStays
<1>4. OnlyThirdMoves'
  BY <1>1 DEF OnlyThirdMoves
<1>5. \A type \in {"Hail", "Farewell"} : InFlight(type)' => InFlight(type)
  BY <1>1 DEF InFlight
<1>6. \A type, q : Announced(type, q) /\ q # p.to => Announced(type, q)'
  <2> SUFFICES ASSUME NEW type, NEW q, Announced(type, q), q # p.to
               PROVE  Announced(type, q)'
    OBVIOUS
  <2>1. PICK x \in net : /\ x.to = q /\ x.msg.sender = n3 /\ x.msg.body.type = type
                         /\ ~Seen(x.to, x.msg.id)
    BY DEF Announced
  <2>2. x \in net' /\ ~Seen(x.to, x.msg.id)'
    BY <1>3, <2>1
  <2> QED
    BY <2>1, <2>2 DEF Announced
<1>7. CASE SaluteOnHail(p)
  <2>1. p.msg.body.type = "Hail" /\ p.msg.sender = n3 /\ p.to # n3
    BY <1>7 DEF SaluteOnHail, Accepts, OnlyThirdMoves, NotSentBack
  <2>2. joined' = joined /\ peers' = [peers EXCEPT ![p.to] = @ \cup {n3}]
    BY <1>7, <2>1 DEF SaluteOnHail
  <2>3. InFlight("Hail") /\ joined[n3]
    BY <2>1 DEF InFlight, Told
  <2>4. /\ peers'[n3] = peers[n3] /\ n3 \in peers'[p.to]
        /\ \A q \in Node \ {p.to} : peers'[q] = peers[q]
    BY <1>2, <2>1, <2>2 DEF TypeOK
  <2>5. Told'
    BY <1>5, <1>6, <2>2, <2>3, <2>4 DEF Told
  <2> QED
    BY <1>1, <1>4, <2>4, <2>5
<1>8. CASE DeletePeer(p)
  <2>1. p.msg.body.type = "Farewell" /\ p.msg.sender = n3 /\ p.to # n3
    BY <1>8 DEF DeletePeer, Accepts, OnlyThirdMoves, NotSentBack
  <2>2. joined' = joined /\ peers' = [peers EXCEPT ![p.to] = @ \ {n3}]
    BY <1>8, <2>1 DEF DeletePeer
  <2>3. InFlight("Farewell") /\ ~joined[n3]
    BY <2>1 DEF InFlight, Told
  <2>4. /\ peers'[n3] = peers[n3] /\ n3 \notin peers'[p.to]
        /\ \A q \in Node \ {p.to} : peers'[q] = peers[q]
    BY <1>2, <2>1, <2>2 DEF TypeOK
  <2>5. Told'
    BY <1>5, <1>6, <2>2, <2>3, <2>4 DEF Told
  <2> QED
    BY <1>1, <1>4, <2>4, <2>5
<1>9. CASE IgnoreSeen(p)
  <2>1. Seen(p.to, p.msg.id) /\ peers' = peers /\ joined' = joined
    BY <1>9 DEF IgnoreSeen
  <2>2. \A x \in net : ~Seen(x.to, x.msg.id) => x \in net' /\ ~Seen(x.to, x.msg.id)'
    BY <1>3, <2>1
  <2> QED
    BY <1>1, <2>1, <2>2, NothingTold
<1>10. CASE p.msg.body.type \in {"Patch", "Sync"} /\ peers' = peers /\ joined' = joined
  <2>1. \A x \in net : x.msg.body.type \in {"Hail", "Farewell"} => x.msg.id # p.msg.id
    BY <1>10 DEF UniqueIds
  <2> QED
    BY <1>1, <1>3, <1>10, <2>1, NothingTold
<1> QED
  BY <1>7, <1>8, <1>9, <1>10
     DEF ReceiveMessage, SaveStateOwn, SaveStateUnreadable, SaveStateRelay, SaveDeviceOwn,
         SaveDeviceNewer, SaveDeviceNotNewer, Accepts

\* So does the loss of a packet.
LEMMA LossTells ==
  ASSUME MeshInv, Inv', NEW p \in net, p.msg.body.type \notin {"Hail", "Farewell"},
         DropPacket(p)
  PROVE  MeshInv'
PROOF
<1> USE DEF MeshInv, Inv
<1>1. /\ Finish(p.to, held[p.to], net \ {p}, TRUE, {})
      /\ peers' = peers /\ joined' = joined
  BY DEF DropPacket
<1> DEFINE none == {}
           cache == held[p.to]
<1>2. /\ p.to \in Node /\ cache \in SUBSET (MsgId \X Node) /\ none \in SUBSET MsgId
      /\ net \ {p} \in SUBSET net /\ {} \in SUBSET Packet
  BY DEF TypeOK, Packet
<1>3. \A i \in MsgId : (\E q \in Node : <<i, q>> \in cache) <=> (Seen(p.to, i) \/ i \in none)
  BY DEF Seen
<1>4. Finish(p.to, cache, net \ {p}, TRUE, {})
  BY <1>1
<1>5. QuarantineStep(p.to, none)
  <2> HIDE DEF cache, none
  <2> QED
    BY <1>2, <1>3, <1>4, FinishQuarantine
<1>6. net' = net \ {p} /\ HeldLive'
  BY <1>1, <1>5 DEF Finish, Sent, QuarantineStep
<1>7. \A x \in net : ~Seen(x.to, x.msg.id) => ~Seen(x.to, x.msg.id)'
  BY <1>2, <1>5, NewsStays
<1> QED
  BY <1>1, <1>6, <1>7, NothingTold

-----------------------------------------------------------------------------
(* Requests.                                                               *)

\* So does a patch.
LEMMA PatchTells ==
  ASSUME MeshInv, Inv', NEW s \in State, PatchStateOwn(n1, d1, s)
  PROVE  MeshInv'
PROOF
<1> USE DEF MeshInv, Inv
<1>1. n1 \in Node /\ d1 \in Device
  BY MeshAssumption
<1> DEFINE new == Patched(n1, d1, s)
<1>2. PICK msgs \in NewMessages(n1, {SyncBody(d1, new)}),
           targets \in RandomPeers(n1, held[n1], ZeroId, RandomPeerCount) :
        Finish(n1, held[n1], net, joined[n1], Packets(targets, msgs))
  BY DEF PatchStateOwn, Request
<1>3. peers' = peers /\ joined' = joined /\ joined[n1] \in BOOLEAN /\ peers[n1] \in SUBSET Node
  BY <1>1 DEF PatchStateOwn, TypeOK
<1>4. new \in Data
  BY <1>1, PatchedTyped DEF PatchStateOwn, Owns
<1>5. {SyncBody(d1, new)} \in SUBSET Body /\ SyncBody(d1, new).type = "Sync"
  BY <1>1, <1>4 DEF SyncBody, Body
<1>6. targets \in SUBSET Node
  BY <1>1, <1>2, <1>3, RandomPeersChosen
<1> HIDE DEF new
<1>7. Packets(targets, msgs) \in SUBSET Packet
  BY <1>1, <1>2, <1>5, <1>6, PacketsTyped
<1>8. \A x \in Packets(targets, msgs) : x.msg.id \notin LiveIds /\ x.msg.body.type = "Sync"
  BY <1>1, <1>2, <1>5, NewMessagesAreNew DEF Packets
<1>9. /\ net \subseteq net'
      /\ net' \subseteq net \cup Packets(targets, msgs)
      /\ QuarantineStep(n1, {})
  BY <1>1, <1>2, <1>3, <1>7, <1>8, RequestDelivers
<1>10. \A x \in net : ~Seen(x.to, x.msg.id) => ~Seen(x.to, x.msg.id)'
  BY <1>1, <1>9, NewsStays
<1>11. HeldLive'
  BY <1>9 DEF QuarantineStep
<1> QED
  BY <1>3, <1>8, <1>9, <1>10, <1>11, NothingTold

\* A word of n3 that goes to all other hosts is news to each of them.
LEMMA AllAreTold ==
  ASSUME MeshInv, AllReached, NEW bodies \in SUBSET Body,
         NEW msgs \in NewMessages(n3, bodies), NEW word \in msgs,
         NEW type, word.body.type = type,
         NEW count \in Nat, Cardinality(Node \ {n3}) <= count,
         NEW targets \in RandomPeers(n3, held[n3], word.id, count),
         Finish(n3, held[n3], net, TRUE, Packets(targets, msgs))
  PROVE  /\ HeldLive'
         /\ \A x \in net' : x \in net \/ (x.msg.sender = n3 /\ x.msg.body \in bodies)
         /\ \A q \in Node \ {n3} : Announced(type, q)'
PROOF
<1> USE DEF MeshInv, Inv
<1>1. n3 \in Node /\ peers[n3] = Node \ {n3} /\ IsFiniteSet(Node \ {n3})
  BY MeshAssumption, FS_RemoveElement DEF AllReached
<1>2. word \in Message /\ word.sender = n3 /\ word.id \in MsgId /\ word.id \notin LiveIds
  BY <1>1, NewMessagesAreNew DEF Message
<1>3. \A q \in Node : <<word.id, q>> \notin held[n3]
  BY <1>1, <1>2 DEF HeldLive
<1>4. {q \in peers[n3] : <<word.id, q>> \notin held[n3]} = Node \ {n3}
  BY <1>1, <1>3
<1>5. targets = Node \ {n3}
  BY <1>1, <1>4, AllPeersChosen
<1>6. Packets(targets, msgs) \in SUBSET Packet
  BY <1>1, <1>5, PacketsTyped
<1>7. \A x \in Packets(targets, msgs) :
        x.msg.id \notin LiveIds /\ x.msg.sender = n3 /\ x.msg.body \in bodies
  BY <1>1, NewMessagesAreNew DEF Packets
<1>8. /\ net' \subseteq net \cup Packets(targets, msgs)
      /\ Packets(targets, msgs) \subseteq net'
      /\ QuarantineStep(n3, {})
  BY <1>1, <1>6, <1>7, RequestDelivers DEF AllReached
<1>9. ASSUME NEW q \in Node \ {n3} PROVE Announced(type, q)'
  <2> DEFINE x == [to |-> q, msg |-> word]
  <2>1. x \in net' /\ x.to = q /\ x.msg = word
    BY <1>5, <1>8 DEF Packets
  <2>2. ~Seen(q, word.id)'
    BY <1>1, <1>2, <1>8, NewIsNews
  <2> HIDE DEF x
  <2>3. ~Seen(x.to, x.msg.id)'
    BY <2>1, <2>2
  <2> QED
    BY <1>2, <2>1, <2>3 DEF Announced
<1>10. HeldLive'
  BY <1>8 DEF QuarantineStep
<1> QED
  BY <1>7, <1>8, <1>9, <1>10

\* A farewell reaches all others.
LEMMA LeaveTells ==
  ASSUME MeshInv, AllReached, Inv', joined[n3], ~InFlight("Hail"), LeaveNetwork(n3)
  PROVE  MeshInv'
PROOF
<1> USE DEF MeshInv, Inv
<1>1. n3 \in Node /\ peers[n3] = Node \ {n3} /\ IsFiniteSet(Node \ {n3})
  BY MeshAssumption, FS_RemoveElement DEF AllReached
<1> DEFINE bodies == {FarewellBody}
<1>2. bodies \in SUBSET Body /\ \A b \in bodies : b.type = "Farewell"
  BY DEF FarewellBody, Body
<1>3. PICK msgs \in NewMessages(n3, bodies) : \E m \in msgs :
        \E targets \in RandomPeers(n3, held[n3], m.id, Cardinality(peers[n3])) :
          Finish(n3, held[n3], net, joined[n3], Packets(targets, msgs))
  BY DEF LeaveNetwork, Request
<1> PICK m \in msgs :
        \E targets \in RandomPeers(n3, held[n3], m.id, Cardinality(peers[n3])) :
          Finish(n3, held[n3], net, joined[n3], Packets(targets, msgs))
  BY <1>3
<1>4. PICK targets \in RandomPeers(n3, held[n3], m.id, Cardinality(peers[n3])) :
        Finish(n3, held[n3], net, joined[n3], Packets(targets, msgs))
  OBVIOUS
<1> HIDE DEF bodies
<1>5. joined[n3]
  OBVIOUS
<1>6. Cardinality(peers[n3]) \in Nat
  BY <1>1, FS_CardinalityType
<1>7. m.body.type = "Farewell"
  BY <1>1, <1>2, NewMessagesAreNew
<1>8. /\ HeldLive'
      /\ \A x \in net' : x \in net \/ (x.msg.sender = n3 /\ x.msg.body \in bodies)
      /\ \A q \in Node \ {n3} : Announced("Farewell", q)'
  <2>1. Sent(joined[n3], Packets(targets, msgs)) = Sent(TRUE, Packets(targets, msgs))
    BY <1>5 DEF Sent
  <2>2. Finish(n3, held[n3], net, TRUE, Packets(targets, msgs))
    BY <1>4, <2>1 DEF Finish
  <2>3. Cardinality(Node \ {n3}) <= Cardinality(peers[n3])
    BY <1>1, <1>6
  <2> QED
    BY ONLY MeshInv, AllReached, <1>2, <1>4, <1>6, <1>7, <2>2, <2>3, AllAreTold
<1>9. peers' = peers /\ ~joined'[n3]
  BY <1>1 DEF LeaveNetwork, TypeOK
<1>10. OnlyThirdMoves' /\ ~InFlight("Hail")'
  BY <1>2, <1>8 DEF OnlyThirdMoves, InFlight
<1> QED
  BY <1>8, <1>9, <1>10 DEF Told

\* A hail reaches all others.
LEMMA JoinTells ==
  ASSUME MeshInv, AllReached, Inv', ~joined[n3], ~InFlight("Farewell"), JoinNetwork(n3)
  PROVE  MeshInv'
PROOF
<1> USE DEF MeshInv, Inv
<1>1. n3 \in Node
  BY MeshAssumption
<1> DEFINE bodies == {HailBody} \cup AllSyncBodies(n3)
<1>2. bodies \in SUBSET Body /\ \A b \in bodies : b.type \in {"Hail", "Sync"}
  BY <1>1, SyncBodiesTyped DEF HailBody, Body, AllSyncBodies, SyncBody
<1>3. PICK msgs \in NewMessages(n3, bodies) :
        \E hail \in {m \in msgs : m.body = HailBody} :
          \E targets \in RandomPeers(n3, held[n3], hail.id, RandomPeerCount) :
            Finish(n3, held[n3], net, TRUE, Packets(targets, msgs))
  BY DEF JoinNetwork
<1> PICK hail \in {m \in msgs : m.body = HailBody} :
        \E targets \in RandomPeers(n3, held[n3], hail.id, RandomPeerCount) :
          Finish(n3, held[n3], net, TRUE, Packets(targets, msgs))
  BY <1>3
<1>4. PICK targets \in RandomPeers(n3, held[n3], hail.id, RandomPeerCount) :
        Finish(n3, held[n3], net, TRUE, Packets(targets, msgs))
  OBVIOUS
<1> HIDE DEF bodies
<1>5. hail \in msgs /\ hail.body.type = "Hail"
  BY DEF HailBody
<1>6. RandomPeerCount \in Nat /\ Cardinality(Node \ {n3}) <= RandomPeerCount
  BY ConstantsAssumption DEF AllReached
<1>7. /\ HeldLive'
      /\ \A x \in net' : x \in net \/ (x.msg.sender = n3 /\ x.msg.body \in bodies)
      /\ \A q \in Node \ {n3} : Announced("Hail", q)'
  BY ONLY MeshInv, AllReached, <1>2, <1>4, <1>5, <1>6, AllAreTold
<1>8. peers' = peers /\ joined'[n3]
  BY <1>1 DEF JoinNetwork, TypeOK
<1>9. OnlyThirdMoves' /\ ~InFlight("Farewell")'
  BY <1>2, <1>7 DEF OnlyThirdMoves, InFlight
<1> QED
  BY <1>7, <1>8, <1>9 DEF Told

-----------------------------------------------------------------------------

\* Together.
LEMMA MeshNextKeepsInv ==
  ASSUME AllReached, MeshInv, [MeshNext]_vars PROVE MeshInv'
PROOF
<1>1. Inv'
  BY MeshStepIsStep, NextKeepsInv DEF MeshInv
<1>2. ASSUME NEW n \in Node, DeleteDevice(n, d1) PROVE MeshInv'
  <2>1. UNCHANGED <<peers, held, joined, net>>
    BY <1>2 DEF DeleteDevice
  <2> QED
    BY <1>1, <2>1, NothingTold DEF MeshInv, HeldLive, LiveIds, Seen
<1>3. CASE UNCHANGED vars
  BY <1>1, <1>3, NothingTold DEF vars, MeshInv, HeldLive, LiveIds, Seen
<1> QED
  BY <1>1, <1>2, <1>3, ReceiptTells, LossTells, PatchTells, LeaveTells, JoinTells DEF MeshNext

\* Every host's peer list agrees with n3 about whether it is connected, once
\* its last hail or farewell has arrived: for any number of hosts that a join
\* reaches at once.
THEOREM PeerListsFollow ==
  ASSUME AllReached
  PROVE  MeshSpec => []PeersFollow
PROOF
<1>1. MeshInit => MeshInv
  BY MeshInitHolds
<1>2. MeshInv /\ [MeshNext]_vars => MeshInv'
  BY MeshNextKeepsInv
<1>3. MeshInv => PeersFollow
  <2>1. \A type, q : Announced(type, q) => InFlight(type)
    BY DEF Announced, InFlight
  <2> QED
    BY <2>1, MeshAssumption DEF MeshInv, Inv, TypeOK, Told, PeersFollow
<1> QED
  BY <1>1, <1>2, <1>3, PTL DEF MeshSpec
=============================================================================
