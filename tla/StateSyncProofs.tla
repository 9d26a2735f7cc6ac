---------------------------- MODULE StateSyncProofs ---------------------------
(***************************************************************************)
(* The invariants of StateSync, for any number of hosts, devices, message  *)
(* ids and peers and under every fault, and that it implements the         *)
(* abstract store of GossipRegister.                                       *)
(***************************************************************************)
EXTENDS StateSync, TLAPS

\* Nobody is in its own peer cache, and no packet tells of an unreadable device.
NoSelfPeer == \A n \in Node : n \notin peers[n]

OnlyReadableSent ==
  \A p \in net : p.msg.body.type = "Sync" => p.msg.body.data.kind # UnknownKind

\* The inductive invariant.
Inv ==
  /\ TypeOK
  /\ UniqueIds
  /\ NotSentBack
  /\ NoSelfPeer
  /\ OnlyReadableSent
  /\ UnreadableStaysHome

\* What a packet is that a step adds to the network: a copy of one that is on
\* its way, or a new message, of a device as some host now stores it.
Relayed(x) ==
  \E p \in net : x.msg = p.msg /\ (x.msg.body.type # "Patch" => x.to # x.msg.sender)

Stored(body) ==
  \E n \in Node, d \in Device :
    /\ db'[n][d] # Absent /\ db'[n][d].kind # UnknownKind
    /\ body = SyncBody(d, db'[n][d])

Fresh(x) ==
  /\ x.msg.id \notin LiveIds
  /\ x.to # x.msg.sender
  /\ x.msg.body.type = "Sync" => Stored(x.msg.body)

NetStep ==
  /\ \A x \in net' : x \in net \/ (x \in Packet /\ (Relayed(x) \/ Fresh(x)))
  /\ \A x, y \in net' : Fresh(x) /\ Fresh(y) /\ x.msg.id = y.msg.id => x.msg = y.msg

-----------------------------------------------------------------------------
(* The operators the actions are built from.                               *)

\* A host picks random peers among those it knows, and none for which it holds
\* the message.
LEMMA RandomPeersChosen ==
  ASSUME NEW n \in Node, NEW cache, NEW id, NEW count,
         NEW targets \in RandomPeers(n, cache, id, count)
  PROVE  targets \subseteq {q \in peers[n] : <<id, q>> \notin cache}
  BY DEF RandomPeers, kSubset

\* New messages have ids that are not in flight, a different one for each body.
LEMMA NewMessagesAreNew ==
  ASSUME NEW n \in Node, NEW bodies \in SUBSET Body,
         NEW msgs \in NewMessages(n, bodies)
  PROVE  /\ \A m \in msgs : /\ m \in Message
                            /\ m.sender = n
                            /\ m.id \notin LiveIds
                            /\ m.body \in bodies
         /\ \A m1, m2 \in msgs : m1.id = m2.id => m1 = m2
PROOF
<1>1. PICK f \in Injection(bodies, MsgId \ LiveIds) :
        msgs = {[id |-> f[b], sender |-> n, body |-> b] : b \in bodies}
  BY DEF NewMessages
<1>2. /\ f \in [bodies -> MsgId \ LiveIds]
      /\ \A a, b \in bodies : f[a] = f[b] => a = b
  BY <1>1 DEF Injection, IsInjective
<1> QED
  BY <1>1, <1>2 DEF Message

\* A handler only adds the packets it sends, and leaves a typed message cache.
LEMMA FinishAdds ==
  ASSUME TypeOK, NEW n \in Node, NEW cache \in SUBSET (MsgId \X Node),
         NEW rest \in SUBSET net, NEW open \in BOOLEAN,
         NEW packets \in SUBSET Packet,
         Finish(n, cache, rest, open, packets)
  PROVE  /\ net' \subseteq net \cup packets
         /\ held' \in [Node -> SUBSET (MsgId \X Node)]
PROOF
<1>1. PICK sent \in Sent(open, packets) :
        /\ net' = rest \cup sent
        /\ held' = [m \in Node |->
             Retain(IF m = n THEN cache \cup {<<p.msg.id, p.to>> : p \in sent} ELSE held[m],
                    rest \cup sent)]
  BY DEF Finish
<1>2. sent \subseteq packets
  BY DEF Sent
<1>3. cache \cup {<<p.msg.id, p.to>> : p \in sent} \in SUBSET (MsgId \X Node)
  BY <1>2 DEF Packet, Message
<1> QED
  BY <1>1, <1>2, <1>3 DEF Retain, TypeOK

\* A delivered packet is removed or not; nothing else happens to the network.
LEMMA DeliveredRest ==
  ASSUME NEW p \in net, NEW rest \in Delivered(p) PROVE rest \in SUBSET net
  BY DEF Delivered

\* The answer to a packet, as any handler's end.
LEMMA ReplyAdds ==
  ASSUME TypeOK, NEW p \in net, NEW packets \in SUBSET Packet, Reply(p, packets)
  PROVE  /\ net' \subseteq net \cup packets
         /\ held' \in [Node -> SUBSET (MsgId \X Node)]
PROOF
<1>1. PICK rest \in Delivered(p) : Finish(p.to, CacheWith(p), rest, TRUE, packets)
  BY DEF Reply
<1>2. p.to \in Node /\ CacheWith(p) \in SUBSET (MsgId \X Node)
  BY DEF TypeOK, Packet, Message, CacheWith
<1> QED
  BY <1>1, <1>2, DeliveredRest, FinishAdds

\* Packets of new messages, and of a message in flight, are packets.
LEMMA PacketsTyped ==
  ASSUME TypeOK, NEW targets \in SUBSET Node
  PROVE  /\ \A p \in net : Packets(targets, {p.msg}) \in SUBSET Packet
         /\ \A n \in Node, bodies \in SUBSET Body :
              \A msgs \in NewMessages(n, bodies) :
                Packets(targets, msgs) \in SUBSET Packet
  BY NewMessagesAreNew DEF TypeOK, Packets, Packet

\* The bodies of sync messages for what a host stores.
LEMMA SyncBodiesTyped ==
  ASSUME TypeOK, NEW n \in Node
  PROVE  AllSyncBodies(n) \in SUBSET Body
  BY DEF TypeOK, AllSyncBodies, SyncBody, Body, Readable

LEMMA PatchedTyped ==
  ASSUME TypeOK, NEW n \in Node, NEW d \in Device, NEW s \in State, db[n][d] # Absent
  PROVE  /\ Patched(n, d, s) \in Data
         /\ Patched(n, d, s).owner = db[n][d].owner
         /\ Patched(n, d, s).kind = db[n][d].kind
PROOF
<1>1. db[n][d] \in Data
  BY DEF TypeOK
<1> QED
  BY <1>1 DEF Patched, Data

-----------------------------------------------------------------------------
(* The three ways in which a step changes the network.                     *)

LEMMA NothingSent ==
  ASSUME net' \subseteq net PROVE NetStep
  BY DEF NetStep, Fresh, LiveIds

\* Passing on a message in flight to peers that are not its sender.
LEMMA MessageRelayed ==
  ASSUME TypeOK, NEW p \in net, NEW targets \in SUBSET Node,
         p.msg.body.type # "Patch" => p.msg.sender \notin targets,
         net' \subseteq net \cup Packets(targets, {p.msg})
  PROVE  NetStep
PROOF
<1>1. \A x \in Packets(targets, {p.msg}) :
        x \in Packet /\ x.msg = p.msg /\ x.to \in targets
  BY DEF Packets, Packet, TypeOK
<1>2. \A x \in net' : x \in net \/ (x \in Packet /\ Relayed(x))
  BY <1>1 DEF Relayed
<1>3. \A x \in net' : x.msg.id \in LiveIds
  BY <1>1 DEF LiveIds
<1> QED
  BY <1>2, <1>3 DEF NetStep, Fresh

\* Sending new messages to other hosts.
LEMMA MessagesCreated ==
  ASSUME NEW n \in Node, NEW bodies \in SUBSET Body,
         NEW msgs \in NewMessages(n, bodies), NEW targets \in SUBSET (Node \ {n}),
         \A b \in bodies : b.type = "Sync" => Stored(b),
         net' \subseteq net \cup Packets(targets, msgs)
  PROVE  NetStep
PROOF
<1>1. \A x \in Packets(targets, msgs) : x \in Packet /\ x.msg \in msgs /\ x.to \in targets
  BY NewMessagesAreNew DEF Packets, Packet
<1>2. \A x \in Packets(targets, msgs) : Fresh(x)
  BY <1>1, NewMessagesAreNew DEF Fresh
<1>3. \A x \in net : ~Fresh(x)
  BY DEF Fresh, LiveIds
<1>4. \A x, y \in net' : Fresh(x) /\ Fresh(y) /\ x.msg.id = y.msg.id => x.msg = y.msg
  BY <1>1, <1>3, NewMessagesAreNew
<1> QED
  BY <1>1, <1>2, <1>4 DEF NetStep

-----------------------------------------------------------------------------
(* Every step is of one of those kinds.                                    *)

LEMMA ReceiveStep ==
  ASSUME Inv, NEW p \in net, ReceiveMessage(p)
  PROVE  NetStep /\ held' \in [Node -> SUBSET (MsgId \X Node)]
PROOF
<1> USE DEF Inv
<1>1. p \in Packet /\ p.to \in Node /\ p.msg \in Message /\ p.msg.sender \in Node
  BY DEF TypeOK, Packet, Message
<1>2. peers[p.to] \subseteq Node \ {p.to}
  BY <1>1 DEF TypeOK, NoSelfPeer
<1>3. ASSUME Reply(p, {}) PROVE NetStep /\ held' \in [Node -> SUBSET (MsgId \X Node)]
  BY <1>3, ReplyAdds, NothingSent
<1>4. ASSUME NEW id, NEW targets \in RandomPeers(p.to, CacheWith(p), id, RandomPeerCount),
             p.msg.body.type # "Patch" => id = p.msg.id,
             Reply(p, Packets(targets, {p.msg}))
      PROVE  NetStep /\ held' \in [Node -> SUBSET (MsgId \X Node)]
  <2>1. targets \subseteq {q \in peers[p.to] : <<id, q>> \notin CacheWith(p)}
    BY <1>1, <1>4, RandomPeersChosen
  <2>2. targets \in SUBSET Node
    BY <1>2, <2>1
  <2>3. p.msg.body.type # "Patch" => p.msg.sender \notin targets
    BY <1>4, <2>1 DEF CacheWith
  <2>4. Packets(targets, {p.msg}) \in SUBSET Packet
    BY <2>2, PacketsTyped
  <2>5. /\ net' \subseteq net \cup Packets(targets, {p.msg})
        /\ held' \in [Node -> SUBSET (MsgId \X Node)]
    BY <1>4, <2>4, ReplyAdds
  <2> QED
    BY <2>2, <2>3, <2>5, MessageRelayed
<1>5. ASSUME NEW bodies \in SUBSET Body, NEW msgs \in NewMessages(p.to, bodies),
             NEW targets \in SUBSET (Node \ {p.to}),
             \A b \in bodies : b.type = "Sync" => Stored(b),
             Reply(p, Packets(targets, msgs))
      PROVE  NetStep /\ held' \in [Node -> SUBSET (MsgId \X Node)]
  <2>1. Packets(targets, msgs) \in SUBSET Packet
    BY <1>1, <1>5, PacketsTyped
  <2> QED
    BY <1>1, <1>5, <2>1, ReplyAdds, MessagesCreated
<1>6. CASE IgnoreSeen(p)
  <2>1. Finish(p.to, held[p.to], net \ {p}, TRUE, {})
    BY <1>6 DEF IgnoreSeen
  <2>2. held[p.to] \in SUBSET (MsgId \X Node)
    BY <1>1 DEF TypeOK
  <2>3. net' \subseteq net /\ held' \in [Node -> SUBSET (MsgId \X Node)]
    <3>1. net \ {p} \in SUBSET net /\ {} \in SUBSET Packet
      OBVIOUS
    <3>2. /\ net' \subseteq net \cup {}
          /\ held' \in [Node -> SUBSET (MsgId \X Node)]
      BY ONLY TypeOK, <1>1, <2>1, <2>2, <3>1, FinishAdds
    <3> QED
      BY <3>2
  <2> QED
    BY <2>3, NothingSent
<1>7. CASE SaluteOnHail(p)
  <2>1. PICK msgs \in NewMessages(p.to, AllSyncBodies(p.to)) :
          Reply(p, Packets({p.msg.sender}, msgs))
    BY <1>7 DEF SaluteOnHail
  <2>2. p.msg.sender # p.to
    BY <1>7 DEF SaluteOnHail, Accepts, NotSentBack
  <2>3. \A b \in AllSyncBodies(p.to) : b.type = "Sync" => Stored(b)
    BY <1>1, <1>7 DEF SaluteOnHail, AllSyncBodies, Stored, Readable
  <2> QED
    BY <1>1, <1>5, <2>1, <2>2, <2>3, SyncBodiesTyped
<1>8. CASE SaveStateOwn(p)
  <2> DEFINE n == p.to
             d == p.msg.body.device
             new == Patched(n, d, p.msg.body.state)
  <2>1. /\ Owns(n, d) /\ Readable(n, d) /\ p.msg.body.type = "Patch"
        /\ db' = [db EXCEPT ![n][d] = new]
    BY <1>8 DEF SaveStateOwn, Accepts
  <2>2. PICK msgs \in NewMessages(n, {SyncBody(d, new)}),
             targets \in RandomPeers(n, CacheWith(p), ZeroId, RandomPeerCount) :
          Reply(p, Packets(targets, msgs))
    BY <1>8 DEF SaveStateOwn
  <2>3. d \in Device /\ p.msg.body.state \in State
    BY <1>1, <2>1 DEF Message, Body
  <2>4. new \in Data /\ new.kind # UnknownKind /\ new # Absent
    BY <1>1, <2>1, <2>3, PatchedTyped, ConstantsAssumption DEF Readable
  <2>5. {SyncBody(d, new)} \in SUBSET Body
    BY <2>3, <2>4 DEF SyncBody, Body
  <2>6. db'[n][d] = new
    BY <1>1, <2>1, <2>3 DEF TypeOK
  <2>7. Stored(SyncBody(d, new))
    BY <1>1, <2>3, <2>4, <2>6 DEF Stored
  <2>8. targets \in SUBSET (Node \ {n})
    BY <1>1, <1>2, <2>2, RandomPeersChosen
  <2> HIDE DEF n, d, new
  <2> QED
    BY <1>5, <2>2, <2>5, <2>7, <2>8 DEF n
<1>9. CASE SaveStateUnreadable(p)
  BY <1>3, <1>9 DEF SaveStateUnreadable
<1>10. CASE SaveStateRelay(p)
  BY <1>4, <1>10 DEF SaveStateRelay, Accepts
<1>11. CASE SaveDeviceOwn(p)
  BY <1>3, <1>11 DEF SaveDeviceOwn
<1>12. CASE SaveDeviceNewer(p)
  BY <1>4, <1>12 DEF SaveDeviceNewer
<1>13. CASE SaveDeviceNotNewer(p)
  <2> DEFINE n == p.to
             d == p.msg.body.device
  <2>1. CASE Readable(n, d)
    <3>1. PICK msgs \in NewMessages(n, {SyncBody(d, db[n][d])}) : \E m \in msgs :
            \E targets \in RandomPeers(n, CacheWith(p), m.id, RandomPeerCount) :
              Reply(p, Packets(targets, msgs))
      BY <1>13, <2>1 DEF SaveDeviceNotNewer
    <3> PICK m \in msgs : \E targets \in RandomPeers(n, CacheWith(p), m.id, RandomPeerCount) :
          Reply(p, Packets(targets, msgs))
      BY <3>1
    <3>2. PICK targets \in RandomPeers(n, CacheWith(p), m.id, RandomPeerCount) :
            Reply(p, Packets(targets, msgs))
      OBVIOUS
    <3>3. d \in Device
      BY <1>1, <1>13 DEF SaveDeviceNotNewer, Accepts, Message, Body
    <3>4. {SyncBody(d, db[n][d])} \in SUBSET Body
      BY <1>1, <2>1, <3>3 DEF TypeOK, Readable, SyncBody, Body
    <3>5. Stored(SyncBody(d, db[n][d]))
      BY <1>1, <1>13, <2>1, <3>3 DEF SaveDeviceNotNewer, Stored, Readable
    <3>6. targets \in SUBSET (Node \ {n})
      BY <1>1, <1>2, <3>2, RandomPeersChosen
    <3> HIDE DEF d
    <3> QED
      BY <1>5, <3>2, <3>4, <3>5, <3>6
  <2>2. CASE ~Readable(n, d)
    BY <1>3, <1>13, <2>2 DEF SaveDeviceNotNewer
  <2> QED
    BY <2>1, <2>2
<1>14. CASE DeletePeer(p)
  BY <1>3, <1>14 DEF DeletePeer
<1> QED
  BY <1>6, <1>7, <1>8, <1>9, <1>10, <1>11, <1>12, <1>13, <1>14 DEF ReceiveMessage

LEMMA UserStep ==
  ASSUME Inv, NEW n \in Node, UserRequest(n)
  PROVE  NetStep /\ held' \in [Node -> SUBSET (MsgId \X Node)]
PROOF
<1> USE DEF Inv
<1>1. /\ peers[n] \subseteq Node \ {n}
      /\ held[n] \in SUBSET (MsgId \X Node)
      /\ joined[n] \in BOOLEAN
      /\ held \in [Node -> SUBSET (MsgId \X Node)]
  BY DEF TypeOK, NoSelfPeer
<1>2. ASSUME NEW bodies \in SUBSET Body, NEW msgs \in NewMessages(n, bodies),
             NEW id, NEW count, NEW targets \in RandomPeers(n, held[n], id, count),
             NEW open \in BOOLEAN,
             \A b \in bodies : b.type = "Sync" => Stored(b),
             Finish(n, held[n], net, open, Packets(targets, msgs))
      PROVE  NetStep /\ held' \in [Node -> SUBSET (MsgId \X Node)]
  <2>1. targets \in SUBSET (Node \ {n})
    BY <1>1, <1>2, RandomPeersChosen
  <2>2. Packets(targets, msgs) \in SUBSET Packet
    BY <1>2, <2>1, PacketsTyped
  <2>3. /\ net' \subseteq net \cup Packets(targets, msgs)
        /\ held' \in [Node -> SUBSET (MsgId \X Node)]
    <3>1. net \in SUBSET net
      OBVIOUS
    <3> QED
      BY ONLY TypeOK, <1>1, <1>2, <2>2, <3>1, FinishAdds
  <2> QED
    BY <1>2, <2>1, <2>3, MessagesCreated
<1>3. ASSUME NEW d \in Device, NEW s \in State, PatchStateOwn(n, d, s)
      PROVE  NetStep /\ held' \in [Node -> SUBSET (MsgId \X Node)]
  <2> DEFINE new == Patched(n, d, s)
  <2>1. /\ Owns(n, d) /\ Readable(n, d)
        /\ db' = [db EXCEPT ![n][d] = new]
    BY <1>3 DEF PatchStateOwn
  <2>2. PICK msgs \in NewMessages(n, {SyncBody(d, new)}),
             targets \in RandomPeers(n, held[n], ZeroId, RandomPeerCount) :
          Finish(n, held[n], net, joined[n], Packets(targets, msgs))
    BY <1>3 DEF PatchStateOwn, Request
  <2>3. new \in Data /\ new.kind # UnknownKind /\ new # Absent
    BY <2>1, PatchedTyped, ConstantsAssumption DEF Readable
  <2>4. {SyncBody(d, new)} \in SUBSET Body
    BY <2>3 DEF SyncBody, Body
  <2>5. db'[n][d] = new
    BY <2>1 DEF TypeOK
  <2>6. Stored(SyncBody(d, new))
    BY <2>3, <2>5 DEF Stored
  <2> HIDE DEF new
  <2> QED
    BY <1>1, <1>2, <2>2, <2>4, <2>6
<1>4. ASSUME NEW d \in Device, NEW s \in State, PatchStateRequest(n, d, s)
      PROVE  NetStep /\ held' \in [Node -> SUBSET (MsgId \X Node)]
  <2>1. PICK msgs \in NewMessages(n, {PatchBody(d, s)}),
             targets \in RandomPeers(n, held[n], ZeroId, RandomPeerCount) :
          Finish(n, held[n], net, joined[n], Packets(targets, msgs))
    BY <1>4 DEF PatchStateRequest, Request
  <2>2. {PatchBody(d, s)} \in SUBSET Body /\ PatchBody(d, s).type = "Patch"
    BY DEF PatchBody, Body
  <2> QED
    BY <1>1, <1>2, <2>1, <2>2
<1>5. CASE JoinNetwork(n)
  <2> DEFINE bodies == {HailBody} \cup AllSyncBodies(n)
  <2>1. PICK msgs \in NewMessages(n, bodies) :
          \E hail \in {m \in msgs : m.body = HailBody} :
            \E targets \in RandomPeers(n, held[n], hail.id, RandomPeerCount) :
              Finish(n, held[n], net, TRUE, Packets(targets, msgs))
    BY <1>5 DEF JoinNetwork
  <2>2. PICK hail \in msgs :
          \E targets \in RandomPeers(n, held[n], hail.id, RandomPeerCount) :
            Finish(n, held[n], net, TRUE, Packets(targets, msgs))
    BY <2>1
  <2>3. bodies \in SUBSET Body
    BY SyncBodiesTyped DEF HailBody, Body
  <2>4. \A b \in bodies : b.type = "Sync" => Stored(b)
    BY <1>5 DEF JoinNetwork, AllSyncBodies, Stored, Readable, HailBody
  <2> HIDE DEF bodies
  <2> QED
    BY <1>2, <2>2, <2>3, <2>4
<1>6. CASE LeaveNetwork(n)
  <2>1. PICK msgs \in NewMessages(n, {FarewellBody}) : \E m \in msgs :
          \E targets \in RandomPeers(n, held[n], m.id, Cardinality(peers[n])) :
            Finish(n, held[n], net, joined[n], Packets(targets, msgs))
    BY <1>6 DEF LeaveNetwork, Request
  <2>2. {FarewellBody} \in SUBSET Body /\ FarewellBody.type = "Farewell"
    BY DEF FarewellBody, Body
  <2> QED
    BY <1>1, <1>2, <2>1, <2>2
<1>7. ASSUME held' = held /\ net' = net
      PROVE  NetStep /\ held' \in [Node -> SUBSET (MsgId \X Node)]
  BY <1>1, <1>7, NothingSent
<1>8. CASE Shutdown(n)
  BY <1>1, <1>8, NothingSent DEF Shutdown
<1>9. ASSUME NEW d \in Device, NEW s \in State, NEW k \in Kind, CreateDevice(n, d, k, s)
      PROVE  held' = held /\ net' = net
  BY <1>9 DEF CreateDevice
<1>10. ASSUME NEW d \in Device, DeleteDevice(n, d) PROVE held' = held /\ net' = net
  BY <1>10 DEF DeleteDevice
<1>11. ASSUME NEW q \in Node \ {n}, AddPeer(n, q) PROVE held' = held /\ net' = net
  BY <1>11 DEF AddPeer
<1> QED
  BY <1>3, <1>4, <1>5, <1>6, <1>7, <1>8, <1>9, <1>10, <1>11 DEF UserRequest

\* What a step does to the network, whichever step it is.
LEMMA NetworkStep ==
  ASSUME Inv, [Next]_vars
  PROVE  NetStep /\ held' \in [Node -> SUBSET (MsgId \X Node)]
PROOF
<1>1. held \in [Node -> SUBSET (MsgId \X Node)]
  BY DEF Inv, TypeOK
<1>2. ASSUME NEW n \in Node, Restart(n)
      PROVE  NetStep /\ held' \in [Node -> SUBSET (MsgId \X Node)]
  BY <1>1, <1>2, NothingSent DEF Restart
<1>3. ASSUME NEW n \in Node, NEW h \in held[n], Expire(n, h)
      PROVE  NetStep /\ held' \in [Node -> SUBSET (MsgId \X Node)]
  BY <1>1, <1>3, NothingSent DEF Expire
<1>4. ASSUME NEW p \in net, DropPacket(p)
      PROVE  NetStep /\ held' \in [Node -> SUBSET (MsgId \X Node)]
  <2>1. p.to \in Node /\ held[p.to] \in SUBSET (MsgId \X Node)
    BY DEF Inv, TypeOK, Packet
  <2>2. net \ {p} \in SUBSET net /\ {} \in SUBSET Packet /\ TypeOK
    BY DEF Inv
  <2>3. Finish(p.to, held[p.to], net \ {p}, TRUE, {})
    BY <1>4 DEF DropPacket
  <2>4. /\ net' \subseteq net \cup {}
        /\ held' \in [Node -> SUBSET (MsgId \X Node)]
    BY ONLY <2>1, <2>2, <2>3, FinishAdds
  <2> QED
    BY <2>4, NothingSent
<1>5. CASE UNCHANGED vars
  BY <1>1, <1>5, NothingSent DEF vars
<1> QED
  BY <1>2, <1>3, <1>4, <1>5, ReceiveStep, UserStep DEF Next

-----------------------------------------------------------------------------
(* What a step does to the hosts.                                          *)

Copies == [Node -> [Device -> Data \cup {Absent}]]

LocalTypes == db \in Copies /\ peers \in [Node -> SUBSET Node] /\ joined \in [Node -> BOOLEAN]

LEMMA ReceiveAtHost ==
  ASSUME Inv, NEW p \in net, ReceiveMessage(p)
  PROVE  LocalTypes' /\ NoSelfPeer' /\ UnreadableStaysHome'
PROOF
<1> USE DEF Inv
<1>1. p \in Packet /\ p.to \in Node /\ p.msg \in Message /\ p.msg.sender \in Node
  BY DEF TypeOK, Packet, Message
<1>2. joined' = joined /\ LocalTypes
  BY DEF ReceiveMessage, IgnoreSeen, SaluteOnHail, SaveStateOwn, SaveStateUnreadable,
         SaveStateRelay, SaveDeviceOwn, SaveDeviceNewer, SaveDeviceNotNewer, DeletePeer,
         LocalTypes, Copies, TypeOK
<1>3. ASSUME db' = db, peers' = peers
      PROVE  LocalTypes' /\ NoSelfPeer' /\ UnreadableStaysHome'
  BY <1>2, <1>3 DEF LocalTypes, NoSelfPeer, UnreadableStaysHome, Readable, Owns
<1>4. CASE SaluteOnHail(p)
  <2>1. p.msg.sender # p.to
    BY <1>4 DEF SaluteOnHail, Accepts, NotSentBack
  <2>2. db' = db /\ peers' = [peers EXCEPT ![p.to] = @ \cup {p.msg.sender}]
    BY <1>4 DEF SaluteOnHail
  <2>3. peers' \in [Node -> SUBSET Node] /\ NoSelfPeer'
    BY <1>1, <1>2, <2>1, <2>2 DEF LocalTypes, NoSelfPeer
  <2> QED
    BY <1>2, <2>2, <2>3 DEF LocalTypes, UnreadableStaysHome, Readable, Owns
<1>5. CASE DeletePeer(p)
  <2>1. db' = db /\ peers' = [peers EXCEPT ![p.to] = @ \ {p.msg.sender}]
    BY <1>5 DEF DeletePeer
  <2>2. peers' \in [Node -> SUBSET Node] /\ NoSelfPeer'
    BY <1>1, <1>2, <2>1 DEF LocalTypes, NoSelfPeer
  <2> QED
    BY <1>2, <2>1, <2>2 DEF LocalTypes, UnreadableStaysHome, Readable, Owns
<1>6. CASE SaveStateOwn(p)
  <2> DEFINE n == p.to
             d == p.msg.body.device
             new == Patched(n, d, p.msg.body.state)
  <2>1. /\ Owns(n, d) /\ Readable(n, d) /\ p.msg.body.type = "Patch"
        /\ db' = [db EXCEPT ![n][d] = new] /\ peers' = peers
    BY <1>6 DEF SaveStateOwn, Accepts
  <2>2. d \in Device /\ p.msg.body.state \in State
    BY <1>1, <2>1 DEF Message, Body
  <2>3. new \in Data /\ new.kind # UnknownKind
    BY <1>1, <2>1, <2>2, PatchedTyped DEF Readable
  <2> HIDE DEF n, d, new
  <2>4. n \in Node
    BY <1>1 DEF n
  <2>5. db' \in Copies
    BY <1>2, <2>1, <2>3 DEF LocalTypes, Copies
  <2>6. UnreadableStaysHome'
    BY <1>2, <2>1, <2>2, <2>3, <2>4
       DEF LocalTypes, Copies, UnreadableStaysHome, Readable, Owns
  <2> QED
    BY <1>2, <2>1, <2>5, <2>6 DEF LocalTypes, NoSelfPeer
<1>7. CASE SaveDeviceNewer(p)
  <2> DEFINE n == p.to
             d == p.msg.body.device
             new == p.msg.body.data
  <2>1. p.msg.body.type = "Sync" /\ db' = [db EXCEPT ![n][d] = new] /\ peers' = peers
    BY <1>7 DEF SaveDeviceNewer, Accepts
  <2>2. d \in Device /\ new \in Data /\ new.kind # UnknownKind
    BY <1>1, <2>1 DEF Message, Body, OnlyReadableSent
  <2> HIDE DEF n, d, new
  <2>3. n \in Node
    BY <1>1 DEF n
  <2>4. db' \in Copies
    BY <1>2, <2>1, <2>2 DEF LocalTypes, Copies
  <2>5. UnreadableStaysHome'
    BY <1>2, <2>1, <2>2, <2>3
       DEF LocalTypes, Copies, UnreadableStaysHome, Readable, Owns
  <2> QED
    BY <1>2, <2>1, <2>4, <2>5 DEF LocalTypes, NoSelfPeer
<1>8. CASE IgnoreSeen(p) \/ SaveStateUnreadable(p) \/ SaveStateRelay(p)
             \/ SaveDeviceOwn(p) \/ SaveDeviceNotNewer(p)
  BY <1>3, <1>8 DEF IgnoreSeen, SaveStateUnreadable, SaveStateRelay, SaveDeviceOwn,
                    SaveDeviceNotNewer
<1> QED
  BY <1>4, <1>5, <1>6, <1>7, <1>8 DEF ReceiveMessage

LEMMA UserAtHost ==
  ASSUME Inv, NEW n \in Node, UserRequest(n)
  PROVE  LocalTypes' /\ NoSelfPeer' /\ UnreadableStaysHome'
PROOF
<1> USE DEF Inv
<1>1. LocalTypes /\ NoSelfPeer /\ UnreadableStaysHome
  BY DEF LocalTypes, Copies, TypeOK
<1>2. ASSUME db' = db, peers' \in [Node -> SUBSET Node], NoSelfPeer',
             joined' \in [Node -> BOOLEAN]
      PROVE  LocalTypes' /\ NoSelfPeer' /\ UnreadableStaysHome'
  BY <1>1, <1>2 DEF LocalTypes, UnreadableStaysHome, Readable, Owns
<1>3. ASSUME NEW d \in Device, NEW new \in Data \cup {Absent},
             new # Absent /\ new.kind = UnknownKind => new.owner = n,
             db' = [db EXCEPT ![n][d] = new], peers' = peers, joined' = joined
      PROVE  LocalTypes' /\ NoSelfPeer' /\ UnreadableStaysHome'
  <2>1. db' \in Copies
    BY <1>1, <1>3 DEF LocalTypes, Copies
  <2>2. UnreadableStaysHome'
    BY <1>1, <1>3 DEF LocalTypes, Copies, UnreadableStaysHome, Readable, Owns
  <2> QED
    BY <1>1, <1>3, <2>1, <2>2 DEF LocalTypes, NoSelfPeer
<1>4. ASSUME NEW d \in Device, NEW s \in State, PatchStateOwn(n, d, s)
      PROVE  LocalTypes' /\ NoSelfPeer' /\ UnreadableStaysHome'
  <2>1. Patched(n, d, s) \in Data /\ Patched(n, d, s).kind # UnknownKind
    BY <1>4, PatchedTyped DEF PatchStateOwn, Readable
  <2> QED
    BY <1>3, <1>4, <2>1 DEF PatchStateOwn
<1>5. ASSUME NEW d \in Device, NEW s \in State, NEW k \in Kind, CreateDevice(n, d, k, s)
      PROVE  LocalTypes' /\ NoSelfPeer' /\ UnreadableStaysHome'
  <2> DEFINE new == [owner |-> n, kind |-> k, state |-> s, version |-> 0]
  <2>1. new \in Data /\ new.owner = n
    BY DEF Data
  <2>2. db' = [db EXCEPT ![n][d] = new] /\ peers' = peers /\ joined' = joined
    BY <1>5 DEF CreateDevice
  <2> HIDE DEF new
  <2> QED
    BY <1>3, <2>1, <2>2
<1>6. ASSUME NEW d \in Device, DeleteDevice(n, d)
      PROVE  LocalTypes' /\ NoSelfPeer' /\ UnreadableStaysHome'
  BY <1>3, <1>6 DEF DeleteDevice
<1>7. ASSUME NEW q \in Node \ {n}, AddPeer(n, q)
      PROVE  LocalTypes' /\ NoSelfPeer' /\ UnreadableStaysHome'
  <2>1. peers' \in [Node -> SUBSET Node] /\ NoSelfPeer' /\ db' = db /\ joined' = joined
    BY <1>1, <1>7 DEF AddPeer, LocalTypes, NoSelfPeer
  <2> QED
    BY <1>1, <1>2, <2>1 DEF LocalTypes
<1>8. ASSUME NEW d \in Device, NEW s \in State, PatchStateRequest(n, d, s)
      PROVE  LocalTypes' /\ NoSelfPeer' /\ UnreadableStaysHome'
  BY <1>1, <1>2, <1>8 DEF PatchStateRequest, LocalTypes, NoSelfPeer
<1>9. CASE JoinNetwork(n) \/ LeaveNetwork(n)
  BY <1>1, <1>2, <1>9 DEF JoinNetwork, LeaveNetwork, LocalTypes, NoSelfPeer
<1>10. CASE Shutdown(n)
  <2>1. peers' \in [Node -> SUBSET Node] /\ NoSelfPeer' /\ db' = db /\ joined' = joined
    BY <1>1, <1>10 DEF Shutdown, LocalTypes, NoSelfPeer
  <2> QED
    BY <1>1, <1>2, <2>1 DEF LocalTypes
<1> QED
  BY <1>4, <1>5, <1>6, <1>7, <1>8, <1>9, <1>10 DEF UserRequest

LEMMA HostStep ==
  ASSUME Inv, [Next]_vars
  PROVE  LocalTypes' /\ NoSelfPeer' /\ UnreadableStaysHome'
PROOF
<1>1. LocalTypes /\ NoSelfPeer /\ UnreadableStaysHome
  BY DEF Inv, LocalTypes, Copies, TypeOK
<1>2. ASSUME NEW n \in Node, Restart(n)
      PROVE  LocalTypes' /\ NoSelfPeer' /\ UnreadableStaysHome'
  <2>1. /\ db' = db
        /\ peers' = [peers EXCEPT ![n] = {}]
        /\ joined' = [joined EXCEPT ![n] = FALSE]
    BY <1>2 DEF Restart
  <2> QED
    BY <1>1, <2>1 DEF LocalTypes, NoSelfPeer, UnreadableStaysHome, Readable, Owns
<1>3. ASSUME UNCHANGED <<db, peers, joined>>
      PROVE  LocalTypes' /\ NoSelfPeer' /\ UnreadableStaysHome'
  BY <1>1, <1>3 DEF LocalTypes, NoSelfPeer, UnreadableStaysHome, Readable, Owns
<1>4. ASSUME NEW n \in Node, NEW h \in held[n], Expire(n, h)
      PROVE  UNCHANGED <<db, peers, joined>>
  BY <1>4 DEF Expire
<1>5. ASSUME NEW p \in net, DropPacket(p) PROVE UNCHANGED <<db, peers, joined>>
  BY <1>5 DEF DropPacket
<1>6. CASE UNCHANGED vars
  BY <1>3, <1>6 DEF vars
<1> QED
  BY <1>2, <1>3, <1>4, <1>5, <1>6, ReceiveAtHost, UserAtHost DEF Next

-----------------------------------------------------------------------------
(* The invariants.                                                         *)

LEMMA NextKeepsInv ==
  ASSUME Inv, [Next]_vars PROVE Inv'
PROOF
<1>1. NetStep /\ held' \in [Node -> SUBSET (MsgId \X Node)]
  BY NetworkStep
<1>2. LocalTypes' /\ NoSelfPeer' /\ UnreadableStaysHome'
  BY HostStep
<1>3. net \in SUBSET Packet
  BY DEF Inv, TypeOK
<1>4. TypeOK'
  BY <1>1, <1>2, <1>3 DEF NetStep, LocalTypes, Copies, TypeOK
<1>5. UniqueIds'
  <2>1. \A x \in net' : x \notin net /\ ~Fresh(x) => \E p \in net : x.msg = p.msg
    BY <1>1 DEF NetStep, Relayed
  <2>2. \A x \in net' : ~Fresh(x) => \E p \in net : x.msg = p.msg
    BY <2>1
  <2>3. \A x \in net' : Fresh(x) => \A p \in net : p.msg.id # x.msg.id
    BY DEF Fresh, LiveIds
  <2> QED
    BY <1>1, <2>2, <2>3 DEF NetStep, UniqueIds, Inv
<1>6. NotSentBack'
  BY <1>1 DEF NetStep, Relayed, Fresh, NotSentBack, Inv
<1>7. OnlyReadableSent'
  <2>1. \A x \in net' : Fresh(x) /\ x.msg.body.type = "Sync"
                           => x.msg.body.data.kind # UnknownKind
    <3> SUFFICES ASSUME NEW x \in net', Fresh(x), x.msg.body.type = "Sync"
                 PROVE  x.msg.body.data.kind # UnknownKind
      OBVIOUS
    <3>1. PICK n \in Node, d \in Device :
            db'[n][d].kind # UnknownKind /\ x.msg.body = SyncBody(d, db'[n][d])
      BY DEF Fresh, Stored
    <3>2. x.msg.body.data = db'[n][d]
      BY <3>1 DEF SyncBody
    <3> QED
      BY <3>1, <3>2
  <2>2. \A x \in net' : Relayed(x) /\ x.msg.body.type = "Sync"
                           => x.msg.body.data.kind # UnknownKind
    BY DEF Relayed, OnlyReadableSent, Inv
  <2> QED
    BY <1>1, <2>1, <2>2 DEF NetStep, OnlyReadableSent, Inv
<1> QED
  BY <1>2, <1>4, <1>5, <1>6, <1>7 DEF Inv

\* Everything in Inv holds in every reachable state.
THEOREM Invariance == Spec => []Inv
PROOF
<1>1. Init => Inv
  <2> SUFFICES ASSUME Init PROVE Inv
    OBVIOUS
  <2>1. TypeOK
    BY DEF Init, TypeOK
  <2>2. UniqueIds /\ NotSentBack /\ OnlyReadableSent
    BY DEF Init, UniqueIds, NotSentBack, OnlyReadableSent
  <2>3. NoSelfPeer /\ UnreadableStaysHome
    BY DEF Init, NoSelfPeer, UnreadableStaysHome
  <2> QED
    BY <2>1, <2>2, <2>3 DEF Inv
<1>2. Inv /\ [Next]_vars => Inv'
  BY NextKeepsInv
<1> QED
  BY <1>1, <1>2, PTL DEF Spec

\* The state of hosts and network keeps its shape.
THEOREM TypeCorrect == Spec => []TypeOK
PROOF
<1>1. Inv => TypeOK
  BY DEF Inv
<1> QED
  BY <1>1, Invariance, PTL

\* An id in flight names one message, whoever passes it on.
THEOREM IdsAreUnique == Spec => []UniqueIds
PROOF
<1>1. Inv => UniqueIds
  BY DEF Inv
<1> QED
  BY <1>1, Invariance, PTL

\* No host is sent its own announcement back.
THEOREM NeverSentBack == Spec => []NotSentBack
PROOF
<1>1. Inv => NotSentBack
  BY DEF Inv
<1> QED
  BY <1>1, Invariance, PTL

\* A device that cannot be read stays with the host that made it.
THEOREM UnreadableIsLocal == Spec => []UnreadableStaysHome
PROOF
<1>1. Inv => UnreadableStaysHome
  BY DEF Inv
<1> QED
  BY <1>1, Invariance, PTL

-----------------------------------------------------------------------------
(* The refinement.  A step that only moves packets, or that changes no     *)
(* copy, is Tell; the others are the abstract step of their name.          *)

\* What is reported after a step is reported before, stored somewhere, or new.
LEMMA StepCirculates ==
  ASSUME Inv, NetStep,
         NEW fresh,
         \A n \in Node, d \in Device :
           db'[n][d] = db[n][d] \/ [device |-> d, data |-> db'[n][d]] \in Reports \cup fresh
             \/ db'[n][d] = Absent
  PROVE  R!Circulate(fresh)
PROOF
<1> SUFFICES ASSUME NEW x \in net', x.msg.body.type = "Sync"
             PROVE  [device |-> x.msg.body.device, data |-> x.msg.body.data]
                      \in Reports \cup R!CopyReports \cup fresh
  BY DEF R!Circulate, Reports
<1>1. CASE \E p \in net : x.msg = p.msg
  BY <1>1 DEF Reports
<1>2. CASE Fresh(x)
  <2>1. PICK n \in Node, d \in Device :
          db'[n][d] # Absent /\ x.msg.body = SyncBody(d, db'[n][d])
    BY <1>2 DEF Fresh, Stored
  <2>2. x.msg.body.device = d /\ x.msg.body.data = db'[n][d]
    BY <2>1 DEF SyncBody
  <2>3. CASE db'[n][d] = db[n][d]
    BY <2>1, <2>2, <2>3 DEF R!CopyReports
  <2>4. CASE [device |-> d, data |-> db'[n][d]] \in Reports \cup fresh
    BY <2>2, <2>4
  <2> QED
    BY <2>1, <2>3, <2>4
<1> QED
  BY <1>1, <1>2 DEF NetStep, Relayed

LEMMA StepRefines ==
  ASSUME Inv, [Next]_vars PROVE [R!Next]_(R!vars)
PROOF
<1>1. NetStep /\ db \in Copies
  BY NetworkStep DEF Inv, TypeOK, Copies
<1>2. ASSUME db' = db PROVE R!Next
  <2>1. R!Circulate({})
    BY <1>1, <1>2, StepCirculates
  <2> QED
    BY <1>2, <2>1 DEF R!Next, R!Tell
<1>3. ASSUME NEW n \in Node, NEW d \in Device, NEW s \in State,
             Owns(n, d), db' = [db EXCEPT ![n][d] = Patched(n, d, s)]
      PROVE  R!Next
  <2>1. Patched(n, d, s) = R!Written(db[n][d], s)
    BY DEF Patched, R!Written
  <2>2. R!Circulate({[device |-> d, data |-> R!Written(db[n][d], s)]})
    BY <1>1, <1>3, <2>1, StepCirculates DEF Copies
  <2>3. R!Write(n, d, s)
    BY <1>3, <2>1, <2>2 DEF R!Write, Owns
  <2> QED
    BY <2>3 DEF R!Next
<1>4. ASSUME NEW p \in net, SaveStateOwn(p) PROVE R!Next
  <2>1. p.to \in Node /\ p.msg.body.device \in Device /\ p.msg.body.state \in State
    BY <1>4 DEF SaveStateOwn, Accepts, Inv, TypeOK, Packet, Message, Body
  <2> QED
    BY <1>3, <1>4, <2>1 DEF SaveStateOwn
<1>5. ASSUME NEW p \in net, SaveDeviceNewer(p) PROVE R!Next
  <2> DEFINE n == p.to
             d == p.msg.body.device
             r == [device |-> d, data |-> p.msg.body.data]
  <2>1. n \in Node /\ d \in Device /\ r \in Reports
    BY <1>5 DEF SaveDeviceNewer, Accepts, Inv, TypeOK, Packet, Message, Body, Reports
  <2>2. /\ db' = [db EXCEPT ![n][d] = r.data]
        /\ ~Owns(n, d)
        /\ NewerThanStored(n, d, r.data.version)
    BY <1>5 DEF SaveDeviceNewer
  <2>3. r.device = d
    OBVIOUS
  <2>4. r = [device |-> d, data |-> r.data]
    OBVIOUS
  <2> HIDE DEF n, d, r
  <2>5. \A m \in Node, e \in Device :
          db'[m][e] = IF m = n /\ e = d THEN r.data ELSE db[m][e]
    BY <1>1, <2>1, <2>2 DEF Copies
  <2>6. R!Circulate({})
    BY <1>1, <2>1, <2>4, <2>5, StepCirculates
  <2>7. db[n][d] = Absent \/ (db[n][d].owner # n /\ db[n][d].version < r.data.version)
    <3>1. db[n][d] # Absent => db[n][d].version \in Nat /\ r.data.version \in Nat
      <4>1. r.data \in Data
        BY <1>5 DEF SaveDeviceNewer, Accepts, Inv, TypeOK, Packet, Message, Body, r
      <4> QED
        BY <1>1, <2>1, <4>1 DEF Copies, Data
    <3> QED
      BY <2>2, <3>1 DEF Owns, NewerThanStored
  <2>8. R!Learn(n, r)
    BY <2>1, <2>2, <2>3, <2>6, <2>7 DEF R!Learn
  <2> QED
    BY <2>1, <2>8 DEF R!Next
<1>6. ASSUME NEW p \in net, ReceiveMessage(p) PROVE R!Next
  BY <1>2, <1>4, <1>5, <1>6
     DEF ReceiveMessage, IgnoreSeen, SaluteOnHail, SaveStateUnreadable, SaveStateRelay,
         SaveDeviceOwn, SaveDeviceNotNewer, DeletePeer
<1>7. ASSUME NEW n \in Node, NEW d \in Device, NEW s \in State, NEW k \in Kind,
             CreateDevice(n, d, k, s)
      PROVE  R!Next
  <2>1. net' = net /\ Reports' = Reports
    BY <1>7 DEF CreateDevice, Reports
  <2>2. R!Create(n, d, k, s)
    BY <1>7, <2>1 DEF CreateDevice, R!Create, R!Circulate
  <2> QED
    BY <2>2 DEF R!Next
<1>8. ASSUME NEW n \in Node, NEW d \in Device, DeleteDevice(n, d)
      PROVE  R!Next
  <2>1. net' = net /\ Reports' = Reports
    BY <1>8 DEF DeleteDevice, Reports
  <2>2. R!Forget(n, d)
    BY <1>8, <2>1 DEF DeleteDevice, Owns, R!Forget, R!Circulate
  <2> QED
    BY <2>2 DEF R!Next
<1>9. ASSUME NEW n \in Node, UserRequest(n) PROVE R!Next
  BY <1>2, <1>3, <1>7, <1>8, <1>9
     DEF UserRequest, PatchStateOwn, PatchStateRequest, AddPeer, JoinNetwork, LeaveNetwork,
         Shutdown
<1>10. ASSUME NEW n \in Node, Restart(n) PROVE R!Next
  BY <1>2, <1>10 DEF Restart
<1>11. ASSUME NEW n \in Node, NEW h \in held[n], Expire(n, h) PROVE R!Next
  BY <1>2, <1>11 DEF Expire
<1>12. ASSUME NEW p \in net, DropPacket(p) PROVE R!Next
  BY <1>2, <1>12 DEF DropPacket
<1>13. CASE UNCHANGED vars
  BY <1>2, <1>13 DEF vars
<1> QED
  BY <1>6, <1>9, <1>10, <1>11, <1>12, <1>13 DEF Next

\* StateSync implements the abstract store, whatever the network does.
THEOREM Refinement == Spec => ImplementsRegister
PROOF
<1>1. Init => R!Init
  BY DEF Init, R!Init, Reports
<1>2. Inv /\ [Next]_vars => [R!Next]_(R!vars)
  BY StepRefines
<1> QED
  BY <1>1, <1>2, Invariance, PTL DEF Spec, ImplementsRegister, R!Spec

-----------------------------------------------------------------------------
(* What the abstract store promises, StateSync keeps.                      *)

A == INSTANCE GossipRegisterProofs WITH copy <- db, gossip <- Reports

LEMMA ImplementsA == Spec => A!Spec
PROOF
<1>1. ImplementsRegister <=> A!Spec
  BY DEF ImplementsRegister, R!Spec, A!Spec, R!Init, A!Init, R!Next, A!Next, R!vars, A!vars,
         R!Create, A!Create, R!Write, A!Write, R!Learn, A!Learn, R!Forget, A!Forget,
         R!Tell, A!Tell, R!Circulate, A!Circulate, R!CopyReports, A!CopyReports,
         R!Written, A!Written
<1> QED
  BY <1>1, Refinement, PTL

LEMMA AbstractInv == Spec => []A!Inv
PROOF
<1>1. Absent \notin Data
  BY ConstantsAssumption
<1>2. Absent \notin A!Data
  BY <1>1 DEF Data, A!Data
<1>3. A!Spec => []A!Inv
  BY <1>2, A!Safety
<1> QED
  BY <1>3, ImplementsA, PTL

\* The abstract invariant holds from any state on that it holds in.
LEMMA StepKeepsRegister ==
  ASSUME Inv, A!Inv, [Next]_vars PROVE A!Inv'
PROOF
<1>1. [R!Next]_(R!vars)
  BY StepRefines
<1>2. [A!Next]_(A!vars)
  BY <1>1
     DEF R!Next, A!Next, R!vars, A!vars, R!Create, A!Create, R!Write, A!Write, R!Learn, A!Learn,
         R!Forget, A!Forget, R!Tell, A!Tell, R!Circulate, A!Circulate,
         R!CopyReports, A!CopyReports, R!Written, A!Written
<1>3. TypeOK'
  BY NextKeepsInv DEF Inv
<1>4. A!TypeOK'
  <2>1. \A p \in net' : p.msg.body.type = "Sync" =>
          [device |-> p.msg.body.device, data |-> p.msg.body.data] \in A!Report
    BY <1>3 DEF TypeOK, Packet, Message, Body, Data, A!Data, A!Report
  <2>2. Reports' \in SUBSET A!Report
    BY <2>1 DEF Reports
  <2> QED
    BY <1>3, <2>2 DEF TypeOK, A!TypeOK, Data, A!Data
<1>5. Absent \notin A!Data
  BY ConstantsAssumption DEF Data, A!Data
<1> QED
  BY <1>2, <1>4, <1>5, A!NextKeepsInv

\* Nobody is ahead of the owner of a device: only its owner makes versions.
THEOREM OwnerNewest == Spec => []OwnerIsNewest
PROOF
<1>1. A!Inv => OwnerIsNewest
  BY DEF A!Inv, OwnerIsNewest, R!OwnerIsNewest, A!OwnerIsNewest, R!Known, A!Known,
         R!CopyReports, A!CopyReports
<1> QED
  BY <1>1, AbstractInv, PTL

\* Equal versions of a device are equal states of it, everywhere.
THEOREM VersionsIdentify == Spec => []OneStatePerVersion
PROOF
<1>1. A!Inv => OneStatePerVersion
  BY DEF A!Inv, OneStatePerVersion, R!OneStatePerVersion, A!OneStatePerVersion,
         R!Known, A!Known, R!CopyReports, A!CopyReports
<1> QED
  BY <1>1, AbstractInv, PTL

\* A host replaces what it knows only by something newer.
THEOREM NoRegress == Spec => NeverRegress
PROOF
<1>1. Absent \notin Data
  BY ConstantsAssumption
<1>2. Absent \notin A!Data
  BY <1>1 DEF Data, A!Data
<1>3. A!Spec => A!NeverRegress
  BY <1>2, A!NoRegress
<1>4. A!NeverRegress => NeverRegress
  BY DEF A!NeverRegress, NeverRegress, R!NeverRegress, A!vars, R!vars
<1> QED
  BY <1>3, <1>4, ImplementsA, PTL
=============================================================================
