---------------------------- MODULE DeliveryProofs ----------------------------
(***************************************************************************)
(* Which messages a host still takes: what each step of StateSync does to  *)
(* the packets in flight and to the messages in quarantine.  The proofs    *)
(* about what reaches whom rest on this.                                   *)
(***************************************************************************)
EXTENDS StateSyncProofs, FiniteSetTheorems

\* A message cache holds messages that are in flight and no others, so that a
\* new message is news to every host.
HeldLive == \A n \in Node : \A h \in held[n] : h[1] \in LiveIds

\* After a step of host n that deals with the messages "ids", it has seen them,
\* and what it has made itself; nobody has seen anything else, and nobody forgot
\* a message that is still in flight.
QuarantineStep(n, ids) ==
  /\ HeldLive'
  /\ \A m \in Node, i \in MsgId :
       Seen(m, i)' => Seen(m, i) \/ (m = n /\ (i \in ids \/ i \notin LiveIds))
  /\ \A m \in Node, i \in LiveIds' : Seen(m, i) \/ (m = n /\ i \in ids) => Seen(m, i)'

-----------------------------------------------------------------------------
(* The operators of StateSync.                                             *)

\* A host with few enough peers sends to all for which it does not hold the
\* message.
LEMMA AllPeersChosen ==
  ASSUME NEW n \in Node, NEW cache, NEW id, NEW count \in Nat, IsFiniteSet(peers[n]),
         NEW targets \in RandomPeers(n, cache, id, count),
         Cardinality({q \in peers[n] : <<id, q>> \notin cache}) <= count
  PROVE  targets = {q \in peers[n] : <<id, q>> \notin cache}
PROOF
<1> DEFINE safe == {q \in peers[n] : <<id, q>> \notin cache}
<1>1. safe \in SUBSET peers[n]
  OBVIOUS
<1>2. IsFiniteSet(safe) /\ Cardinality(safe) \in Nat
  BY <1>1, FS_Subset, FS_CardinalityType
<1>3. targets \in SUBSET safe /\ Cardinality(targets) = Cardinality(safe)
  BY <1>2 DEF RandomPeers, kSubset
<1> HIDE DEF safe
<1>4. targets = safe
  BY <1>2, <1>3, FS_Subset
<1> QED
  BY <1>4 DEF safe

\* One body makes one new message.
LEMMA OneNewMessage ==
  ASSUME NEW n \in Node, NEW body \in Body, NEW msgs \in NewMessages(n, {body})
  PROVE  \E m \in Message : /\ msgs = {m} /\ m.sender = n /\ m.body = body
                            /\ m.id \notin LiveIds
PROOF
<1>1. PICK f \in Injection({body}, MsgId \ LiveIds) :
        msgs = {[id |-> f[b], sender |-> n, body |-> b] : b \in {body}}
  BY DEF NewMessages
<1>2. f[body] \in MsgId \ LiveIds
  BY <1>1 DEF Injection
<1> DEFINE m == [id |-> f[body], sender |-> n, body |-> body]
<1>3. m \in Message /\ msgs = {m}
  BY <1>1, <1>2 DEF Message
<1> QED
  BY <1>2, <1>3

\* What the end of a handler does to the messages in quarantine: "cache" is the
\* message cache of n with the messages "ids" in it.
LEMMA FinishQuarantine ==
  ASSUME TypeOK, HeldLive, NEW n \in Node, NEW rest \in SUBSET net, NEW open,
         NEW packets \in SUBSET Packet,
         NEW cache \in SUBSET (MsgId \X Node), NEW ids \in SUBSET MsgId,
         \A i \in MsgId : (\E q \in Node : <<i, q>> \in cache) <=> (Seen(n, i) \/ i \in ids),
         \A x \in packets : x.msg.id \in ids \/ x.msg.id \notin LiveIds,
         Finish(n, cache, rest, open, packets)
  PROVE  QuarantineStep(n, ids)
PROOF
<1>1. PICK sent \in Sent(open, packets) :
        /\ net' = rest \cup sent
        /\ held' = [m \in Node |->
             Retain(IF m = n THEN cache \cup {<<p.msg.id, p.to>> : p \in sent} ELSE held[m],
                    rest \cup sent)]
  BY DEF Finish
<1>2. sent \subseteq packets
  BY DEF Sent
<1> DEFINE added == {<<x.msg.id, x.to>> : x \in sent}
           before(m) == IF m = n THEN cache \cup added ELSE held[m]
<1>3. \A m \in Node : held'[m] = {h \in before(m) : h[1] \in LiveIds'}
  BY <1>1 DEF Retain, LiveIds
<1>4. \A i \in MsgId : (\E q \in Node : <<i, q>> \in before(n))
                         <=> (Seen(n, i) \/ i \in ids \/ \E x \in sent : x.msg.id = i)
  <2>1. \A x \in sent : x.to \in Node /\ <<x.msg.id, x.to>> \in added
    BY <1>2 DEF Packet
  <2>2. \A i \in MsgId : (\E q \in Node : <<i, q>> \in added) <=> \E x \in sent : x.msg.id = i
    <3>1. ASSUME NEW i \in MsgId, NEW q \in Node, <<i, q>> \in added
          PROVE  \E x \in sent : x.msg.id = i
      BY <3>1
    <3> QED
      BY <2>1, <3>1
  <2> QED
    BY <2>2
<1>5. \A m \in Node, i \in MsgId :
        Seen(m, i)' <=> i \in LiveIds' /\ \E q \in Node : <<i, q>> \in before(m)
  <2> SUFFICES ASSUME NEW m \in Node, NEW i \in MsgId
               PROVE  Seen(m, i)' <=> i \in LiveIds' /\ \E q \in Node : <<i, q>> \in before(m)
    OBVIOUS
  <2> HIDE DEF before
  <2>1. \A q \in Node : <<i, q>> \in held'[m] <=> <<i, q>> \in before(m) /\ i \in LiveIds'
    BY <1>3
  <2> QED
    BY <2>1 DEF Seen
<1>6. HeldLive'
  BY <1>3 DEF HeldLive
<1>7. \A m \in Node \ {n}, i \in MsgId : (\E q \in Node : <<i, q>> \in before(m)) <=> Seen(m, i)
  BY DEF Seen
<1>8. LiveIds' \subseteq MsgId
  BY <1>1, <1>2 DEF LiveIds, TypeOK, Packet, Message
<1> HIDE DEF before
<1> QED
  BY <1>2, <1>4, <1>5, <1>6, <1>7, <1>8 DEF QuarantineStep

\* The messages in the message cache when p is being handled.
LEMMA CacheWithSeen ==
  ASSUME TypeOK, NEW p \in net
  PROVE  /\ CacheWith(p) \in SUBSET (MsgId \X Node)
         /\ \A i \in MsgId : (\E q \in Node : <<i, q>> \in CacheWith(p))
                               <=> (Seen(p.to, i) \/ i \in {p.msg.id})
PROOF
<1>1. p.to \in Node /\ p.msg.id \in MsgId /\ p.msg.sender \in Node
  BY DEF TypeOK, Packet, Message
<1>2. CacheWith(p) \in SUBSET (MsgId \X Node)
  BY <1>1 DEF TypeOK, CacheWith
<1>3. \A i \in MsgId, q \in Node :
        <<i, q>> \in CacheWith(p)
          <=> <<i, q>> \in held[p.to] \/ (i = p.msg.id /\ q = p.msg.sender)
  BY DEF CacheWith
<1> QED
  BY <1>1, <1>2, <1>3 DEF Seen

\* What a handler does that is started by a packet.
LEMMA ReplyDelivers ==
  ASSUME TypeOK, HeldLive, NEW p \in net, NEW packets \in SUBSET Packet,
         \A x \in packets : x.msg = p.msg \/ x.msg.id \notin LiveIds,
         Reply(p, packets)
  PROVE  /\ net \ {p} \subseteq net'
         /\ net' \subseteq net \cup packets
         /\ "sendfail" \notin Faults => packets \subseteq net'
         /\ QuarantineStep(p.to, {p.msg.id})
PROOF
<1>1. PICK rest \in Delivered(p) : Finish(p.to, CacheWith(p), rest, TRUE, packets)
  BY DEF Reply
<1>2. net \ {p} \subseteq rest /\ rest \in SUBSET net
  BY DEF Delivered
<1>3. p.to \in Node /\ {p.msg.id} \in SUBSET MsgId
  BY DEF TypeOK, Packet, Message
<1>4. QuarantineStep(p.to, {p.msg.id})
  BY <1>1, <1>2, <1>3, CacheWithSeen, FinishQuarantine
<1>5. /\ rest \subseteq net'
      /\ net' \subseteq rest \cup packets
      /\ "sendfail" \notin Faults => net' = rest \cup packets
  BY <1>1 DEF Finish, Sent
<1> QED
  BY <1>2, <1>4, <1>5

\* What a request does that sends new messages.
LEMMA RequestDelivers ==
  ASSUME TypeOK, HeldLive, NEW n \in Node, NEW open \in BOOLEAN,
         NEW packets \in SUBSET Packet,
         \A x \in packets : x.msg.id \notin LiveIds,
         Finish(n, held[n], net, open, packets)
  PROVE  /\ net \subseteq net'
         /\ net' \subseteq net \cup packets
         /\ open /\ "sendfail" \notin Faults => packets \subseteq net'
         /\ QuarantineStep(n, {})
PROOF
<1>1. held[n] \in SUBSET (MsgId \X Node)
  BY DEF TypeOK
<1>2. /\ net \subseteq net'
      /\ net' \subseteq net \cup packets
      /\ open /\ "sendfail" \notin Faults => packets \subseteq net'
  BY DEF Finish, Sent
<1> DEFINE cache == held[n]
           none == {}
<1>3. \A i \in MsgId : (\E q \in Node : <<i, q>> \in cache) <=> (Seen(n, i) \/ i \in none)
  BY DEF Seen
<1>4. /\ net \in SUBSET net /\ none \in SUBSET MsgId
      /\ \A x \in packets : x.msg.id \in none \/ x.msg.id \notin LiveIds
  OBVIOUS
<1>5. cache \in SUBSET (MsgId \X Node) /\ Finish(n, cache, net, open, packets)
  BY <1>1
<1>6. QuarantineStep(n, none)
  <2> HIDE DEF cache, none
  <2> QED
    BY <1>3, <1>4, <1>5, FinishQuarantine
<1> QED
  BY <1>2, <1>6

-----------------------------------------------------------------------------
(* Every receipt is of that kind.                                          *)

\* What a host tells of its own accord when it handles p is what it stores, of
\* the device that p is about if it is a patch or a sync.
ToldOn(p, body) ==
  /\ body.type = "Sync"
  /\ p.msg.body.type \in {"Patch", "Sync"} =>
       body = SyncBody(p.msg.body.device, db'[p.to][p.msg.body.device])

\* Whatever a host does with a packet p, all others stay in flight, p's message
\* is in quarantine while it is in flight, and the host passes on p's message,
\* if it is a patch or a sync, or sends sync messages of its own.
Delivery(p) ==
  /\ net \ {p} \subseteq net'
  /\ \A x \in net' :
       \/ x \in net
       \/ x.msg = p.msg /\ p.msg.body.type \in {"Patch", "Sync"}
       \/ x.msg.id \notin LiveIds /\ x.msg.sender = p.to /\ ToldOn(p, x.msg.body)
  /\ QuarantineStep(p.to, {p.msg.id})

\* The receipts, one after the other.
LEMMA ReceiptDelivers ==
  ASSUME Inv, HeldLive, NEW p \in net, ReceiveMessage(p)
  PROVE  Delivery(p)
PROOF
<1> USE DEF Inv
<1>1. p \in Packet /\ p.to \in Node /\ p.msg \in Message /\ p.msg.sender \in Node
  BY DEF TypeOK, Packet, Message
<1>2. peers[p.to] \in SUBSET Node
  BY <1>1 DEF TypeOK
<1>3. ASSUME Reply(p, {}) PROVE Delivery(p)
  <2>1. /\ net \ {p} \subseteq net' /\ net' \subseteq net \cup {}
        /\ QuarantineStep(p.to, {p.msg.id})
    BY <1>3, ReplyDelivers
  <2> QED
    BY <2>1 DEF Delivery
<1>4. ASSUME NEW id, NEW targets \in RandomPeers(p.to, CacheWith(p), id, RandomPeerCount),
             p.msg.body.type \in {"Patch", "Sync"},
             Reply(p, Packets(targets, {p.msg}))
      PROVE  Delivery(p)
  <2>1. targets \in SUBSET Node
    BY <1>1, <1>2, <1>4, RandomPeersChosen
  <2>2. Packets(targets, {p.msg}) \in SUBSET Packet
    BY <2>1, PacketsTyped
  <2>3. \A x \in Packets(targets, {p.msg}) : x.msg = p.msg
    BY DEF Packets
  <2> QED
    BY <1>4, <2>2, <2>3, ReplyDelivers DEF Delivery
<1>5. ASSUME NEW bodies \in SUBSET Body, NEW msgs \in NewMessages(p.to, bodies),
             NEW targets \in SUBSET Node, \A b \in bodies : ToldOn(p, b),
             Reply(p, Packets(targets, msgs))
      PROVE  Delivery(p)
  <2>1. Packets(targets, msgs) \in SUBSET Packet
    BY <1>1, <1>5, PacketsTyped
  <2>2. \A x \in Packets(targets, msgs) :
          x.msg.id \notin LiveIds /\ x.msg.sender = p.to /\ ToldOn(p, x.msg.body)
    BY <1>1, <1>5, NewMessagesAreNew DEF Packets
  <2> QED
    BY <1>5, <2>1, <2>2, ReplyDelivers DEF Delivery
<1>6. CASE IgnoreSeen(p)
  <2>1. Finish(p.to, held[p.to], net \ {p}, TRUE, {}) /\ Seen(p.to, p.msg.id)
    BY <1>6 DEF IgnoreSeen
  <2>2. held[p.to] \in SUBSET (MsgId \X Node) /\ {p.msg.id} \in SUBSET MsgId
    BY <1>1 DEF TypeOK, Message
  <2>3. \A i \in MsgId : (\E q \in Node : <<i, q>> \in held[p.to])
                           <=> (Seen(p.to, i) \/ i \in {p.msg.id})
    BY <2>1 DEF Seen
  <2>4. net \ {p} \in SUBSET net /\ {} \in SUBSET Packet
    OBVIOUS
  <2>5. QuarantineStep(p.to, {p.msg.id})
    BY <1>1, <2>1, <2>2, <2>3, <2>4, FinishQuarantine
  <2>6. net \ {p} \subseteq net' /\ net' \subseteq (net \ {p}) \cup {}
    BY <2>1 DEF Finish, Sent
  <2> QED
    BY <2>5, <2>6 DEF Delivery
<1>7. CASE SaluteOnHail(p)
  <2>1. PICK msgs \in NewMessages(p.to, AllSyncBodies(p.to)) :
          Reply(p, Packets({p.msg.sender}, msgs))
    BY <1>7 DEF SaluteOnHail
  <2>2. \A b \in AllSyncBodies(p.to) : ToldOn(p, b)
    BY <1>7 DEF SaluteOnHail, Accepts, AllSyncBodies, SyncBody, ToldOn
  <2> QED
    BY <1>1, <1>5, <2>1, <2>2, SyncBodiesTyped
<1>8. CASE SaveStateOwn(p)
  <2> DEFINE n == p.to
             d == p.msg.body.device
             new == Patched(n, d, p.msg.body.state)
  <2>1. /\ Owns(n, d) /\ p.msg.body.type = "Patch"
        /\ db' = [db EXCEPT ![n][d] = new]
    BY <1>8 DEF SaveStateOwn, Accepts
  <2>2. PICK msgs \in NewMessages(n, {SyncBody(d, new)}),
             targets \in RandomPeers(n, CacheWith(p), ZeroId, RandomPeerCount) :
          Reply(p, Packets(targets, msgs))
    BY <1>8 DEF SaveStateOwn
  <2>3. d \in Device /\ p.msg.body.state \in State
    BY <1>1, <2>1 DEF Message, Body
  <2>4. new \in Data
    BY <1>1, <2>1, <2>3, PatchedTyped DEF Owns
  <2>5. {SyncBody(d, new)} \in SUBSET Body
    BY <2>3, <2>4 DEF SyncBody, Body
  <2>7. db'[n][d] = new
    BY <1>1, <2>1, <2>3 DEF TypeOK
  <2>8. \A b \in {SyncBody(d, new)} : ToldOn(p, b)
    BY <2>7 DEF SyncBody, ToldOn
  <2>6. targets \in SUBSET Node
    BY <1>1, <1>2, <2>2, RandomPeersChosen
  <2> HIDE DEF d, new
  <2> QED
    BY <1>5, <2>2, <2>5, <2>6, <2>8
<1>9. CASE SaveStateUnreadable(p) \/ SaveDeviceOwn(p) \/ DeletePeer(p)
  BY <1>3, <1>9 DEF SaveStateUnreadable, SaveDeviceOwn, DeletePeer
<1>10. CASE SaveStateRelay(p) \/ SaveDeviceNewer(p)
  BY <1>4, <1>10 DEF SaveStateRelay, SaveDeviceNewer, Accepts
<1>11. CASE SaveDeviceNotNewer(p)
  <2> DEFINE n == p.to
             d == p.msg.body.device
  <2>1. CASE Readable(n, d)
    <3>1. PICK msgs \in NewMessages(n, {SyncBody(d, db[n][d])}) : \E m \in msgs :
            \E targets \in RandomPeers(n, CacheWith(p), m.id, RandomPeerCount) :
              Reply(p, Packets(targets, msgs))
      BY <1>11, <2>1 DEF SaveDeviceNotNewer
    <3> PICK m \in msgs : \E targets \in RandomPeers(n, CacheWith(p), m.id, RandomPeerCount) :
          Reply(p, Packets(targets, msgs))
      BY <3>1
    <3>2. PICK targets \in RandomPeers(n, CacheWith(p), m.id, RandomPeerCount) :
            Reply(p, Packets(targets, msgs))
      OBVIOUS
    <3>3. d \in Device
      BY <1>1, <1>11 DEF SaveDeviceNotNewer, Accepts, Message, Body
    <3>4. {SyncBody(d, db[n][d])} \in SUBSET Body
      BY <1>1, <2>1, <3>3 DEF TypeOK, Readable, SyncBody, Body
    <3>6. \A b \in {SyncBody(d, db[n][d])} : ToldOn(p, b)
      BY <1>11 DEF SaveDeviceNotNewer, SyncBody, ToldOn
    <3>5. targets \in SUBSET Node
      BY <1>1, <1>2, <3>2, RandomPeersChosen
    <3> HIDE DEF d
    <3> QED
      BY <1>5, <3>2, <3>4, <3>5, <3>6
  <2>2. CASE ~Readable(n, d)
    BY <1>3, <1>11, <2>2 DEF SaveDeviceNotNewer
  <2> QED
    BY <2>1, <2>2
<1> QED
  BY <1>6, <1>7, <1>8, <1>9, <1>10, <1>11 DEF ReceiveMessage

-----------------------------------------------------------------------------
(* Packets that are news to their receiver.                                *)

\* A packet that is news stays so, unless its receiver deals with its message.
LEMMA NewsStays ==
  ASSUME TypeOK, NEW n \in Node, NEW ids, QuarantineStep(n, ids), NEW x \in net,
         ~Seen(x.to, x.msg.id), x.to # n \/ x.msg.id \notin ids
  PROVE  ~Seen(x.to, x.msg.id)'
PROOF
<1>1. x.to \in Node /\ x.msg.id \in MsgId /\ x.msg.id \in LiveIds
  BY DEF TypeOK, Packet, Message, LiveIds
<1> QED
  BY <1>1 DEF QuarantineStep

\* A new message is news to everybody but the host that makes it.
LEMMA NewIsNews ==
  ASSUME HeldLive, NEW n \in Node, NEW ids, QuarantineStep(n, ids),
         NEW m \in Node, m # n, NEW i \in MsgId, i \notin LiveIds
  PROVE  ~Seen(m, i)'
PROOF
<1>1. ~Seen(m, i)
  BY DEF HeldLive, Seen
<1> QED
  BY <1>1 DEF QuarantineStep

=============================================================================
