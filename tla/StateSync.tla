------------------------------ MODULE StateSync -------------------------------
(***************************************************************************)
(* The distributed store of Fudpucker: hosts that keep copies of devices   *)
(* in a local database and gossip about them in UDP packets.  Each path of *)
(* a use case of main/message/usecases.go that hosts send messages to, and *)
(* of a request of lib.go that changes state, is one action.  A handler    *)
(* runs to completion before the next one of its host starts, and its      *)
(* database calls succeed: DeviceStore shows what is left without that.    *)
(***************************************************************************)
EXTENDS Naturals, FiniteSets, FiniteSetsExt

CONSTANTS
  Node,             \* host ids; a host has one address, written as its id
  Device,           \* device ids
  Kind,             \* device types, DeviceTypeUnknown among them
  UnknownKind,      \* DeviceTypeUnknown: a stored device of it is unreadable
  State,            \* device states
  MsgId,            \* message ids: as many messages as may be in flight at once
  ZeroId,           \* the zero id, of no message
  Absent,           \* database entry of a device the host does not know
  RandomPeerCount,  \* defaultRandomPeerCount
  MaxVersion,       \* bound of the model: no device is patched beyond it
  Faults            \* which faults the environment may show

FaultKinds == {"lose", "duplicate", "sendfail", "expire"}

Data == [owner : Node, kind : Kind, state : State, version : Nat]

ASSUME ConstantsAssumption ==
  /\ ZeroId \notin MsgId
  /\ Absent \notin Data
  /\ RandomPeerCount \in Nat
  /\ MaxVersion \in Nat
  /\ Faults \subseteq FaultKinds

VARIABLES
  db,      \* db[n][d]: the stored attributes of device d at host n, or Absent
  peers,   \* peers[n]: the peer cache of n
  held,    \* held[n]: <<message id, peer>> pairs in the message cache of n, of
           \* the messages in flight: nobody can ask for another random id
  joined,  \* joined[n]: n has its UDP socket open and reads from it
  net      \* the packets in flight

vars == <<db, peers, held, joined, net>>

HailBody     == [type |-> "Hail"]
FarewellBody == [type |-> "Farewell"]
PatchBody(d, s)   == [type |-> "Patch", device |-> d, state |-> s]
SyncBody(d, data) == [type |-> "Sync", device |-> d, data |-> data]

Body ==
  [type : {"Hail", "Farewell"}]
    \cup [type : {"Patch"}, device : Device, state : State]
    \cup [type : {"Sync"}, device : Device, data : Data]

Message == [id : MsgId, sender : Node, body : Body]
Packet  == [to : Node, msg : Message]

Init ==
  /\ db = [n \in Node |-> [d \in Device |-> Absent]]
  /\ peers = [n \in Node |-> {}]
  /\ held = [n \in Node |-> {}]
  /\ joined = [n \in Node |-> FALSE]
  /\ net = {}

-----------------------------------------------------------------------------
(* What a host knows of a device.                                          *)

\* Mutant: any host that has the device counts as its owner.
MutantOwns(n, d) == db[n][d] # Absent

\* checkIfOwner without error: an unknown device has no owner attribute.
Owns(n, d) == db[n][d] # Absent /\ db[n][d].owner = n

\* getDevice without error: the type attribute is there and is not "unknown".
Readable(n, d) == db[n][d] # Absent /\ db[n][d].kind # UnknownKind

\* Mutants: the version is not compared; it is compared the other way round.
MutantAlwaysNewer(n, d, version) == TRUE
MutantOlder(n, d, version) == db[n][d] # Absent => version < db[n][d].version

\* checkVersion, as its caller uses it: an error counts as newer.
NewerThanStored(n, d, version) ==
  db[n][d] # Absent => version > db[n][d].version

\* Mutant: devices that cannot be read are announced too.
MutantAllSyncBodies(n) ==
  {SyncBody(d, db[n][d]) : d \in {e \in Device : db[n][e] # Absent}}

\* The sync messages for every device the host can read.
AllSyncBodies(n) == {SyncBody(d, db[n][d]) : d \in {e \in Device : Readable(n, e)}}

\* Mutants: the version does not grow; version and state are swapped.
MutantSameVersion(n, d, s) ==
  [owner |-> db[n][d].owner, kind |-> db[n][d].kind,
   state |-> s, version |-> db[n][d].version]
MutantSwapped(n, d, s) ==
  [owner |-> db[n][d].owner, kind |-> db[n][d].kind,
   state |-> db[n][d].version, version |-> db[n][d].version + 1]

\* The stored device after its owner gave it a new state.
Patched(n, d, s) ==
  [owner |-> db[n][d].owner, kind |-> db[n][d].kind,
   state |-> s, version |-> db[n][d].version + 1]

-----------------------------------------------------------------------------
(* Messages and the two caches.                                            *)

LiveIds == {p.msg.id : p \in net}

\* Mutant: an id in flight may be taken again.
MutantNewMessages(n, bodies) ==
  LET any == Injection(bodies, MsgId)
  IN  {{[id |-> f[b], sender |-> n, body |-> b] : b \in bodies} :
         f \in {g \in any : g = CHOOSE h \in any : TRUE}}

\* One message with an id of its own for each body.  An id is random, so it is
\* none of those in flight; which one it is does not matter, so one choice
\* stands for all.
NewMessages(n, bodies) ==
  LET fresh == Injection(bodies, MsgId \ LiveIds)
  IN  {{[id |-> f[b], sender |-> n, body |-> b] : b \in bodies} :
         f \in {g \in fresh : g = CHOOSE h \in fresh : TRUE}}

Packets(targets, msgs) == {[to |-> q, msg |-> m] : q \in targets, m \in msgs}

\* Which of the packets leave the host: none from a closed socket.
Sent(open, packets) ==
  IF ~open THEN {{}}
  ELSE IF "sendfail" \in Faults THEN SUBSET packets
  ELSE {packets}

\* Mutant: the peers are not filtered by the message cache.
MutantRandomPeers(n, cache, id, count) ==
  LET size == Cardinality(peers[n])
  IN  kSubset(IF size < count THEN size ELSE count, peers[n])

\* getRandomPeers: peers for which the message cache does not hold the message.
RandomPeers(n, cache, id, count) ==
  LET safe == {q \in peers[n] : <<id, q>> \notin cache}
      size == Cardinality(safe)
  IN  kSubset(IF size < count THEN size ELSE count, safe)

\* What remains of a message cache once only these packets are in flight.
Retain(cache, packets) == {h \in cache : h[1] \in {p.msg.id : p \in packets}}

\* The end of every handler at n: its message cache holds, besides "cache",
\* what it managed to send, and the network carries it besides "rest".
Finish(n, cache, rest, open, packets) ==
  \E sent \in Sent(open, packets) :
    LET mine == cache \cup {<<p.msg.id, p.to>> : p \in sent} IN
      /\ net' = rest \cup sent
      /\ held' = [m \in Node |->
                    Retain(IF m = n THEN mine ELSE held[m], rest \cup sent)]

-----------------------------------------------------------------------------
(* Receiving.  A handler starts on a packet that reached an open socket    *)
(* and whose message is not in quarantine, which it then enters.           *)

\* The network once the packet was delivered; UDP may deliver it again.
Delivered(p) ==
  {net \ {p}} \cup (IF "duplicate" \in Faults THEN {net} ELSE {})

\* Mutant: the quarantine is not asked.
MutantSeen(n, id) == FALSE

Seen(n, id) == \E q \in Node : <<id, q>> \in held[n]

Accepts(p, type) ==
  /\ p \in net
  /\ joined[p.to]
  /\ ~Seen(p.to, p.msg.id)
  /\ p.msg.body.type = type

\* Mutant: the message is not put in quarantine before it is handled.
MutantCacheWith(p) == held[p.to]

CacheWith(p) == held[p.to] \cup {<<p.msg.id, p.msg.sender>>}

\* The receiver of p sends these packets; the answer to p ends its handler.
Reply(p, packets) ==
  \E rest \in Delivered(p) : Finish(p.to, CacheWith(p), rest, TRUE, packets)

IgnoreSeen(p) ==
  /\ p \in net
  /\ joined[p.to]
  /\ Seen(p.to, p.msg.id)
  /\ Finish(p.to, held[p.to], net \ {p}, TRUE, {})
  /\ UNCHANGED <<db, peers, joined>>

\* Remember the peer and send it everything we know.
SaluteOnHail(p) ==
  /\ Accepts(p, "Hail")
  /\ peers' = [peers EXCEPT ![p.to] = @ \cup {p.msg.sender}]
  /\ \E msgs \in NewMessages(p.to, AllSyncBodies(p.to)) :
       Reply(p, Packets({p.msg.sender}, msgs))
  /\ UNCHANGED <<db, joined>>

\* A patch for a device of ours: store it and announce the new version.
SaveStateOwn(p) ==
  LET n == p.to
      d == p.msg.body.device
      new == Patched(n, d, p.msg.body.state)
  IN
  /\ Accepts(p, "Patch")
  /\ Owns(n, d) /\ Readable(n, d)
  /\ db[n][d].version < MaxVersion
  /\ db' = [db EXCEPT ![n][d] = new]
  /\ \E msgs \in NewMessages(n, {SyncBody(d, new)}),
        targets \in RandomPeers(n, CacheWith(p), ZeroId, RandomPeerCount) :
       Reply(p, Packets(targets, msgs))
  /\ UNCHANGED <<peers, joined>>

\* Our own device, but it cannot be read: the handler fails.
SaveStateUnreadable(p) ==
  /\ Accepts(p, "Patch")
  /\ Owns(p.to, p.msg.body.device)
  /\ ~Readable(p.to, p.msg.body.device)
  /\ Reply(p, {})
  /\ UNCHANGED <<db, peers, joined>>

\* Mutant: a patch of somebody else's device is not passed on.
MutantSaveStateRelay(p) ==
  /\ Accepts(p, "Patch")
  /\ ~Owns(p.to, p.msg.body.device)
  /\ Reply(p, {})
  /\ UNCHANGED <<db, peers, joined>>

\* Somebody else's device: pass the same message on.
SaveStateRelay(p) ==
  /\ Accepts(p, "Patch")
  /\ ~Owns(p.to, p.msg.body.device)
  /\ \E targets \in RandomPeers(p.to, CacheWith(p), ZeroId, RandomPeerCount) :
       Reply(p, Packets(targets, {p.msg}))
  /\ UNCHANGED <<db, peers, joined>>

\* Only we can push our device's state.
SaveDeviceOwn(p) ==
  /\ Accepts(p, "Sync")
  /\ Owns(p.to, p.msg.body.device)
  /\ Reply(p, {})
  /\ UNCHANGED <<db, peers, joined>>

\* Mutant: a newer state is stored but not passed on.
MutantSaveDeviceNewer(p) ==
  /\ Accepts(p, "Sync")
  /\ ~Owns(p.to, p.msg.body.device)
  /\ NewerThanStored(p.to, p.msg.body.device, p.msg.body.data.version)
  /\ db' = [db EXCEPT ![p.to][p.msg.body.device] = p.msg.body.data]
  /\ Reply(p, {})
  /\ UNCHANGED <<peers, joined>>

\* A newer state, or a device we did not know: store it and pass it on.
SaveDeviceNewer(p) ==
  LET n == p.to
      d == p.msg.body.device
  IN
  /\ Accepts(p, "Sync")
  /\ ~Owns(n, d)
  /\ NewerThanStored(n, d, p.msg.body.data.version)
  /\ db' = [db EXCEPT ![n][d] = p.msg.body.data]
  /\ \E targets \in RandomPeers(n, CacheWith(p), p.msg.id, RandomPeerCount) :
       Reply(p, Packets(targets, {p.msg}))
  /\ UNCHANGED <<peers, joined>>

\* No newer than ours: spread our own state instead, in a new message.
SaveDeviceNotNewer(p) ==
  LET n == p.to
      d == p.msg.body.device
  IN
  /\ Accepts(p, "Sync")
  /\ ~Owns(n, d)
  /\ ~NewerThanStored(n, d, p.msg.body.data.version)
  /\ IF Readable(n, d)
     THEN \E msgs \in NewMessages(n, {SyncBody(d, db[n][d])}) : \E m \in msgs :
            \E targets \in RandomPeers(n, CacheWith(p), m.id, RandomPeerCount) :
              Reply(p, Packets(targets, msgs))
     ELSE Reply(p, {})
  /\ UNCHANGED <<db, peers, joined>>

DeletePeer(p) ==
  /\ Accepts(p, "Farewell")
  /\ peers' = [peers EXCEPT ![p.to] = @ \ {p.msg.sender}]
  /\ Reply(p, {})
  /\ UNCHANGED <<db, joined>>

ReceiveMessage(p) ==
  \/ IgnoreSeen(p)
  \/ SaluteOnHail(p)
  \/ SaveStateOwn(p) \/ SaveStateUnreadable(p) \/ SaveStateRelay(p)
  \/ SaveDeviceOwn(p) \/ SaveDeviceNewer(p) \/ SaveDeviceNotNewer(p)
  \/ DeletePeer(p)

-----------------------------------------------------------------------------
(* Requests of the user of host n.                                         *)

\* The packets a request sends, from a socket that may be closed.
Request(n, packets) == Finish(n, held[n], net, joined[n], packets)

\* A new device, with a random id that nobody uses; it is not announced.
CreateDevice(n, d, k, s) ==
  /\ \A m \in Node : db[m][d] = Absent
  /\ db' = [db EXCEPT ![n][d] =
              [owner |-> n, kind |-> k, state |-> s, version |-> 0]]
  /\ UNCHANGED <<peers, held, joined, net>>

PatchStateOwn(n, d, s) ==
  /\ Owns(n, d) /\ Readable(n, d)
  /\ db[n][d].version < MaxVersion
  /\ db' = [db EXCEPT ![n][d] = Patched(n, d, s)]
  /\ \E msgs \in NewMessages(n, {SyncBody(d, Patched(n, d, s))}),
        targets \in RandomPeers(n, held[n], ZeroId, RandomPeerCount) :
       Request(n, Packets(targets, msgs))
  /\ UNCHANGED <<peers, joined>>

\* Not our device: ask its owner, through some peers.  The user may name a
\* device this host does not know, but only one that somebody created.
PatchStateRequest(n, d, s) ==
  /\ ~Owns(n, d)
  /\ \E m \in Node : db[m][d] # Absent
  /\ \E msgs \in NewMessages(n, {PatchBody(d, s)}),
        targets \in RandomPeers(n, held[n], ZeroId, RandomPeerCount) :
       Request(n, Packets(targets, msgs))
  /\ UNCHANGED <<db, peers, joined>>

\* Mutant: the owner is not refused.
MutantDeleteDevice(n, d) ==
  /\ db[n][d] # Absent
  /\ db' = [db EXCEPT ![n][d] = Absent]
  /\ UNCHANGED <<peers, held, joined, net>>

\* The owner is refused, every other host deletes its copy.
DeleteDevice(n, d) ==
  /\ db[n][d] # Absent
  /\ ~Owns(n, d)
  /\ db' = [db EXCEPT ![n][d] = Absent]
  /\ UNCHANGED <<peers, held, joined, net>>

AddPeer(n, q) ==
  /\ peers' = [peers EXCEPT ![n] = @ \cup {q}]
  /\ UNCHANGED <<db, held, joined, net>>

\* Open the socket, unless it is open, and hail with everything we know.
JoinNetwork(n) ==
  /\ joined' = [joined EXCEPT ![n] = TRUE]
  /\ \E msgs \in NewMessages(n, {HailBody} \cup AllSyncBodies(n)) :
       \E hail \in {m \in msgs : m.body = HailBody} :
         \E targets \in RandomPeers(n, held[n], hail.id, RandomPeerCount) :
           Finish(n, held[n], net, TRUE, Packets(targets, msgs))
  /\ UNCHANGED <<db, peers>>

\* Mutant: the socket is closed before the farewell.
MutantLeaveNetwork(n) ==
  /\ joined' = [joined EXCEPT ![n] = FALSE]
  /\ UNCHANGED <<db, peers, held, net>>

\* Farewell to every peer, and close the socket.
LeaveNetwork(n) ==
  /\ \E msgs \in NewMessages(n, {FarewellBody}) : \E m \in msgs :
       \E targets \in RandomPeers(n, held[n], m.id, Cardinality(peers[n])) :
         Request(n, Packets(targets, msgs))
  /\ joined' = [joined EXCEPT ![n] = FALSE]
  /\ UNCHANGED <<db, peers>>

\* The shutdown request empties both caches; handlers may still run until the
\* process has ended.
Shutdown(n) ==
  /\ peers' = [peers EXCEPT ![n] = {}]
  /\ held' = [held EXCEPT ![n] = {}]
  /\ UNCHANGED <<db, joined, net>>

-----------------------------------------------------------------------------
(* What happens to a host and to the network.                              *)

\* The process ends, after a shutdown, a signal or a crash, and starts again:
\* nothing but the database survives, and nobody is told.
Restart(n) ==
  /\ peers' = [peers EXCEPT ![n] = {}]
  /\ held' = [held EXCEPT ![n] = {}]
  /\ joined' = [joined EXCEPT ![n] = FALSE]
  /\ UNCHANGED <<db, net>>

\* A packet is lost on its way, or at a host that does not listen.
DropPacket(p) ==
  /\ "lose" \in Faults \/ ~joined[p.to]
  /\ Finish(p.to, held[p.to], net \ {p}, TRUE, {})
  /\ UNCHANGED <<db, peers, joined>>

\* Ten seconds have passed since the host held the message for the peer.
Expire(n, h) ==
  /\ "expire" \in Faults
  /\ held' = [held EXCEPT ![n] = @ \ {h}]
  /\ UNCHANGED <<db, peers, joined, net>>

-----------------------------------------------------------------------------

UserRequest(n) ==
  \/ \E d \in Device, s \in State :
       \/ PatchStateOwn(n, d, s)
       \/ PatchStateRequest(n, d, s)
       \/ \E k \in Kind : CreateDevice(n, d, k, s)
  \/ \E d \in Device : DeleteDevice(n, d)
  \/ \E q \in Node \ {n} : AddPeer(n, q)
  \/ JoinNetwork(n)
  \/ LeaveNetwork(n)
  \/ Shutdown(n)

Next ==
  \/ \E n \in Node : UserRequest(n) \/ Restart(n) \/ \E h \in held[n] : Expire(n, h)
  \/ \E p \in net : ReceiveMessage(p) \/ DropPacket(p)

Spec == Init /\ [][Next]_vars

\* The reader of a joined host takes every packet that arrives, in the order
\* of arrival, and no packet waits behind infinitely many others.
Fairness ==
  \A n \in Node, i \in MsgId :
    WF_vars(\E p \in net : p.to = n /\ p.msg.id = i /\ ReceiveMessage(p))

-----------------------------------------------------------------------------
(* Properties.                                                             *)

TypeOK ==
  /\ db \in [Node -> [Device -> Data \cup {Absent}]]
  /\ peers \in [Node -> SUBSET Node]
  /\ held \in [Node -> SUBSET (MsgId \X Node)]
  /\ joined \in [Node -> BOOLEAN]
  /\ net \in SUBSET Packet

\* The reports of the abstract specification are the sync packets in flight.
Reports ==
  {[device |-> p.msg.body.device, data |-> p.msg.body.data] :
     p \in {q \in net : q.msg.body.type = "Sync"}}

\* The store as a set of registers with one writer each: whatever is lost,
\* repeated, reordered, forgotten or restarted, hosts only create, write,
\* learn newer and forget.
R == INSTANCE GossipRegister WITH copy <- db, gossip <- Reports
ImplementsRegister == R!Spec

\* No host and no packet is ahead of the host that owns the device, and the
\* owner never loses it: only the owner makes versions (the checks of
\* checkIfOwner in both patch paths and in SaveDevice).
OwnerIsNewest == R!OwnerIsNewest

\* Wherever two hosts or packets have the same version of a device, they have
\* the same state of it: comparing versions, as SaveDevice does, is enough.
OneStatePerVersion == R!OneStatePerVersion

\* A host replaces what it knows of a device only by a newer version, though
\* packets come late, twice and out of order.
NeverRegress == R!NeverRegress

\* An id names one message, however many hosts have passed it on: a message
\* in quarantine hides no other one.
UniqueIds == \A p, q \in net : p.msg.id = q.msg.id => p.msg = q.msg

\* A device that cannot be read never leaves the host it was created at.
UnreadableStaysHome ==
  \A n \in Node, d \in Device :
    db[n][d] # Absent /\ ~Readable(n, d) => Owns(n, d)

\* Nobody sends a host its own announcement back; the message cache holds the
\* message for its sender when it is passed on.  (A patch may come back.)
NotSentBack ==
  \A p \in net : p.to = p.msg.sender => p.msg.body.type = "Patch"

\* "We can only delete our devices" (main/request/usecases.go:49): what a host
\* loses from its database it owned.
OnlyOwnDeleted ==
  [][\A n \in Node, d \in Device :
       db[n][d] # Absent /\ db'[n][d] = Absent => Owns(n, d)]_vars

=============================================================================
