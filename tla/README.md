# A formal model of Fudpucker

Fudpucker (`src/`) is a peer client for a distributed repository of device
states. A user talks to a host over HTTP; hosts talk to each other in UDP
packets and gossip about devices. This directory holds TLA+ modules that model
it, the TLC runs that check them on small instances, and the TLAPS proofs about
them. `PROJECT.json` lists runs, properties, mutants, theorems, findings and
hazards, and says for each definition which lines of the source it models.

## The system

| Component | State | Operations | Correct if |
|---|---|---|---|
| Message use cases (`main/message/usecases.go`, `adapters.go`) | none of their own | handle hail, patch, sync, farewell; send hail, farewell | a newer state replaces an older one and never the reverse; a patch reaches the owner and acts once; nobody is sent its own announcement |
| Device use cases (`main/data/usecases.go`, `adapters.go`) | none | create, patch, check owner, check version, choose peers | only the owner makes versions; a version has one content |
| Message cache (`main/data/messagecache.go`) | message id -> peer id -> deadline | ask for a message, ask for a message and peer, hold, reset | a message held is in quarantine for ten seconds, then gone |
| Peer cache (`main/data/peercache.go`) | peer id -> address | add, remove, list, reset | hosts that said farewell are forgotten |
| Database (`main/data/database.go`) | badger, on disk; opened and closed in every call | get, set, delete | calls that meet do not mislead the handlers |
| UDP server (`main/message/updserver.go`) | the connection field; a reader goroutine | observe, send, stop | disconnected hosts hear nothing, connected ones hear once; leaving is safe |
| Requests (`main/request/usecases.go`, `handlers.go`) | none | device, peer, network and shutdown requests | what is refused or allowed is what is documented |
| Controller (`main/lib.go`) | wiring, main context | join = observe and hail; leave = farewell and stop; start, end | who asks for the end gets it, and an answer; a restart loses nothing that matters |
| HTTP server (`main/request/httpserver.go`) | routes; whether it serves | serve, stop within ten seconds | the end waits for the requests that are being served |
| Preferences, entities | cached host id and addresses; values | compute once; encode, decode | conversions give back what they got |

The HTTP server starts a goroutine for each request; `Observe` starts one reader,
which handles the packets one after the other. Both call the same use cases,
which read and write the database, the two caches and the connection field, none
of which has a lock. A handler that learns something sends packets to up to five
random peers; the receivers do the same. Nothing is acknowledged or repeated, UDP
may lose, repeat and reorder, and only the database survives a restart.

The hard parts, each with its source line in `hazards` of `PROJECT.json`: late and
repeated packets; corrections that answer each other; quarantine that ends, or is
forgotten, while a copy is on its way; deletion and restart; interleavings of the
goroutines of one host between their database calls, which fail when they meet;
`Observe`, `Send` and `Stop` on one unprotected field; and a process that is stopped
while its requests are still served.

## Modules

| Module | What it is | Modelled from |
|---|---|---|
| `GossipRegister` | abstract: a device is a register one host writes; copies are learnt from reports that are lost, repeated and reordered at will | - |
| `StateSync` | the hosts, their databases, caches and the network; every message handler and every request that changes state is one action | `message/usecases.go`, `message/adapters.go`, `data/usecases.go`, `data/adapters.go`, `request/usecases.go`, `lib.go` |
| `MCStateSync`, `MCPatchChain` | initial states and next-state relations of particular networks: a mesh, in which one host leaves and joins, and a chain | - |
| `Quarantine` | abstract: what the handlers may expect of the message cache | - |
| `MessageCache` | the entries with their deadlines and the lazy clearing | `data/messagecache.go` |
| `DeviceStore` | one host and one device; the use cases of several goroutines, one action for each database call, with the lock badger takes, and restarts | `data/database.go`, the use cases again |
| `UdpServer` | the connection field, the sockets and the readers, statement by statement | `message/updserver.go`, `lib.go` |
| `Controller` | extends `UdpServer` by the life of the process: the HTTP server, main, the shutdown request | `lib.go`, `main.go`, `request/httpserver.go`, `request/usecases.go`, `request/handlers.go` |
| `GossipRegisterProofs`, `StateSyncProofs`, `DeviceStoreProofs`, `MessageCacheProofs`, `ControllerProofs` | the theorems about the modules they are named after | - |
| `DeliveryProofs` | lemmas about `StateSync`: what each step does to the packets in flight and to the quarantine | - |
| `MeshProofs`, `ChainProofs` | the theorems about the networks of `MCStateSync` and `MCPatchChain`, with any number of hosts, messages and versions | - |

`StateSync` takes handlers to be atomic and database calls to succeed.
`DeviceStore` drops both assumptions for one host and says what remains: until a call
fails, it takes only steps of `GossipRegister`, the abstract specification that
`StateSync` implements too. `UdpServer` and `Controller` have the part of the host where
the socket is not just open or closed, and the process not just up;
`MessageCache` justifies that `StateSync` writes the message cache as a set of
pairs from which a pair may vanish (`Expire`).

### State and actions of StateSync

`db[n][d]` is the record in badger of device `d` at host `n`: owner, type, state
and version, or `Absent`. `peers[n]` is the peer cache, `held[n]` the message
cache, `joined[n]` says that the UDP server has a connection, `net` holds the
packets in flight. A handler is an action on one packet `p` (`p.to` is the host):
`Accepts` has the guards of the receive handler (socket open, not in quarantine),
`CacheWith` the entry it makes before it calls the use case, and the rest is the
use case. One use case gives several actions, one for each path:
`SaveStateOwn`, `SaveStateUnreadable` and `SaveStateRelay`, or `SaveDeviceOwn`,
`SaveDeviceNewer` and `SaveDeviceNotNewer`. All end in `Finish`, the send handler: what
was sent is in flight, and held for the peers it went to.

Details that a reader who compares model and code should know:

- A random peer set is any set of the size `getRandomPeers` returns among the peers
  for which the message is not held (`RandomPeers`); patches ask with the zero id,
  which nothing is held under, so all peers qualify.
- A message id is random, so it is not the id of a message in flight. `MsgId` needs
  as many ids as messages may be in flight at once; an action that needs more is
  not taken, which is a bound of the model. For the same reason `held` keeps only
  pairs whose message is in flight (`Retain`): nobody asks for another id again.
- A device of type 15 (`DeviceTypeUnknown`) can be created and stored but `getDevice`
  fails on it: `Readable`.
- `Faults` names what the environment may do: `lose` and `duplicate` packets, refuse
  a send (`sendfail`), or let the quarantine run out while a packet is on its way
  (`expire`). Packets are a set, so they are always unordered. A restart needs no
  fault.
- Hosts know each other by id, and an address is the id. The user does not add a
  host to its own peer list; a hail of one's own is never received then.
- `MaxVersion` stops the owner from patching; the real version is 64 bits wide.
- The message type "peer" has a handler but no sender (its code is commented out in
  `NewSaluteOnHailUseCase`), so it has no action. The broadcast branch of
  `getRandomPeers` needs an error and an address at once, and is dead.

### DeviceStore

A goroutine is a reader or a request; `job[t]` is the use case it runs and the
database call it makes next. `Open` is `badger.Open`, which takes the directory lock.
Each call then either returns (`ok`), with its effect, and releases the lock, or
fails at once since another goroutine has it. `world` is what the owner has announced:
all of it may reach this host at any time, as the runs of `StateSync` show. `mine`
says whether this host is the owner. The history variable `spoiled` remembers that a
call has failed. Requests that only read, or create another device, are one `Look`.

`OwnerWrites` and `OwnerAnnounces` are the owner at another host, whose copy is
`theirs`; it may be any number of versions ahead of what it has announced, and of what has
arrived. `Restart` ends every use case where it is, in a database call or between two: badger
writes a record in one transaction, and its lock goes with the process. (A deletion is
a `DropPrefix`, which is not one transaction; see `hazards`.) `R` maps this host and that other
one to the two hosts of a `GossipRegister` and `world` to its gossip.

### UdpServer and Controller

`connection` is the field, `open` the sockets the process holds, `web[w]` the next statement of a
request, `at[k]` that of the reader started for socket `k`, and `reads[k]` what it was
given to read: the field is read again when the reader is started. A nil connection
panics; in a request net/http recovers that (`Recover`), in a reader it ends the process
(`process = "crashed"`). `ReadFails` is an error of a read on an open socket, which ends the reader
as the error of a closed one does, for `net` calls both "read"; `failed` remembers it.
`Managers` says how many joins and leaves may overlap.

`Controller` adds the goroutine `Main`, which waits for `done` (the main context), then stops
the UDP server by the statements of a leave (`StopUdp`), then the HTTP server (`StopApi`), and
exits when all requests are over (`EndGracefully`) or after ten seconds (`EndHarshly`). Deferred calls
run although an earlier one panicked, and the process then ends by that panic
(`"panicking"`). Requests are served until `StopApi`, so that joins and leaves may run while
main stops the UDP server; `Managers` does not count main. `quit[w]` is a shutdown request, which
resets the caches and cancels the context before it is answered. `Serve` may fail
(the port is taken), and main waits all the same.

## Runs

Passing runs:

- **SyncRequests** (`StateSync`): two hosts, one device, two types, two states, two
  messages in flight, versions up to 2, every request and every fault; 411 542
  states. Checks that the store implements `GossipRegister` (`ImplementsRegister`),
  that the owner is newest, a version has one content, copies never regress,
  ids name one message, unreadable devices stay home, and announcements do not go
  back. Two hosts are enough for everything that does not need a relay.
- **SyncMesh** (`MCStateSync`): three hosts that know each other, three messages in
  flight, loss and reordering, deletion and patches, and one host that leaves and joins
  again; 1 448 477 states up to the naming of messages. The same
  properties where packets are relayed and overtake each other, and `PeersFollow`: once its last hail
  or farewell has arrived, a host is in the peer lists of the others if and only if it is
  connected. Two versions in flight at once, one of them late, is the case that matters, and
  versions 0 to 2 with three messages have it. Duplicates are left to SyncRequests, which has every
  fault, and to the proofs, which hold for any. A hail or farewell that is lost, or overtaken by
  the next one, is excluded: then the lists stay wrong, and nothing in the code repairs
  them. Symmetry in `MsgId` is sound: no definition names an id but `ZeroId`, which is not one of
  them, and all properties of the run are about safety.
- **PatchChain** (`MCPatchChain`): three hosts in a chain, the owner at one end and the
  user at the other, four messages in flight, two patches, packets that are repeated but not lost; 50 641
  states. Safety: the owner's version is at most the number of accepted patches (`PatchedAtMostOnce`), and
  is that number when no patch is in flight (`NoPatchLost`); when no sync message is in flight, all hosts have the owner's
  state (`Converged`), whichever overtook which. Liveness: every accepted patch reaches the owner
  and its result every host. Two patches with their two announcements in flight at once are the case
  that matters. One value of the state is enough, since versions tell the states apart (`OneStatePerVersion`
  in the other runs).
- **MessageCache**: two messages, two peers, a quarantine of 2 ticks and 7 ticks of time, so that entries
  are made, expire and are made again three times; 191 632 states. `ImplementsQuarantine`
  is a refinement: lazy clearing is not visible. `AcceptedOncePerTTL` is the
  promise to the readers of messages.
- **DeviceStore**: a reader and two requests, versions 0 and 1 and two states, patches
  that do not overlap, and restarts; 148 896 states. A host never loses its own device, whatever
  fails. As long as no calls meet, interleaved handlers keep what atomic ones keep
  (`SoundUnlessBusy`, `NeverRegressUnlessBusy`), they do only what the registers of
  `GossipRegister` do (`RegisterUnlessBusy`, a refinement step by step), and a patch ends stored and
  announced (`AnnouncedUnlessBusy`). Every handler ends.
- **UdpServer** (`Controller`): main and two requests, two sockets, joins and leaves that do not overlap;
  113 552 states. Disconnected means that no socket is open, connected that exactly one
  reader reads it, or none if a read has failed, and readers of closed sockets end. A shutdown
  request ends the process, whatever readers and requests do (`EndsWhenAsked`), and each request
  is answered unless the process crashes or the ten seconds run out
  (`RequestsAnswered`). Two sockets let an old reader be left when the second one starts; two requests
  let a join or a leave, and a shutdown or a send, be served while main stops.

Runs that find a violation, each of a statement of the repository's documentation
or comments (`findings` in `PROJECT.json` has the quotations):

- **SyncStorm**: `CorrectionsEnd` fails. A host answers a sync message that is not newer
  than its copy, one of the same version included, by a sync message under a new id.
  Two hosts that both copy a third one's device do this to each other for ever.
- **PatchTwice**: `PatchedAtMostOnce` fails once the quarantine may end while a copy of the patch message
  is on its way.
- **DeleteForeign**: `OnlyOwnDeleted` fails. The delete request refuses the owner and
  serves everybody else.
- **OwnOverwritten**: `OnlyWePush` fails. While a listing has the database open, both checks of a
  sync message fail, failures count as "not the owner" and "newer", and the host
  overwrites its own device by an older state.
- **PatchLost**: `AnnouncesItsState` fails with two patches at once: both read one
  version, and the first is overwritten before it is announced.
- **LeaveCrash**: `StaysUp` fails. `Stop` clears the connection between the check and the
  write of a handler's `Send`. With `Managers = 2`, `DisconnectedIsDeaf` of the passing
  run fails too: a stop that overlaps a join leaves a socket that nobody can close.

Every property of a passing run has a mutant, an operator named `Mutant...` before the
definition it replaces, that TLC must find it violated with.

Deadlock is checked in SyncRequests, MessageCache and DeviceStore. The mesh and the
chain stop by themselves when the versions or patches the model allows are used up and
no packet is left, and `Controller` when the process has ended; they say so in their configurations.

## Fairness

Only liveness properties assume any, and only of steps the system itself takes.
`StateSync!Fairness` is weak fairness of handling each message at each host: a reader takes
one packet after the other for as long as its socket is open, so none waits for ever behind
others. Users, faults and restarts are never fair. In `DeviceStore` and
`Controller` each goroutine that can take a step eventually does, main, a request, a reader, as the Go scheduler
guarantees; users, signals and the start of the API are not fair; a goroutine that has to find the database free has no more than that, which is
why `HandlersEnd` depends on calls that fail instead of being repeated. A handler in
`UdpServer` sends at most once, as handlers send finitely often. `RequestsAnswered` allows the
harsh end, since which of the last request and the ten seconds comes first is not known.

## Proofs

`tlapm` checks the following for any hosts, devices, types, states, ids, faults and
bounds; assumptions are `ConstantsAssumption` of `StateSync` (the zero id is no message id, `Absent` is
no record, counts are naturals), in `GossipRegisterProofs` that `Absent` is no record, in `DeviceStoreProofs`
`StoreAssumption` (readers are not requests, `Absent` is no record, `Free` is no goroutine), in
`MessageCacheProofs` that times are naturals, and in `ControllerProofs` that `Nil` is no socket and main is
a goroutine. `MeshAssumption` and `ChainAssumption` say that the named hosts, the device and its first data are among those of the model, and
of the chain that its three hosts are different ones and the device has a readable type. Further hypotheses are
part of the theorems and named below.

- `GossipRegisterProofs`: types (`TypeCorrect`), then `Safety`: the owner is newest, a
  device has one owner, a version has one content. The three hold one another up: a new
  version is unlike all known ones because the owner is newest, and the owner stays the
  one writer because reports and copies name one owner. `NoRegress` is the action property.
- `StateSyncProofs`: `Invariance` proves the inductive invariant `Inv`: types; an id in flight names one message (`UniqueIds`);
  a packet to the sender of its own message is a patch (`NotSentBack`), which needs that no host is its own
  peer (`NoSelfPeer`) and that ids are unique; and an unreadable device is its owner's (`UnreadableStaysHome`),
  which needs that only readable devices are in sync messages (`OnlyReadableSent`).
- `Refinement` (`Spec => ImplementsRegister`): each action of `StateSync` is a step or a stutter of
  `GossipRegister` under `copy <- db`, `gossip <- Reports`. Most send or drop reports (`Tell`);
  a patch of the owner is a `Write`, storing a sync message is a `Learn`, a delete is a `Forget`.
- `OwnerNewest`, `VersionsIdentify` and `NoRegress` then carry the theorems of the
  abstract specification over to the hosts.
- `DeviceStoreProofs`, first part: `TypeCorrect` and `OwnIsKept`, for any number of goroutines, whatever
  overlaps and fails. The inductive invariant `Inv` adds what a goroutine has found out when it
  makes its next call (`Fits`): one that is about to delete has seen a device of another host, and one that is about
  to store a patch a device of this host. The owner never changes, so this cannot become stale.
- Second part: `SoundWhileNotBusy` and `NoRegressWhileNotBusy`, while no call has failed, with one reader and one
  patch at a time (`Alone`; other requests as many as you like). What can become stale is the version
  that was read. `SoloInv` says why it does not (`Current`): the version a patch has read is the stored one, as only
  patches store the host's own device and there is one (`OnePatch`); and a sync message that was
  newer still is, as the reader alone stores devices of others (`OneSync`), and a deletion only makes room.
  Without `Alone` or with a failed call the runs PatchLost and OwnOverwritten show what happens.
- Third part, from the same invariant: `RegisterWhileNotBusy` maps each call to a write, learn, forget,
  tell or stutter of `GossipRegister`, and `AnnouncedWhileNotBusy` says that a patch ends stored and
  announced. Both rest on `Current`: the store of a patch is a `Write` only because the version
  it read is still the stored one, that of a sync message a `Learn` only because it is still newer; and what is
  announced after a patch is its own state, because no other patch came in between.
- `MessageCacheProofs`: types (`TypeCorrect`), `AcceptedOnce` and `Refinement` (`Spec => ImplementsQuarantine`).
  The lemmas `ClearedEntry` and `HoldEntry` say what the two loops of the cache do to each pair. The
  inductive invariant `Remembered` is that a message accepted is in the cache with a
  deadline of at least its time plus `TTL`, or that time is over: clearing drops only pairs past their
  deadline, and holding never shortens one. The refinement needs only the shape of the
  entries: clearing does not change what is live (`ClearedLive`), and holding in the cleared cache is holding
  in the quarantine (`HoldLive`).
- `ControllerProofs`: `TypeCorrect` for any overlap; it needs that a socket just opened is nobody
  else's and has no reader (`Opening`, `Unborn`). `Disconnected` and `Connected` for joins
  and leaves one at a time (`Serialized`) and any number of sends, readers and sockets: `Underway` says
  what each statement of a join or a leave may rely on, `Stable` what field, socket and reader
  are like otherwise, `OwnReaders` that no reader ever reads another socket than its own. They say
  something only of a process that is up; with `Managers = 2` both fail.

- `DeliveryProofs` says, for any network, what a step does to packets in flight and to the messages in
  quarantine. All rests on `FinishQuarantine`, for all handlers end in `Finish`: afterwards the host has seen the message it
  dealt with and those it made, nobody has seen anything else, and nobody forgot what is still in flight.
  `Delivery` says that of a receipt, and that all it sends is the message it received or a new one with what the host
  stores. `NewsStays` and `NewIsNews` are the consequences: a packet that is news to its receiver stays so until the receiver
  handles that message, and a new message is news to all but its maker.
- `MeshProofs`: `PeerListsFollow`, for any number of hosts that know each other. `Told` is the
  invariant: while n3 is connected, each other host has it as a peer or a hail that is news is on its way there, and no
  farewell is in flight; and the other way round. It needs `HeldLive`, that message caches hold no id that is
  free, or a host might take a new hail for an old one and ignore it. Assumed (`AllReached`): the other hosts are no more
  than `RandomPeerCount`, five in the code, because a join hails that many; and sending does not fail. With more hosts some
  are not hailed and the property is false.
- `ChainProofs`, at most once (`PatchesActOnce`): n1 alone makes versions (`ChainReceipts`, `VersionSteps`), one for each patch
  that is news to it. `AtMostOnce` is the invariant: the patches in flight that n1 has not taken and its version are together no more than the patches
  accepted. A receipt never makes a patch untaken again (`UntakenShrinks`), and a request makes one. Assumed
  (`QuarantineLasts`): no `expire`, without which run PatchTwice refutes it; packets may be lost in sending or
  repeated. The copies of the others are not newer (`NoneAhead`), by the theorems about the registers.
- At least once (`PatchesArrive`): `AtLeastOnce` counts the patches that are still coming, in a packet that is news to n1, or to n2
  which passes it on (`RelayReachesOwner`). Here sending must not fail, and a message must go to both neighbours of n2, which takes
  two random peers. With `AtMostOnce` each accepted patch is acted on exactly once.
- Convergence (`ChainConverges`): what a host lacks is on its way to it (`CatchingUp`), for n2 what n1
  has and for n3 what n2 has. When n2 stores such a state it passes it on, but n3 would ignore it had it seen that message
  before, and n2's own message cache could hold n3 for it. So the invariant adds that news for n2 come from n1 alone (`BehindRelay`)
  and that no message of n1 gets past n2 unseen (`ThroughRelay`). A state that
  is overtaken by a newer one makes the host repeat its own: that is no newer than what n2 has, so it
  spoils nothing. The versions being equal, so are the states (`NoneAhead`).

What the proofs do not need is of interest: peers, quarantine, the choice of receivers and all faults
play no part in the safety of the store. It rests on the owner check and the version check alone,
and on handlers that do not interleave, which is what `DeviceStore` looks at. Delivery is the other way round: it rests on
the quarantine and on who is sent what, and each of its assumptions names something the code does not guarantee: a
quarantine longer than any packet is on its way, few peers, sends that succeed.

Only model-checked: liveness (`PatchReachesAll`, `HandlersEnd`, `ReadersEnd`, `EndsWhenAsked`, `RequestsAnswered`), which is
out of the prover's reach. `NoPatchLost` and `Converged` are what is left of `PatchReachesAll` without it: the system
does not come to rest before the patch is everywhere.

## Not modelled

- Encoding of packets, ids and numbers; packets that no host of this program sends.
- HTTP parsing, JSON, status codes, the command line, logging.
- Preferences: the host id is a constant of the models, and the addresses are read only to be shown
  and by dead code. Their first use by two goroutines at once is in `hazards`.
- A second signal, which kills the process once the shutdown function has given the signals back.
- A peer that the user adds under a wrong id: a model in which hosts know each other by id cannot say it.
- What badger leaves of a deletion that the end of the process cuts off.
- Addresses, and the broadcast address (dead code).
- Data races on the Go maps of the two caches: the runtime ends the process.
- Torn reads of the connection field, written as two words.
- Code without a caller: `GetPeer`, `GetRandomPeers`, `NewSavePeerUseCase`'s sender, events, the memory database.

## Plan

Done: the core (`GossipRegister`, `StateSync`), the message cache, the goroutines of one host on the
database, the socket and the life of the process, each with its proofs; delivery along a chain and in a mesh. In
this order, what is left:

1. Convergence of the chain while packets are lost, once a later patch gets through.
2. The peer cache with addresses, for hosts that are added under one id and hail under another.
3. `StateSync` with two handlers of one host at a time, from the steps that `DeviceStore` allows.
