----------------------------- MODULE ChainProofs ------------------------------
(***************************************************************************)
(* Patches along a chain of hosts: each accepted patch is acted on at most *)
(* once, and none is lost, and no host stays behind with an old state.     *)
(***************************************************************************)
EXTENDS MCPatchChain, DeliveryProofs

\* A message that a host has seen stays in quarantine while it is in flight.
QuarantineLasts == IsFiniteSet(MsgId) /\ "expire" \notin Faults

\* What a host of the chain sends reaches all its neighbours.
AllReached == "sendfail" \notin Faults /\ RandomPeerCount >= 2

Neighbours(n) == IF n = n2 THEN {n1, n3} ELSE {n2}

Version(n) == db[n][d1].version

\* What the chain is like at any time: one device, of n1, that all hosts have;
\* patches and states of it in flight; and no host comes or goes.
ChainBase ==
  /\ Inv
  /\ A!Inv
  /\ HeldLive
  /\ \A n \in Node : joined[n] /\ peers[n] = Neighbours(n)
  /\ \A n \in Node : db[n][d1] # Absent /\ db[n][d1].owner = n1
  /\ db[n1][d1].kind = light
  /\ \A p \in net : p.msg.body.type \in {"Patch", "Sync"} /\ p.msg.body.device = d1

\* The patches in flight that n1 has not taken, and those of them that are still
\* on their way to it.
Untaken ==
  {i \in MsgId : \E p \in net : p.msg.id = i /\ p.msg.body.type = "Patch" /\ ~Seen(n1, i)}

Coming ==
  {i \in Untaken : \E p \in net : /\ p.msg.id = i /\ p.msg.body.type = "Patch"
                                  /\ p.to \in {n1, n2} /\ ~Seen(p.to, i)}

\* The owner acts at most once on each patch, and will act on each.
AtMostOnce  == Cardinality(Untaken) + Version(n1) <= accepted
AtLeastOnce == accepted <= Cardinality(Coming) + Version(n1)

-----------------------------------------------------------------------------
(* The steps of the chain.                                                 *)

\* The chain starts like that.
LEMMA ChainInitHolds ==
  ASSUME ChainInit PROVE ChainBase
PROOF
<1> DEFINE first == [owner |-> n1, kind |-> light, state |-> off, version |-> 0]
<1>1. /\ first \in Data /\ first # Absent
      /\ first.owner = n1 /\ first.kind = light /\ n1 \in Node /\ d1 \in Device
  BY ChainAssumption, ConstantsAssumption DEF Data
<1>2. db = [n \in Node |-> [d \in Device |-> first]] /\ net = {}
  BY DEF ChainInit
<1> HIDE DEF first
<1>3. TypeOK
  BY <1>1, <1>2, ChainAssumption DEF ChainInit, TypeOK
<1>4. UniqueIds /\ NotSentBack /\ OnlyReadableSent
  BY <1>2 DEF UniqueIds, NotSentBack, OnlyReadableSent
<1>5. NoSelfPeer /\ HeldLive /\ \A n \in Node : joined[n] /\ peers[n] = Neighbours(n)
  BY ChainAssumption DEF ChainInit, NoSelfPeer, HeldLive, Neighbours
<1>6. UnreadableStaysHome
  BY <1>1, <1>2, ChainAssumption DEF UnreadableStaysHome, Readable
<1>7. A!Inv
  <2>1. \A r : r \in A!Known <=> \E d \in Device : r = [device |-> d, data |-> first]
    BY <1>1, <1>2, A!CopyReportsDef DEF A!Known, Reports
  <2>2. A!TypeOK
    BY <1>1, <1>2 DEF A!TypeOK, Data, A!Data, Reports
  <2> QED
    BY <1>1, <1>2, <2>1, <2>2
       DEF A!Inv, A!OwnerIsNewest, A!OneOwner, A!OneStatePerVersion, Data
<1> QED
  BY <1>1, <1>2, <1>3, <1>4, <1>5, <1>6, <1>7 DEF ChainBase, Inv

\* The chain does nothing that hosts and network do not do in general.
LEMMA ChainStepIsStep ==
  ASSUME [ChainNext]_chainVars PROVE [Next]_vars
PROOF
<1>1. ASSUME NEW s \in State, PatchStateRequest(n3, d1, s) PROVE Next
  BY <1>1, ChainAssumption DEF Next, UserRequest
<1>2. ASSUME NEW p \in net, ReceiveMessage(p) PROVE Next
  BY <1>2 DEF Next
<1>3. ASSUME NEW n \in Node, NEW h \in held[n], Expire(n, h) PROVE Next
  BY <1>3 DEF Next
<1> QED
  BY <1>1, <1>2, <1>3 DEF ChainNext, AcceptPatch, chainVars, vars

\* Only n1 owns the device, so it alone acts on patches, and learns nothing.
LEMMA ChainReceipts ==
  ASSUME ChainBase, NEW p \in net, ReceiveMessage(p)
  PROVE  \/ IgnoreSeen(p)
         \/ p.to = n1 /\ (SaveStateOwn(p) \/ SaveDeviceOwn(p))
         \/ p.to # n1 /\ (SaveStateRelay(p) \/ SaveDeviceNewer(p) \/ SaveDeviceNotNewer(p))
PROOF
<1>1. p.to \in Node /\ p.msg.body.type \in {"Patch", "Sync"} /\ p.msg.body.device = d1
  BY DEF ChainBase, Inv, TypeOK, Packet
<1>2. Owns(p.to, d1) <=> p.to = n1
  BY <1>1 DEF ChainBase, Owns
<1>3. Readable(n1, d1)
  BY ChainAssumption DEF ChainBase, Readable
<1> QED
  BY <1>1, <1>2, <1>3
     DEF ReceiveMessage, SaluteOnHail, DeletePeer, SaveStateUnreadable, Accepts,
         SaveStateOwn, SaveStateRelay, SaveDeviceOwn, SaveDeviceNewer, SaveDeviceNotNewer

\* A message goes to all neighbours for which the host does not hold it.
LEMMA NeighboursChosen ==
  ASSUME ChainBase, AllReached, NEW n \in Node, NEW cache, NEW id,
         NEW targets \in RandomPeers(n, cache, id, RandomPeerCount)
  PROVE  targets = {q \in Neighbours(n) : <<id, q>> \notin cache}
PROOF
<1>1. peers[n] = Neighbours(n)
  BY DEF ChainBase
<1>2. IsFiniteSet({n1, n3}) /\ Cardinality({n1, n3}) <= 2
  <2>1. IsFiniteSet({n1}) /\ Cardinality({n1}) = 1 /\ {n1, n3} = {n1} \cup {n3}
    BY FS_Singleton
  <2> QED
    BY <2>1, FS_AddElement
<1>3. IsFiniteSet({n2}) /\ Cardinality({n2}) = 1
  BY FS_Singleton
<1>4. IsFiniteSet(Neighbours(n)) /\ Cardinality(Neighbours(n)) <= 2
  BY <1>2, <1>3 DEF Neighbours
<1> DEFINE safe == {q \in peers[n] : <<id, q>> \notin cache}
<1>5. safe \in SUBSET Neighbours(n)
  BY <1>1
<1>6. Cardinality(safe) <= Cardinality(Neighbours(n)) /\ Cardinality(safe) \in Nat
  BY <1>4, <1>5, FS_Subset, FS_CardinalityType
<1>7. Cardinality(safe) <= RandomPeerCount /\ RandomPeerCount \in Nat
  BY <1>4, <1>6, FS_CardinalityType, ConstantsAssumption DEF AllReached
<1>8. targets = safe
  BY <1>1, <1>4, <1>7, AllPeersChosen
<1> QED
  BY <1>1, <1>8

\* When its user asks for a patch, n3 sends one new message, to n2.
LEMMA PatchIsSent ==
  ASSUME ChainBase, NEW s \in State, PatchStateRequest(n3, d1, s)
  PROVE  \E m \in Message :
           /\ m.body = PatchBody(d1, s) /\ m.id \notin LiveIds
           /\ net \subseteq net'
           /\ \A x \in net' : x \in net \/ x.msg = m
           /\ AllReached => [to |-> n2, msg |-> m] \in net'
           /\ QuarantineStep(n3, {})
PROOF
<1> USE DEF ChainBase, Inv
<1>1. /\ n3 \in Node /\ n2 \in Node /\ n3 # n2 /\ d1 \in Device
      /\ Neighbours(n3) = {n2}
  BY ChainAssumption DEF Neighbours
<1>10. peers[n3] \in SUBSET Node
  BY <1>1 DEF TypeOK
<1>2. PatchBody(d1, s) \in Body
  BY <1>1 DEF PatchBody, Body
<1>3. PICK msgs \in NewMessages(n3, {PatchBody(d1, s)}),
           targets \in RandomPeers(n3, held[n3], ZeroId, RandomPeerCount) :
        Finish(n3, held[n3], net, joined[n3], Packets(targets, msgs))
  BY DEF PatchStateRequest, Request
<1>4. PICK m \in Message : /\ msgs = {m} /\ m.sender = n3 /\ m.body = PatchBody(d1, s)
                           /\ m.id \notin LiveIds
  BY <1>1, <1>2, <1>3, OneNewMessage
<1>5. targets \in SUBSET Node
  BY <1>10 DEF RandomPeers, kSubset
<1>6. \A x \in Packets(targets, msgs) : x \in Packet /\ x.msg = m /\ x.msg.id \notin LiveIds
  BY <1>4, <1>5 DEF Packets, Packet
<1>7. Packets(targets, msgs) \in SUBSET Packet /\ joined[n3] \in BOOLEAN
  BY <1>1, <1>6 DEF TypeOK
<1>11. joined[n3]
  BY <1>1
<1>8. /\ net \subseteq net'
      /\ net' \subseteq net \cup Packets(targets, msgs)
      /\ joined[n3] /\ "sendfail" \notin Faults => Packets(targets, msgs) \subseteq net'
      /\ QuarantineStep(n3, {})
  BY ONLY TypeOK, HeldLive, <1>1, <1>3, <1>6, <1>7, RequestDelivers
<1>9. ASSUME AllReached PROVE [to |-> n2, msg |-> m] \in net'
  <2>1. <<ZeroId, n2>> \notin held[n3]
    BY <1>1, ConstantsAssumption DEF TypeOK
  <2>2. targets = {q \in {n2} : <<ZeroId, q>> \notin held[n3]}
    BY <1>1, <1>3, <1>9, NeighboursChosen
  <2>3. n2 \in targets
    BY <2>1, <2>2
  <2> QED
    BY <1>4, <1>8, <1>9, <1>11, <2>3 DEF AllReached, Packets
<1> QED
  BY <1>4, <1>6, <1>8, <1>9

\* What a host stores from a sync message in the chain is a state of n1's device.
LEMMA StoredIsOwned ==
  ASSUME ChainBase, NEW p \in net, p.msg.body.type = "Sync"
  PROVE  p.msg.body.data \in Data /\ p.msg.body.data.owner = n1
PROOF
<1> DEFINE r == [device |-> p.msg.body.device, data |-> p.msg.body.data]
           own == [device |-> d1, data |-> db[n1][d1]]
<1>1. n1 \in Node /\ d1 \in Device /\ db[n1][d1] # Absent /\ db[n1][d1].owner = n1
      /\ p.msg.body.device = d1
  BY ChainAssumption DEF ChainBase
<1>2. own \in A!Known /\ r \in A!Known
  BY <1>1, A!CopyReportsDef DEF A!Known, Reports
<1>3. r.data.owner = own.data.owner
  BY <1>1, <1>2 DEF ChainBase, A!Inv, A!OneOwner
<1>4. p.msg.body.data \in Data
  BY DEF ChainBase, Inv, TypeOK, Packet, Message, Body
<1> QED
  BY <1>1, <1>3, <1>4

\* The chain stays as it is.
LEMMA ChainBaseKept ==
  ASSUME ChainBase, [ChainNext]_chainVars, "expire" \notin Faults PROVE ChainBase'
PROOF
<1> USE DEF ChainBase
<1>1. Inv' /\ A!Inv'
  BY ChainStepIsStep, NextKeepsInv, StepKeepsRegister
<1>2. ASSUME NEW s \in State, PatchStateRequest(n3, d1, s) PROVE ChainBase'
  <2>1. PICK m \in Message :
          /\ m.body = PatchBody(d1, s)
          /\ \A x \in net' : x \in net \/ x.msg = m
          /\ QuarantineStep(n3, {})
    BY <1>2, PatchIsSent
  <2>2. m.body.type = "Patch" /\ m.body.device = d1
    BY <2>1 DEF PatchBody
  <2>3. \A x \in net' : x.msg.body.type \in {"Patch", "Sync"} /\ x.msg.body.device = d1
    BY <2>1, <2>2
  <2>4. UNCHANGED <<db, peers, joined>> /\ HeldLive'
    BY <1>2, <2>1 DEF PatchStateRequest, QuarantineStep
  <2> QED
    BY <1>1, <2>3, <2>4
<1>3. ASSUME NEW p \in net, ReceiveMessage(p) PROVE ChainBase'
  <2>1. Delivery(p)
    BY <1>3, ReceiptDelivers
  <2>2. HeldLive'
    BY <2>1 DEF Delivery, QuarantineStep
  <2>3. /\ p.msg.body.type \in {"Patch", "Sync"} /\ p.msg.body.device = d1 /\ d1 \in Device
        /\ p.to \in Node /\ n1 \in Node
    BY ChainAssumption DEF Inv, TypeOK, Packet
  <2>4. \A x \in net' : x.msg.body.type \in {"Patch", "Sync"} /\ x.msg.body.device = d1
    BY <2>1, <2>3 DEF Delivery, ToldOn, SyncBody
  <2>5. UNCHANGED <<peers, joined>>
    BY <1>3, ChainReceipts
       DEF IgnoreSeen, SaveStateOwn, SaveDeviceOwn, SaveStateRelay, SaveDeviceNewer,
           SaveDeviceNotNewer
  <2>6. CASE SaveStateOwn(p) /\ p.to = n1
    <3> DEFINE new == Patched(n1, d1, p.msg.body.state)
    <3>1. p.msg.body.state \in State
      BY <2>3, <2>6 DEF SaveStateOwn, Accepts, Inv, TypeOK, Packet, Message, Body
    <3>2. new \in Data /\ new.owner = n1 /\ new.kind = light
      BY <2>3, <3>1, PatchedTyped DEF Inv
    <3>3. db' = [db EXCEPT ![n1][d1] = new]
      BY <2>3, <2>6 DEF SaveStateOwn
    <3> HIDE DEF new
    <3>4. \A n \in Node : db'[n][d1] = IF n = n1 THEN new ELSE db[n][d1]
      BY <2>3, <3>3 DEF Inv, TypeOK
    <3> QED
      BY <1>1, <2>2, <2>3, <2>4, <2>5, <3>2, <3>4, ConstantsAssumption
  <2>7. CASE SaveDeviceNewer(p) /\ p.to # n1
    <3>1. db' = [db EXCEPT ![p.to][d1] = p.msg.body.data] /\ p.msg.body.type = "Sync"
      BY <2>3, <2>7 DEF SaveDeviceNewer, Accepts
    <3>2. p.msg.body.data # Absent /\ p.msg.body.data.owner = n1
      BY <3>1, StoredIsOwned, ConstantsAssumption
    <3>3. \A n \in Node : db'[n][d1] = IF n = p.to THEN p.msg.body.data ELSE db[n][d1]
      BY <2>3, <3>1 DEF Inv, TypeOK
    <3> QED
      BY <1>1, <2>2, <2>3, <2>4, <2>5, <2>7, <3>2, <3>3
  <2>8. CASE db' = db
    BY <1>1, <2>2, <2>4, <2>5, <2>8
  <2> QED
    BY <1>3, <2>6, <2>7, <2>8, ChainReceipts
       DEF IgnoreSeen, SaveDeviceOwn, SaveStateRelay, SaveDeviceNotNewer
<1>4. CASE UNCHANGED chainVars
  BY <1>1, <1>4 DEF chainVars, HeldLive, LiveIds
<1> QED
  BY <1>2, <1>3, <1>4 DEF ChainNext, AcceptPatch, Expire

-----------------------------------------------------------------------------
(* At most once.                                                           *)

\* What changes at n1 and who knows: only a patch that n1 takes makes a version.
LEMMA VersionSteps ==
  ASSUME ChainBase, NEW p \in net, ReceiveMessage(p)
  PROVE  /\ Version(n1) \in Nat
         /\ IF SaveStateOwn(p) THEN p.to = n1 /\ Version(n1)' = Version(n1) + 1
                               ELSE Version(n1)' = Version(n1)
PROOF
<1> USE DEF ChainBase, Inv
<1>1. n1 \in Node /\ d1 \in Device /\ p.msg.body.device = d1 /\ p.to \in Node
  BY ChainAssumption DEF TypeOK, Packet
<1>2. db[n1][d1] \in Data /\ db[n1][d1].version \in Nat
  BY <1>1 DEF TypeOK, Data
<1>3. CASE SaveStateOwn(p)
  <2>1. p.to = n1
    BY <1>1, <1>3 DEF SaveStateOwn, Owns
  <2>2. db'[n1][d1] = Patched(n1, d1, p.msg.body.state)
    BY <1>1, <1>3, <2>1 DEF SaveStateOwn, TypeOK
  <2> QED
    BY <1>2, <1>3, <2>1, <2>2 DEF Patched, Version
<1>4. CASE SaveDeviceNewer(p) /\ p.to # n1
  <2>1. db'[n1] = db[n1]
    BY <1>1, <1>4 DEF SaveDeviceNewer, TypeOK
  <2>2. ~SaveStateOwn(p)
    BY <1>4 DEF SaveDeviceNewer, SaveStateOwn, Accepts
  <2> QED
    BY <1>2, <2>1, <2>2 DEF Version
<1>5. CASE db' = db /\ ~SaveStateOwn(p)
  BY <1>2, <1>5 DEF Version
<1> QED
  BY <1>3, <1>4, <1>5, ChainReceipts
     DEF IgnoreSeen, SaveDeviceOwn, SaveStateRelay, SaveDeviceNotNewer

\* Taking a packet leaves n1 with no patch to take that it had not to take before.
LEMMA UntakenShrinks ==
  ASSUME ChainBase, NEW p \in net, ReceiveMessage(p)
  PROVE  Untaken' \subseteq Untaken \ (IF p.to = n1 THEN {p.msg.id} ELSE {})
PROOF
<1> SUFFICES ASSUME NEW i \in Untaken'
             PROVE  i \in Untaken /\ (p.to = n1 => i # p.msg.id)
  OBVIOUS
<1>1. Delivery(p) /\ n1 \in Node
  BY ReceiptDelivers, ChainAssumption DEF ChainBase
<1>2. i \in MsgId /\ ~Seen(n1, i)'
  BY DEF Untaken
<1>3. PICK x \in net' : x.msg.id = i /\ x.msg.body.type = "Patch"
  BY DEF Untaken
<1>4. i \in LiveIds'
  BY <1>3 DEF LiveIds
<1>5. ~Seen(n1, i) /\ (p.to = n1 => i # p.msg.id)
  BY <1>1, <1>2, <1>4 DEF Delivery, QuarantineStep
<1>6. \E y \in net : y.msg.id = i /\ y.msg.body.type = "Patch"
  BY <1>1, <1>3 DEF Delivery, ToldOn
<1> QED
  BY <1>2, <1>5, <1>6 DEF Untaken

\* A new patch is one more to take; n1 takes one for each version it makes.
LEMMA AtMostOnceKept ==
  ASSUME QuarantineLasts, ChainBase, AtMostOnce, accepted \in Nat, [ChainNext]_chainVars
  PROVE  AtMostOnce'
PROOF
<1>1. /\ IsFiniteSet(Untaken) /\ Cardinality(Untaken) \in Nat
      /\ \A S \in SUBSET Untaken : Cardinality(S) \in Nat /\ Cardinality(S) <= Cardinality(Untaken)
  <2>1. Untaken \in SUBSET MsgId
    BY DEF Untaken
  <2>2. IsFiniteSet(Untaken)
    BY <2>1, FS_Subset DEF QuarantineLasts
  <2> QED
    BY <2>2, FS_Subset, FS_CardinalityType
<1>2. n1 \in Node /\ Version(n1) \in Nat
  BY ChainAssumption DEF ChainBase, Inv, TypeOK, Data, Version
<1>3. ASSUME NEW p \in net, ReceiveMessage(p), accepted' = accepted PROVE AtMostOnce'
  <2>1. CASE SaveStateOwn(p)
    <3>1. p.to = n1 /\ Version(n1)' = Version(n1) + 1
      BY <1>3, <2>1, VersionSteps
    <3>2. p.msg.id \in Untaken
      BY <2>1, <3>1 DEF SaveStateOwn, Accepts, Untaken, ChainBase, Inv, TypeOK, Packet, Message
    <3>3. Untaken' \in SUBSET (Untaken \ {p.msg.id})
      BY <1>3, <3>1, UntakenShrinks
    <3>4. /\ IsFiniteSet(Untaken \ {p.msg.id})
          /\ Cardinality(Untaken \ {p.msg.id}) = Cardinality(Untaken) - 1
      BY <1>1, <3>2, FS_RemoveElement
    <3>5. Cardinality(Untaken') <= Cardinality(Untaken) - 1
      BY <3>3, <3>4, FS_Subset
    <3>6. Cardinality(Untaken') \in Nat
      BY <1>1, <3>3
    <3> QED
      BY <1>1, <1>2, <1>3, <3>1, <3>5, <3>6 DEF AtMostOnce
  <2>2. CASE ~SaveStateOwn(p)
    <3>1. Untaken' \in SUBSET Untaken /\ Version(n1)' = Version(n1)
      BY <1>3, <2>2, UntakenShrinks, VersionSteps
    <3> QED
      BY <1>1, <1>2, <1>3, <3>1 DEF AtMostOnce
  <2> QED
    BY <2>1, <2>2
<1>4. CASE AcceptPatch
  <2>1. PICK s \in State : PatchStateRequest(n3, d1, s)
    BY <1>4 DEF AcceptPatch
  <2>2. PICK m \in Message :
          /\ m.id \notin LiveIds
          /\ net \subseteq net'
          /\ \A x \in net' : x \in net \/ x.msg = m
          /\ QuarantineStep(n3, {})
    BY <2>1, PatchIsSent
  <2>3. Untaken' \subseteq Untaken \cup {m.id}
    BY <1>2, <2>2 DEF Untaken, QuarantineStep, LiveIds
  <2>4. /\ IsFiniteSet(Untaken \cup {m.id})
        /\ Cardinality(Untaken \cup {m.id}) <= Cardinality(Untaken) + 1
    BY <1>1, FS_AddElement
  <2>5. Cardinality(Untaken') \in Nat /\ Cardinality(Untaken') <= Cardinality(Untaken) + 1
    <3>1. Untaken' \in SUBSET (Untaken \cup {m.id})
      BY <2>3
    <3>2. IsFiniteSet(Untaken') /\ Cardinality(Untaken') <= Cardinality(Untaken \cup {m.id})
      BY <2>4, <3>1, FS_Subset
    <3>3. Cardinality(Untaken') \in Nat /\ Cardinality(Untaken \cup {m.id}) \in Nat
      BY <2>4, <3>2, FS_CardinalityType
    <3> QED
      BY <1>1, <2>4, <3>2, <3>3
  <2>6. Version(n1)' = Version(n1) /\ accepted' = accepted + 1
    BY <1>4, <2>1 DEF AcceptPatch, PatchStateRequest, Version
  <2> QED
    BY <1>1, <1>2, <2>5, <2>6 DEF AtMostOnce
<1>5. CASE UNCHANGED chainVars
  BY <1>5 DEF chainVars, AtMostOnce, Untaken, Seen, Version
<1> QED
  BY <1>3, <1>4, <1>5 DEF ChainNext, Expire, QuarantineLasts

\* In the chain a host never has a newer version than n1.
LEMMA NoneAhead ==
  ASSUME ChainBase, NEW n \in Node
  PROVE  /\ Version(n) \in Nat
         /\ Version(n) <= Version(n1)
         /\ Version(n) = Version(n1) => db[n][d1] = db[n1][d1]
PROOF
<1> DEFINE r(m) == [device |-> d1, data |-> db[m][d1]]
<1>1. /\ n1 \in Node /\ d1 \in Device
      /\ db[n][d1] \in Data /\ db[n][d1].owner = n1 /\ db[n][d1] # Absent
      /\ db[n1][d1] # Absent
  BY ChainAssumption DEF ChainBase, Inv, TypeOK
<1>2. r(n) \in A!Known /\ r(n1) \in A!Known
  BY <1>1, A!CopyReportsDef DEF A!Known
<1>3. Version(n) <= Version(n1)
  BY <1>1, <1>2 DEF ChainBase, A!Inv, A!OwnerIsNewest, Version
<1>4. Version(n) = Version(n1) => r(n) = r(n1)
  BY <1>2 DEF ChainBase, A!Inv, A!OneStatePerVersion, Version
<1> QED
  BY <1>1, <1>3, <1>4 DEF Data, Version

\* The same after a step.
LEMMA NoneAheadAfter ==
  ChainBase' => \A n \in Node : Version(n)' <= Version(n1)'
PROOF
<1>1. ChainBase => \A n \in Node : Version(n) <= Version(n1)
  BY NoneAhead
<1>2. (ChainBase => \A n \in Node : Version(n) <= Version(n1))'
  BY <1>1, PTL
<1> QED
  BY <1>2

\* A patch is acted on at most once, however many hosts pass it on and however
\* often the network repeats it, as long as no message leaves quarantine while
\* it is in flight.
THEOREM PatchesActOnce ==
  ASSUME QuarantineLasts
  PROVE  ChainSpec => []PatchedAtMostOnce
PROOF
<1> DEFINE I == ChainBase /\ AtMostOnce /\ accepted \in Nat
<1>1. ChainInit => I
  <2> SUFFICES ASSUME ChainInit PROVE I
    OBVIOUS
  <2>1. Untaken = {} /\ accepted = 0
    BY DEF ChainInit, Untaken
  <2>2. Version(n1) = 0
    BY ChainAssumption DEF ChainInit, Version
  <2> QED
    BY <2>1, <2>2, ChainInitHolds, FS_EmptySet DEF AtMostOnce
<1>2. I /\ [ChainNext]_chainVars => I'
  <2>1. accepted \in Nat /\ [ChainNext]_chainVars => accepted' \in Nat
    BY DEF ChainNext, AcceptPatch, chainVars
  <2> QED
    BY <2>1, ChainBaseKept, AtMostOnceKept DEF QuarantineLasts
<1>3. I => PatchedAtMostOnce
  <2> SUFFICES ASSUME I, NEW n \in Node PROVE Version(n) <= accepted
    BY DEF PatchedAtMostOnce, Version
  <2>1. IsFiniteSet(Untaken)
    BY FS_Subset DEF Untaken, QuarantineLasts
  <2>2. Cardinality(Untaken) \in Nat
    BY <2>1, FS_CardinalityType
  <2>3. n1 \in Node
    BY ChainAssumption
  <2> QED
    BY <2>2, <2>3, NoneAhead DEF AtMostOnce
<1> HIDE DEF I
<1> QED
  BY <1>1, <1>2, <1>3, PTL DEF ChainSpec

-----------------------------------------------------------------------------
(* At least once.                                                          *)

\* n2 passes a patch on to n1, wherever it came from.
LEMMA RelayReachesOwner ==
  ASSUME ChainBase, AllReached, NEW p \in net, SaveStateRelay(p), p.to = n2
  PROVE  [to |-> n1, msg |-> p.msg] \in net'
PROOF
<1> USE DEF ChainBase, Inv
<1>1. n2 \in Node /\ n1 \in Neighbours(n2) /\ peers[n2] \in SUBSET Node
  BY ChainAssumption DEF Neighbours, TypeOK
<1>2. PICK targets \in RandomPeers(n2, CacheWith(p), ZeroId, RandomPeerCount) :
        Reply(p, Packets(targets, {p.msg}))
  BY DEF SaveStateRelay
<1>3. CacheWith(p) \in SUBSET (MsgId \X Node)
  BY CacheWithSeen
<1>4. <<ZeroId, n1>> \notin CacheWith(p)
  BY <1>3, ConstantsAssumption
<1>5. targets = {q \in Neighbours(n2) : <<ZeroId, q>> \notin CacheWith(p)}
  BY <1>1, <1>2, NeighboursChosen
<1>6. n1 \in targets
  BY <1>1, <1>4, <1>5
<1>7. targets \in SUBSET Node
  BY <1>1, <1>2 DEF RandomPeers, kSubset
<1> DEFINE packets == Packets(targets, {p.msg})
<1>8. packets \in SUBSET Packet
  <2>1. p.msg \in Message
    BY DEF TypeOK, Packet
  <2> QED
    BY <1>7, <2>1, PacketsTyped
<1>9. /\ \A x \in packets : x.msg = p.msg
      /\ [to |-> n1, msg |-> p.msg] \in packets
      /\ Reply(p, packets)
  BY <1>2, <1>6 DEF Packets
<1> HIDE DEF packets
<1>10. packets \subseteq net'
  BY <1>8, <1>9, ReplyDelivers DEF AllReached
<1> QED
  BY <1>9, <1>10

\* A patch on its way to n1 stays so until n1 acts on it.
LEMMA ComingStays ==
  ASSUME ChainBase, AllReached, NEW p \in net, ReceiveMessage(p), NEW i \in Coming,
         SaveStateOwn(p) => i # p.msg.id
  PROVE  i \in Coming'
PROOF
<1> USE DEF ChainBase, Inv
<1>1. /\ net \ {p} \subseteq net'
      /\ QuarantineStep(p.to, {p.msg.id})
  BY ReceiptDelivers DEF Delivery
<1>2. p.to \in Node /\ n1 \in Node
  BY ChainAssumption DEF TypeOK, Packet
<1>3. PICK x \in net : /\ x.msg.id = i /\ x.msg.body.type = "Patch"
                       /\ x.to \in {n1, n2} /\ ~Seen(x.to, x.msg.id)
  BY DEF Coming
<1>4. i \in MsgId /\ i \in LiveIds /\ ~Seen(n1, i)
  BY <1>3 DEF Coming, Untaken, LiveIds
<1>5. CASE i # p.msg.id \/ p.to \notin {n1, x.to}
  <2>1. x \in net'
    BY <1>1, <1>3, <1>5
  <2>2. ~Seen(x.to, x.msg.id)'
    BY <1>1, <1>2, <1>3, <1>5, NewsStays
  <2>3. ~Seen(n1, i)'
    BY <1>1, <1>2, <1>4, <1>5 DEF QuarantineStep
  <2>4. i \in Untaken'
    BY <1>3, <1>4, <2>1, <2>3 DEF Untaken
  <2>5. ~Seen(x.to, i)'
    BY <1>3, <2>2
  <2> QED
    BY <1>3, <2>1, <2>4, <2>5 DEF Coming
<1>6. CASE i = p.msg.id /\ p.to \in {n1, x.to}
  <2>1. p.msg = x.msg /\ p.msg.body.type = "Patch" /\ ~Seen(p.to, p.msg.id)
    BY <1>3, <1>4, <1>6 DEF UniqueIds
  <2>2. p.to = n2 /\ n2 # n1 /\ SaveStateRelay(p)
    BY <1>3, <1>6, <2>1, ChainReceipts, ChainAssumption
       DEF IgnoreSeen, SaveDeviceOwn, SaveDeviceNewer, SaveDeviceNotNewer, Accepts
  <2> DEFINE y == [to |-> n1, msg |-> p.msg]
  <2>3. y \in net' /\ y.to = n1 /\ y.msg = p.msg
    BY <2>2, RelayReachesOwner
  <2> HIDE DEF y
  <2>4. ~Seen(n1, i)'
    BY <1>1, <1>2, <1>4, <2>2 DEF QuarantineStep
  <2>5. i \in Untaken'
    BY <1>4, <1>6, <2>1, <2>3, <2>4 DEF Untaken
  <2> QED
    BY <1>6, <2>1, <2>3, <2>4, <2>5 DEF Coming
<1> QED
  BY <1>5, <1>6

\* Every step keeps all accepted patches on their way, but for those acted on.
LEMMA AtLeastOnceKept ==
  ASSUME QuarantineLasts, AllReached, ChainBase, AtLeastOnce, accepted \in Nat,
         ChainBase', [ChainNext]_chainVars
  PROVE  AtLeastOnce'
PROOF
<1>1. /\ IsFiniteSet(Coming) /\ IsFiniteSet(Coming')
      /\ Cardinality(Coming) \in Nat /\ Cardinality(Coming') \in Nat
  <2>1. Coming \in SUBSET MsgId /\ Coming' \in SUBSET MsgId
    BY DEF Coming, Untaken
  <2>2. IsFiniteSet(Coming) /\ IsFiniteSet(Coming')
    BY <2>1, FS_Subset DEF QuarantineLasts
  <2> QED
    BY <2>2, FS_CardinalityType
<1>2. n1 \in Node /\ Version(n1) \in Nat
  BY ChainAssumption DEF ChainBase, Inv, TypeOK, Data, Version
<1>3. ASSUME NEW p \in net, ReceiveMessage(p), accepted' = accepted PROVE AtLeastOnce'
  <2>1. CASE SaveStateOwn(p)
    <3>1. Version(n1)' = Version(n1) + 1
      BY <1>3, <2>1, VersionSteps
    <3>2. Coming \ {p.msg.id} \in SUBSET Coming'
      BY <1>3, ComingStays
    <3>3. /\ IsFiniteSet(Coming \ {p.msg.id})
          /\ Cardinality(Coming \ {p.msg.id}) >= Cardinality(Coming) - 1
      <4>1. CASE p.msg.id \in Coming
        <5>1. /\ IsFiniteSet(Coming \ {p.msg.id})
              /\ Cardinality(Coming \ {p.msg.id}) = Cardinality(Coming) - 1
          BY <1>1, <4>1, FS_RemoveElement
        <5> QED
          BY <1>1, <5>1
      <4>2. CASE p.msg.id \notin Coming
        <5>1. Coming \ {p.msg.id} = Coming
          BY <4>2
        <5> QED
          BY <1>1, <5>1
      <4> QED
        BY <4>1, <4>2
    <3>4. /\ Cardinality(Coming \ {p.msg.id}) \in Nat
          /\ Cardinality(Coming \ {p.msg.id}) <= Cardinality(Coming')
      BY <1>1, <3>2, <3>3, FS_Subset, FS_CardinalityType
    <3> QED
      BY <1>1, <1>2, <1>3, <3>1, <3>3, <3>4 DEF AtLeastOnce
  <2>2. CASE ~SaveStateOwn(p)
    <3>1. Coming \in SUBSET Coming' /\ Version(n1)' = Version(n1)
      BY <1>3, <2>2, ComingStays, VersionSteps
    <3>2. Cardinality(Coming) <= Cardinality(Coming')
      BY <1>1, <3>1, FS_Subset
    <3> QED
      BY <1>1, <1>2, <1>3, <3>1, <3>2 DEF AtLeastOnce
  <2> QED
    BY <2>1, <2>2
<1>4. CASE AcceptPatch
  <2>1. PICK s \in State : PatchStateRequest(n3, d1, s)
    BY <1>4 DEF AcceptPatch
  <2>2. PICK m \in Message :
          /\ m.body = PatchBody(d1, s) /\ m.id \notin LiveIds
          /\ net \subseteq net'
          /\ [to |-> n2, msg |-> m] \in net'
          /\ QuarantineStep(n3, {})
    BY <2>1, PatchIsSent
  <2> DEFINE y == [to |-> n2, msg |-> m]
  <2>3. /\ y \in net' /\ y.to = n2 /\ y.msg.id = m.id /\ y.msg.body.type = "Patch"
        /\ m.id \in MsgId
    BY <2>2 DEF PatchBody, Message
  <2> HIDE DEF y
  <2>4. n1 \in Node /\ n2 \in Node /\ n3 \in Node /\ n1 # n3 /\ n2 # n3 /\ HeldLive
    BY ChainAssumption DEF ChainBase
  <2>5. ~Seen(n1, m.id)' /\ ~Seen(n2, m.id)'
    BY <2>2, <2>3, <2>4, NewIsNews
  <2>6. m.id \in Untaken'
    BY <2>3, <2>5 DEF Untaken
  <2>7. m.id \in Coming'
    BY <2>3, <2>5, <2>6 DEF Coming
  <2>8. m.id \notin Coming
    BY <2>2 DEF Coming, LiveIds
  <2>9. ASSUME NEW i \in Coming PROVE i \in Coming'
    <3>1. PICK x \in net : /\ x.msg.id = i /\ x.msg.body.type = "Patch"
                           /\ x.to \in {n1, n2} /\ ~Seen(x.to, x.msg.id)
      BY DEF Coming
    <3>2. i \in MsgId /\ i \in LiveIds /\ ~Seen(n1, i)
      BY <3>1 DEF Coming, Untaken, LiveIds
    <3>3. ~Seen(x.to, x.msg.id)'
      BY <2>2, <2>4, <3>1, NewsStays DEF ChainBase, Inv
    <3>4. ~Seen(n1, i)'
      BY <2>2, <2>4, <3>2 DEF QuarantineStep
    <3>5. x \in net' /\ ~Seen(x.to, i)'
      BY <2>2, <3>1, <3>3
    <3>6. i \in Untaken'
      BY <3>1, <3>2, <3>4, <3>5 DEF Untaken
    <3> QED
      BY <3>1, <3>5, <3>6 DEF Coming
  <2>10. Coming \cup {m.id} \in SUBSET Coming'
    BY <2>7, <2>9
  <2>11. /\ IsFiniteSet(Coming \cup {m.id})
         /\ Cardinality(Coming \cup {m.id}) = Cardinality(Coming) + 1
    BY <1>1, <2>8, FS_AddElement
  <2>12. Cardinality(Coming) + 1 <= Cardinality(Coming')
    BY <1>1, <2>10, <2>11, FS_Subset
  <2>13. Version(n1)' = Version(n1) /\ accepted' = accepted + 1
    BY <1>4, <2>1 DEF AcceptPatch, PatchStateRequest, Version
  <2> QED
    BY <1>1, <1>2, <2>12, <2>13 DEF AtLeastOnce
<1>5. CASE UNCHANGED chainVars
  BY <1>5 DEF chainVars, AtLeastOnce, Coming, Untaken, Seen, Version
<1> QED
  BY <1>3, <1>4, <1>5 DEF ChainNext, Expire, QuarantineLasts

\* No patch is lost on the way: once none is in flight, the owner has acted on
\* each one that n3 accepted, exactly once.
THEOREM PatchesArrive ==
  ASSUME QuarantineLasts, AllReached
  PROVE  ChainSpec => []NoPatchLost
PROOF
<1> DEFINE I == ChainBase /\ AtMostOnce /\ AtLeastOnce /\ accepted \in Nat
<1>1. ChainInit => I
  <2> SUFFICES ASSUME ChainInit PROVE I
    OBVIOUS
  <2>1. Untaken = {} /\ Coming = {} /\ accepted = 0
    BY DEF ChainInit, Untaken, Coming
  <2>2. Version(n1) = 0
    BY ChainAssumption DEF ChainInit, Version
  <2> QED
    BY <2>1, <2>2, ChainInitHolds, FS_EmptySet DEF AtMostOnce, AtLeastOnce
<1>2. I /\ [ChainNext]_chainVars => I'
  <2>1. accepted \in Nat /\ [ChainNext]_chainVars => accepted' \in Nat
    BY DEF ChainNext, AcceptPatch, chainVars
  <2> QED
    BY <2>1, ChainBaseKept, AtMostOnceKept, AtLeastOnceKept DEF QuarantineLasts
<1>3. I => NoPatchLost
  <2> SUFFICES ASSUME I, \A p \in net : p.msg.body.type # "Patch"
               PROVE  Version(n1) = accepted
    BY DEF NoPatchLost, Version
  <2>1. Untaken = {} /\ Coming = {}
    BY DEF Untaken, Coming
  <2>2. Cardinality(Untaken) = 0 /\ Cardinality(Coming) = 0
    BY <2>1, FS_EmptySet
  <2>3. n1 \in Node
    BY ChainAssumption
  <2>4. Version(n1) \in Nat
    BY <2>3, NoneAhead
  <2> QED
    BY <2>2, <2>4 DEF AtMostOnce, AtLeastOnce
<1> HIDE DEF I
<1> QED
  BY <1>1, <1>2, <1>3, PTL DEF ChainSpec

-----------------------------------------------------------------------------
(* Nobody stays behind.                                                    *)

Syncs == {p \in net : p.msg.body.type = "Sync"}

SyncVersion(p) == p.msg.body.data.version

\* Only n1 knows more than n2, and what n2 does not know yet comes from n1.
BehindRelay ==
  /\ \A n \in Node \ {n1} : Version(n) <= Version(n2)
  /\ \A x \in Syncs :
       x.to # n1 /\ (x.to = n2 => x.msg.sender # n1) => SyncVersion(x) <= Version(n2)

\* What n1 announces gets to the others through n2.
ThroughRelay ==
  \A x \in Syncs, n \in Node \ {n1, n2} :
    x.msg.sender = n1 /\ (x.to = n \/ Seen(n, x.msg.id)) => Seen(n2, x.msg.id)

\* Host n has the version that m has, or will get it from a packet that is news.
CatchingUp(n, m) ==
  \/ Version(n) = Version(m)
  \/ \E x \in Syncs : x.to = n /\ ~Seen(n, x.msg.id) /\ SyncVersion(x) = Version(m)

\* The versions after a receipt.
LEMMA VersionsAfter ==
  ASSUME ChainBase, NEW p \in net, ReceiveMessage(p), NEW n \in Node
  PROVE  /\ Version(n) \in Nat /\ Version(n)' \in Nat
         /\ Version(n) <= Version(n)'
         /\ SaveDeviceNewer(p) /\ p.to = n => /\ SyncVersion(p) = Version(n)'
                                              /\ Version(n) < SyncVersion(p)
         /\ Version(n)' # Version(n) => \/ SaveStateOwn(p) /\ n = n1
                                        \/ SaveDeviceNewer(p) /\ p.to = n
PROOF
<1> USE DEF ChainBase, Inv
<1>1. n1 \in Node /\ d1 \in Device /\ p.msg.body.device = d1 /\ p.to \in Node
  BY ChainAssumption DEF TypeOK, Packet
<1>2. db[n][d1] \in Data /\ db[n][d1] # Absent
  BY <1>1 DEF TypeOK
<1>3. Version(n) \in Nat
  BY <1>2 DEF Data, Version
<1>4. CASE SaveStateOwn(p) /\ p.to = n1
  <2>1. db' = [db EXCEPT ![n1][d1] = Patched(n1, d1, p.msg.body.state)]
    BY <1>1, <1>4 DEF SaveStateOwn
  <2>2. n # n1 => db'[n] = db[n]
    BY <1>1, <2>1 DEF TypeOK
  <2>3. n = n1 => db'[n][d1] = Patched(n1, d1, p.msg.body.state)
    BY <1>1, <2>1 DEF TypeOK
  <2>4. n # n1 => Version(n)' = Version(n)
    BY <2>2 DEF Version
  <2>5. n = n1 => Version(n)' = Version(n) + 1
    BY <2>3 DEF Version, Patched
  <2>6. ~SaveDeviceNewer(p)
    BY <1>4 DEF SaveStateOwn, SaveDeviceNewer, Accepts
  <2> QED
    BY <1>3, <1>4, <2>4, <2>5, <2>6
<1>5. CASE SaveDeviceNewer(p)
  <2>1. /\ db' = [db EXCEPT ![p.to][d1] = p.msg.body.data] /\ p.msg.body.type = "Sync"
        /\ NewerThanStored(p.to, d1, p.msg.body.data.version)
    BY <1>1, <1>5 DEF SaveDeviceNewer, Accepts
  <2>2. SyncVersion(p) \in Nat
    BY <2>1, StoredIsOwned DEF Data, SyncVersion
  <2>3. p.to = n => db'[n][d1] = p.msg.body.data
    BY <1>1, <2>1 DEF TypeOK
  <2>4. p.to # n => db'[n] = db[n]
    BY <1>1, <2>1 DEF TypeOK
  <2>5. p.to = n => Version(n)' = SyncVersion(p)
    BY <2>3 DEF Version, SyncVersion
  <2>6. p.to # n => Version(n)' = Version(n)
    BY <2>4 DEF Version
  <2>7. p.to = n => Version(n) < SyncVersion(p)
    <3>1. p.to = n => SyncVersion(p) > Version(n)
      BY <1>2, <2>1 DEF NewerThanStored, Version, SyncVersion
    <3> QED
      BY <1>3, <2>2, <3>1
  <2> QED
    BY <1>3, <1>5, <2>2, <2>5, <2>6, <2>7
<1>6. CASE db' = db /\ ~SaveDeviceNewer(p)
  BY <1>3, <1>6 DEF Version
<1>7. ASSUME IgnoreSeen(p) \/ SaveDeviceOwn(p) \/ SaveStateRelay(p) \/ SaveDeviceNotNewer(p)
      PROVE  db' = db /\ (SaveDeviceNewer(p) => SaveDeviceNewer(p) /\ ~SaveDeviceNewer(p))
  BY <1>7 DEF IgnoreSeen, SaveDeviceOwn, SaveStateRelay, SaveDeviceNotNewer, SaveDeviceNewer,
              Accepts
<1> QED
  BY <1>4, <1>5, <1>6, <1>7, ChainReceipts

\* The only thing that n1 sends is a new version, to n2.
LEMMA OwnerAnnounces ==
  ASSUME ChainBase, AllReached, NEW p \in net, SaveStateOwn(p), p.to = n1
  PROVE  \E m \in Message :
           /\ m.sender = n1 /\ m.id \notin LiveIds
           /\ m.body.type = "Sync" /\ m.body.data = db'[n1][d1]
           /\ [to |-> n2, msg |-> m] \in net'
           /\ \A x \in net' : x \in net \/ x = [to |-> n2, msg |-> m]
PROOF
<1> USE DEF ChainBase, Inv
<1>1. /\ n1 \in Node /\ n2 \in Node /\ d1 \in Device /\ Neighbours(n1) = {n2}
      /\ p.msg.body.device = d1 /\ peers[n1] \in SUBSET Node
  BY ChainAssumption DEF Neighbours, TypeOK
<1> DEFINE new == Patched(n1, d1, p.msg.body.state)
<1>2. new \in Data
  <2>1. p.msg.body.state \in State
    BY DEF SaveStateOwn, Accepts, TypeOK, Packet, Message, Body
  <2> QED
    BY <1>1, <2>1, PatchedTyped
<1>3. db'[n1][d1] = new
  BY <1>1 DEF SaveStateOwn, TypeOK
<1>4. PICK msgs \in NewMessages(n1, {SyncBody(d1, new)}),
           targets \in RandomPeers(n1, CacheWith(p), ZeroId, RandomPeerCount) :
        Reply(p, Packets(targets, msgs))
  BY <1>1 DEF SaveStateOwn
<1> HIDE DEF new
<1>5. SyncBody(d1, new) \in Body
  BY <1>1, <1>2 DEF SyncBody, Body
<1>6. PICK m \in Message : /\ msgs = {m} /\ m.sender = n1 /\ m.body = SyncBody(d1, new)
                           /\ m.id \notin LiveIds
  BY <1>1, <1>4, <1>5, OneNewMessage
<1>7. targets \in SUBSET Node
  BY <1>1, <1>4 DEF RandomPeers, kSubset
<1>8. <<ZeroId, n2>> \notin CacheWith(p)
  BY CacheWithSeen, ConstantsAssumption
<1>9. targets = {q \in {n2} : <<ZeroId, q>> \notin CacheWith(p)}
  BY <1>1, <1>4, NeighboursChosen
<1>10. targets = {n2}
  BY <1>8, <1>9
<1> DEFINE packets == Packets(targets, msgs)
<1>11. /\ Reply(p, packets)
       /\ \A x : x \in packets <=> x = [to |-> n2, msg |-> m]
  BY <1>4, <1>6, <1>10 DEF Packets
<1>12. \A x \in packets : x \in Packet /\ x.msg.id \notin LiveIds
  <2>1. [to |-> n2, msg |-> m] \in Packet
    BY <1>1 DEF Packet
  <2> QED
    BY <1>6, <1>11, <2>1
<1> HIDE DEF packets
<1>13. net' \subseteq net \cup packets /\ packets \subseteq net'
  BY <1>11, <1>12, ReplyDelivers DEF AllReached
<1>14. m.body.type = "Sync" /\ m.body.data = db'[n1][d1]
  BY <1>3, <1>6 DEF SyncBody
<1> QED
  BY <1>6, <1>11, <1>13, <1>14

\* What n2 learns from n1 it passes on to n3.
LEMMA RelayReachesThird ==
  ASSUME ChainBase, AllReached, NEW p \in net, SaveDeviceNewer(p), p.to = n2,
         p.msg.sender = n1
  PROVE  [to |-> n3, msg |-> p.msg] \in net'
PROOF
<1> USE DEF ChainBase, Inv
<1>1. /\ n2 \in Node /\ n3 \in Node /\ n1 # n3 /\ n3 \in Neighbours(n2)
      /\ peers[n2] \in SUBSET Node /\ p.msg \in Message
  BY ChainAssumption DEF Neighbours, TypeOK, Packet
<1>2. PICK targets \in RandomPeers(n2, CacheWith(p), p.msg.id, RandomPeerCount) :
        Reply(p, Packets(targets, {p.msg}))
  BY DEF SaveDeviceNewer
<1>3. ~Seen(n2, p.msg.id)
  BY DEF SaveDeviceNewer, Accepts
<1>4. <<p.msg.id, n3>> \notin CacheWith(p)
  BY <1>1, <1>3 DEF CacheWith, Seen
<1>5. targets = {q \in Neighbours(n2) : <<p.msg.id, q>> \notin CacheWith(p)}
  BY <1>1, <1>2, NeighboursChosen
<1>6. n3 \in targets
  BY <1>1, <1>4, <1>5
<1>7. targets \in SUBSET Node
  BY <1>1, <1>2 DEF RandomPeers, kSubset
<1> DEFINE packets == Packets(targets, {p.msg})
<1>8. packets \in SUBSET Packet
  BY <1>1, <1>7, PacketsTyped
<1>9. /\ \A x \in packets : x.msg = p.msg
      /\ [to |-> n3, msg |-> p.msg] \in packets
      /\ Reply(p, packets)
  BY <1>2, <1>6 DEF Packets
<1> HIDE DEF packets
<1>10. packets \subseteq net'
  BY <1>8, <1>9, ReplyDelivers DEF AllReached
<1> QED
  BY <1>9, <1>10

\* What a host sends is p's message or a new one of its own; it is no newer than
\* what the host has, and n1 only sends to n2.
LEMMA WhatIsSent ==
  ASSUME ChainBase, AllReached, NEW p \in net, ReceiveMessage(p),
         NEW x \in net', x \notin net, x.msg.body.type = "Sync"
  PROVE  /\ x.msg = p.msg \/ (x.msg.id \notin LiveIds /\ x.msg.sender = p.to)
         /\ SyncVersion(x) <= Version(p.to)'
         /\ p.to = n1 => /\ x.msg.id \notin LiveIds /\ x.msg.sender = n1
                         /\ x.to = n2
PROOF
<1> USE DEF ChainBase, Inv
<1>1. /\ p.to \in Node /\ d1 \in Device /\ p.msg.body.device = d1
      /\ p.msg.body.type \in {"Patch", "Sync"}
  BY ChainAssumption DEF TypeOK, Packet
<1>2. /\ Version(p.to)' \in Nat /\ Version(p.to) \in Nat /\ Version(p.to) <= Version(p.to)'
      /\ SaveDeviceNewer(p) => SyncVersion(p) = Version(p.to)'
  BY <1>1, VersionsAfter
<1>3. ~IgnoreSeen(p) /\ ~SaveDeviceOwn(p)
  <2>1. ASSUME IgnoreSeen(p) PROVE net' \subseteq net
    BY <2>1 DEF IgnoreSeen, Finish, Sent
  <2>2. ASSUME SaveDeviceOwn(p) PROVE net' \subseteq net \cup {}
    BY <2>2, ReplyDelivers DEF SaveDeviceOwn
  <2> QED
    BY <2>1, <2>2
<1>4. CASE p.to = n1
  <2>1. SaveStateOwn(p)
    BY <1>3, <1>4, ChainReceipts
  <2>2. PICK m \in Message :
           /\ m.sender = n1 /\ m.id \notin LiveIds
           /\ m.body.data = db'[n1][d1]
           /\ \A y \in net' : y \in net \/ y = [to |-> n2, msg |-> m]
    BY <1>4, <2>1, OwnerAnnounces
  <2>3. x.to = n2 /\ x.msg = m
    BY <2>2
  <2>4. SyncVersion(x) = Version(p.to)'
    BY <1>4, <2>2, <2>3 DEF SyncVersion, Version
  <2> QED
    BY <1>2, <1>4, <2>2, <2>3, <2>4
<1>5. CASE p.to # n1 /\ x.msg = p.msg
  <2>1. SyncVersion(p) \in Nat
    BY <1>5, StoredIsOwned DEF Data, SyncVersion
  <2>2. SaveDeviceNewer(p) \/ SaveDeviceNotNewer(p)
    BY <1>3, <1>5, ChainReceipts DEF SaveStateRelay, Accepts
  <2>3. SaveDeviceNotNewer(p) => ~(SyncVersion(p) > Version(p.to))
    BY <1>1 DEF SaveDeviceNotNewer, NewerThanStored, SyncVersion, Version
  <2>4. SyncVersion(x) = SyncVersion(p)
    BY <1>5 DEF SyncVersion
  <2>5. SyncVersion(p) <= Version(p.to)'
    <3>1. CASE SaveDeviceNewer(p)
      BY <1>2, <2>1, <3>1
    <3>2. CASE SaveDeviceNotNewer(p)
      BY <1>2, <2>1, <2>3, <3>2
    <3> QED
      BY <2>2, <3>1, <3>2
  <2> QED
    BY <1>5, <2>4, <2>5
<1>6. CASE p.to # n1 /\ x.msg # p.msg
  <2>1. x.msg.id \notin LiveIds /\ x.msg.sender = p.to /\ ToldOn(p, x.msg.body)
    BY <1>6, ReceiptDelivers DEF Delivery
  <2>2. x.msg.body.data = db'[p.to][d1]
    BY <1>1, <2>1 DEF ToldOn, SyncBody
  <2>3. SyncVersion(x) = Version(p.to)'
    BY <2>2 DEF SyncVersion, Version
  <2> QED
    BY <1>2, <1>6, <2>1, <2>3
<1> QED
  BY <1>4, <1>5, <1>6

\* A sync that is news to a host and newer than what it has is stored.
LEMMA NewsIsStored ==
  ASSUME ChainBase, NEW p \in net, ReceiveMessage(p), p.msg.body.type = "Sync",
         ~Seen(p.to, p.msg.id), p.to # n1, Version(p.to) < SyncVersion(p)
  PROVE  SaveDeviceNewer(p)
PROOF
<1> USE DEF ChainBase, Inv
<1>1. p.to \in Node /\ p.msg.body.device = d1
  BY DEF TypeOK, Packet
<1>2. SyncVersion(p) \in Nat /\ Version(p.to) \in Nat
  BY <1>1, StoredIsOwned, NoneAhead DEF Data, SyncVersion
<1>3. SyncVersion(p) > Version(p.to)
  BY <1>2
<1>4. NewerThanStored(p.to, d1, p.msg.body.data.version)
  BY <1>3 DEF NewerThanStored, SyncVersion, Version
<1> QED
  BY <1>1, <1>4, ChainReceipts
     DEF IgnoreSeen, SaveStateRelay, SaveDeviceNotNewer, Accepts

\* The versions in flight are numbers.
LEMMA SyncVersionIsNat ==
  ASSUME ChainBase, NEW x \in Syncs PROVE SyncVersion(x) \in Nat
PROOF
  BY StoredIsOwned DEF Syncs, SyncVersion, Data

\* Whoever learns something has it from n2, and n2 from n1.
LEMMA BehindRelayKept ==
  ASSUME ChainBase, ChainBase', AllReached, BehindRelay, NEW p \in net, ReceiveMessage(p)
  PROVE  BehindRelay'
PROOF
<1>1. n1 \in Node /\ n2 \in Node /\ n1 # n2 /\ p.to \in Node
  BY ChainAssumption DEF ChainBase, Inv, TypeOK, Packet
<1>2. \A n \in Node : Version(n) \in Nat /\ Version(n)' \in Nat /\ Version(n) <= Version(n)'
  BY VersionsAfter
<1>3. ASSUME NEW n \in Node \ {n1} PROVE Version(n)' <= Version(n2)'
  <2>1. CASE Version(n)' = Version(n)
    BY <1>1, <1>2, <2>1 DEF BehindRelay
  <2>2. CASE Version(n)' # Version(n) /\ n # n2
    <3>1. SaveDeviceNewer(p) /\ p.to = n /\ SyncVersion(p) = Version(n)'
      BY <2>2, VersionsAfter
    <3>2. p \in Syncs
      BY <3>1 DEF SaveDeviceNewer, Accepts, Syncs
    <3>3. SyncVersion(p) <= Version(n2)
      BY <2>2, <3>1, <3>2 DEF BehindRelay
    <3> QED
      BY <1>1, <1>2, <3>1, <3>3
  <2>3. CASE n = n2
    BY <1>1, <1>2, <2>3
  <2> QED
    BY <2>1, <2>2, <2>3
<1>4. ASSUME NEW x \in Syncs', x.to # n1, x.to = n2 => x.msg.sender # n1
      PROVE  SyncVersion(x) <= Version(n2)'
  <2>1. CASE x \in net
    <3>1. x \in Syncs
      BY <2>1 DEF Syncs
    <3>2. SyncVersion(x) <= Version(n2) /\ SyncVersion(x) \in Nat
      BY <1>4, <3>1, SyncVersionIsNat DEF BehindRelay
    <3> QED
      BY <1>1, <1>2, <3>2
  <2>2. CASE x \notin net
    <3>1. x \in net' /\ x.msg.body.type = "Sync"
      BY DEF Syncs
    <3>2. p.to # n1 /\ SyncVersion(x) <= Version(p.to)'
      BY <1>4, <2>2, <3>1, WhatIsSent
    <3>3. x.msg.body.data \in Data
      BY <3>1 DEF ChainBase, Inv, TypeOK, Packet, Message, Body
    <3>4. SyncVersion(x) \in Nat
      BY <3>3 DEF SyncVersion, Data
    <3>5. Version(p.to)' <= Version(n2)'
      BY <1>1, <1>3, <3>2
    <3> QED
      BY <1>1, <1>2, <3>2, <3>4, <3>5
  <2> QED
    BY <2>1, <2>2
<1> QED
  BY <1>3, <1>4 DEF BehindRelay, SyncVersion

\* A message of n1 does not get past n2 unseen.
LEMMA ThroughRelayKept ==
  ASSUME ChainBase, ChainBase', AllReached, ThroughRelay, NEW p \in net, ReceiveMessage(p)
  PROVE  ThroughRelay'
PROOF
<1> SUFFICES ASSUME NEW x \in Syncs', NEW n \in Node \ {n1, n2}, x.msg.sender = n1,
                    x.to = n \/ Seen(n, x.msg.id)'
             PROVE  Seen(n2, x.msg.id)'
  BY DEF ThroughRelay
<1>1. /\ n1 \in Node /\ n2 \in Node /\ n1 # n2 /\ p.to \in Node /\ p.msg.id \in MsgId
      /\ HeldLive
  BY ChainAssumption DEF ChainBase, Inv, TypeOK, Packet, Message
<1>2. /\ x \in net' /\ x.msg.body.type = "Sync" /\ x.msg.id \in LiveIds'
      /\ x.msg.id \in MsgId
  BY DEF Syncs, LiveIds, ChainBase, Inv, TypeOK, Packet, Message
<1>3. QuarantineStep(p.to, {p.msg.id})
  BY ReceiptDelivers DEF Delivery, ChainBase
<1>4. Seen(n2, x.msg.id) \/ (n2 = p.to /\ x.msg.id = p.msg.id) => Seen(n2, x.msg.id)'
  BY <1>1, <1>2, <1>3 DEF QuarantineStep
<1>5. Seen(n, x.msg.id)' => \/ Seen(n, x.msg.id)
                            \/ n = p.to /\ (x.msg.id = p.msg.id \/ x.msg.id \notin LiveIds)
  BY <1>2, <1>3 DEF QuarantineStep
<1>6. ASSUME p.msg = x.msg, p.to = n PROVE Seen(n2, x.msg.id)
  <2>1. p \in Syncs /\ p.msg.sender = n1
    BY <1>2, <1>6 DEF Syncs
  <2> QED
    BY <1>6, <2>1 DEF ThroughRelay
<1>7. CASE x \in net
  <2>1. x \in Syncs /\ x.msg.id \in LiveIds
    BY <1>2, <1>7 DEF Syncs, LiveIds
  <2>2. x.msg.id = p.msg.id => x.msg = p.msg
    BY <1>7 DEF ChainBase, Inv, UniqueIds
  <2>3. x.to = n \/ Seen(n, x.msg.id) => Seen(n2, x.msg.id)
    BY <2>1 DEF ThroughRelay
  <2> QED
    BY <1>4, <1>5, <1>6, <2>1, <2>2, <2>3
<1>8. CASE x \notin net /\ p.to = n1
  <2>1. x.msg.id \notin LiveIds /\ x.to = n2
    BY <1>2, <1>8, WhatIsSent
  <2>2. ~Seen(n, x.msg.id)'
    BY <1>1, <1>2, <1>3, <1>8, <2>1, NewIsNews
  <2> QED
    BY <2>1, <2>2
<1>9. CASE x \notin net /\ p.to # n1
  <2>1. x.msg = p.msg
    BY <1>2, <1>9, WhatIsSent
  <2>2. CASE p.to = n2
    BY <1>4, <2>1, <2>2
  <2>3. CASE p.to # n2
    <3>1. p \in Syncs /\ p.msg.sender = n1 /\ p.to \in Node \ {n1, n2}
      BY <1>1, <1>2, <1>9, <2>1, <2>3 DEF Syncs
    <3>2. Seen(n2, p.msg.id)
      BY <3>1 DEF ThroughRelay
    <3> QED
      BY <1>4, <2>1, <3>2
  <2> QED
    BY <2>2, <2>3
<1> QED
  BY <1>7, <1>8, <1>9

\* A packet on its way to a host that brings it up to date does so, or stays.
LEMMA NewsArrives ==
  ASSUME ChainBase, NEW p \in net, ReceiveMessage(p), NEW x \in Syncs, x.to # n1,
         ~Seen(x.to, x.msg.id), Version(x.to) < SyncVersion(x)
  PROVE  \/ Version(x.to)' = SyncVersion(x)
         \/ x \in Syncs' /\ ~Seen(x.to, x.msg.id)'
PROOF
<1>1. /\ net \ {p} \subseteq net' /\ QuarantineStep(p.to, {p.msg.id}) /\ TypeOK /\ UniqueIds
  BY ReceiptDelivers DEF Delivery, ChainBase, Inv
<1>2. x \in net /\ x.msg.body.type = "Sync" /\ p.to \in Node
  BY <1>1 DEF Syncs, TypeOK, Packet
<1>3. CASE x.to = p.to /\ x.msg.id = p.msg.id
  <2>1. x.msg = p.msg
    BY <1>1, <1>2, <1>3 DEF UniqueIds
  <2>2. SyncVersion(x) = SyncVersion(p)
    BY <2>1 DEF SyncVersion
  <2>3. SaveDeviceNewer(p)
    BY <1>2, <1>3, <2>1, <2>2, NewsIsStored
  <2>4. SyncVersion(p) = Version(x.to)'
    BY <1>2, <1>3, <2>3, VersionsAfter
  <2> QED
    BY <2>2, <2>4
<1>4. CASE x.to # p.to \/ x.msg.id # p.msg.id
  <2>1. x \in Syncs'
    BY <1>1, <1>2, <1>4 DEF Syncs
  <2>2. ~Seen(x.to, x.msg.id)'
    <3> DEFINE ids == {p.msg.id}
    <3>1. x.to # p.to \/ x.msg.id \notin ids
      BY <1>4
    <3>2. QuarantineStep(p.to, ids)
      BY <1>1
    <3> HIDE DEF ids
    <3> QED
      BY <1>1, <1>2, <3>1, <3>2, NewsStays
  <2> QED
    BY <2>1, <2>2
<1> QED
  BY <1>3, <1>4

\* n2 catches up with n1.
LEMMA RelayCatchesUp ==
  ASSUME ChainBase, ChainBase', AllReached, CatchingUp(n2, n1), NEW p \in net,
         ReceiveMessage(p)
  PROVE  CatchingUp(n2, n1)'
PROOF
<1>1. n1 \in Node /\ n2 \in Node /\ n1 # n2 /\ p.to \in Node
  BY ChainAssumption DEF ChainBase, Inv, TypeOK, Packet
<1>2. /\ Version(n1) \in Nat /\ Version(n1)' \in Nat
      /\ Version(n2) \in Nat /\ Version(n2)' \in Nat
      /\ Version(n2) <= Version(n2)' /\ Version(n2) <= Version(n1)
  BY <1>1, VersionsAfter, NoneAhead
<1>3. Version(n2)' <= Version(n1)'
  BY <1>1, NoneAheadAfter
<1>4. CASE SaveStateOwn(p) /\ p.to = n1
  <2>1. PICK m \in Message :
           /\ m.id \notin LiveIds
           /\ m.body.type = "Sync" /\ m.body.data = db'[n1][d1]
           /\ [to |-> n2, msg |-> m] \in net'
    BY <1>4, OwnerAnnounces
  <2> DEFINE x == [to |-> n2, msg |-> m]
  <2>2. x \in Syncs' /\ x.to = n2 /\ x.msg.id = m.id
    BY <2>1 DEF Syncs
  <2>3. SyncVersion(x) = Version(n1)'
    BY <2>1 DEF SyncVersion, Version
  <2>4. QuarantineStep(p.to, {p.msg.id}) /\ HeldLive /\ m.id \in MsgId
    BY ReceiptDelivers DEF Delivery, ChainBase, Message
  <2>5. ~Seen(n2, m.id)'
    BY <1>1, <1>4, <2>1, <2>4, NewIsNews
  <2> HIDE DEF x
  <2>6. ~Seen(n2, x.msg.id)'
    BY <2>2, <2>5
  <2> QED
    BY <2>2, <2>3, <2>6 DEF CatchingUp, SyncVersion
<1>5. CASE ~(SaveStateOwn(p) /\ p.to = n1)
  <2>1. Version(n1)' = Version(n1)
    BY <1>5, VersionSteps
  <2>2. CASE Version(n2) = Version(n1)
    BY <1>2, <1>3, <2>1, <2>2 DEF CatchingUp
  <2>3. CASE Version(n2) # Version(n1)
    <3>1. PICK x \in Syncs :
             x.to = n2 /\ ~Seen(n2, x.msg.id) /\ SyncVersion(x) = Version(n1)
      BY <2>3 DEF CatchingUp
    <3>2. Version(n2) < SyncVersion(x)
      BY <1>2, <2>3, <3>1
    <3>3. \/ Version(x.to)' = SyncVersion(x)
          \/ x \in Syncs' /\ ~Seen(x.to, x.msg.id)'
      BY <1>1, <3>1, <3>2, NewsArrives
    <3>4. \/ Version(n2)' = SyncVersion(x)
          \/ x \in Syncs' /\ ~Seen(n2, x.msg.id)'
      BY <3>1, <3>3
    <3> QED
      BY <2>1, <3>1, <3>4 DEF CatchingUp, SyncVersion
  <2> QED
    BY <2>2, <2>3
<1> QED
  BY <1>4, <1>5

\* n3 catches up with n2.
LEMMA ThirdCatchesUp ==
  ASSUME ChainBase, BehindRelay, BehindRelay', ThroughRelay, AllReached,
         CatchingUp(n3, n2), NEW p \in net, ReceiveMessage(p)
  PROVE  CatchingUp(n3, n2)'
PROOF
<1>1. /\ n1 \in Node /\ n2 \in Node /\ n3 \in Node /\ n1 # n2 /\ n1 # n3 /\ n2 # n3
      /\ p.to \in Node
  BY ChainAssumption DEF ChainBase, Inv, TypeOK, Packet
<1>2. /\ Version(n2) \in Nat /\ Version(n2)' \in Nat
      /\ Version(n3) \in Nat /\ Version(n3)' \in Nat
      /\ Version(n3) <= Version(n3)' /\ Version(n3) <= Version(n2)
      /\ Version(n3)' <= Version(n2)'
  BY <1>1, VersionsAfter DEF BehindRelay
<1>3. CASE Version(n2)' # Version(n2)
  <2>1. /\ SaveDeviceNewer(p) /\ p.to = n2 /\ SyncVersion(p) = Version(n2)'
        /\ Version(n2) < SyncVersion(p)
    BY <1>1, <1>3, VersionsAfter
  <2>2. p \in Syncs /\ ~Seen(n2, p.msg.id)
    BY <2>1 DEF SaveDeviceNewer, Accepts, Syncs
  <2>3. p.msg.sender = n1
    BY <1>1, <1>2, <2>1, <2>2, SyncVersionIsNat DEF BehindRelay
  <2> DEFINE x == [to |-> n3, msg |-> p.msg]
  <2>4. x \in net' /\ x.to = n3 /\ x.msg = p.msg
    BY <2>1, <2>3, RelayReachesThird
  <2> HIDE DEF x
  <2>5. x \in Syncs' /\ SyncVersion(x) = Version(n2)'
    BY <2>1, <2>2, <2>4 DEF Syncs, SyncVersion
  <2>6. ~Seen(n3, p.msg.id)
    BY <1>1, <2>2, <2>3 DEF ThroughRelay
  <2>7. QuarantineStep(p.to, {p.msg.id}) /\ p.msg.id \in MsgId /\ p.msg.id \in LiveIds
    BY ReceiptDelivers DEF Delivery, ChainBase, Inv, TypeOK, Packet, Message, LiveIds
  <2>8. ~Seen(n3, p.msg.id)'
    BY <1>1, <2>1, <2>6, <2>7 DEF QuarantineStep
  <2>9. ~Seen(n3, x.msg.id)'
    BY <2>4, <2>8
  <2> QED
    BY <2>4, <2>5, <2>9 DEF CatchingUp, SyncVersion
<1>4. CASE Version(n2)' = Version(n2)
  <2>2. CASE Version(n3) = Version(n2)
    BY <1>2, <1>4, <2>2 DEF CatchingUp
  <2>3. CASE Version(n3) # Version(n2)
    <3>1. PICK x \in Syncs :
             x.to = n3 /\ ~Seen(n3, x.msg.id) /\ SyncVersion(x) = Version(n2)
      BY <2>3 DEF CatchingUp
    <3>2. Version(n3) < SyncVersion(x)
      BY <1>2, <2>3, <3>1
    <3>3. \/ Version(x.to)' = SyncVersion(x)
          \/ x \in Syncs' /\ ~Seen(x.to, x.msg.id)'
      BY <1>1, <3>1, <3>2, NewsArrives
    <3>4. \/ Version(n3)' = SyncVersion(x)
          \/ x \in Syncs' /\ ~Seen(n3, x.msg.id)'
      BY <3>1, <3>3
    <3> QED
      BY <1>4, <3>1, <3>4 DEF CatchingUp, SyncVersion
  <2> QED
    BY <2>2, <2>3
<1> QED
  BY <1>3, <1>4

\* What holds of the states in flight along the chain.
Spreading == BehindRelay /\ ThroughRelay /\ CatchingUp(n2, n1) /\ CatchingUp(n3, n2)

\* A patch request stores nothing and spreads no state.
LEMMA RequestKeepsSpreading ==
  ASSUME ChainBase, Spreading, NEW s \in State, PatchStateRequest(n3, d1, s)
  PROVE  Spreading'
PROOF
<1>1. PICK m \in Message :
         /\ m.body = PatchBody(d1, s)
         /\ net \subseteq net'
         /\ \A x \in net' : x \in net \/ x.msg = m
         /\ QuarantineStep(n3, {})
  BY PatchIsSent
<1>2. m.body.type = "Patch"
  BY <1>1 DEF PatchBody
<1>3. Syncs' = Syncs
  BY <1>1, <1>2 DEF Syncs
<1>4. db' = db
  BY DEF PatchStateRequest
<1>5. \A x \in Syncs, n \in Node : Seen(n, x.msg.id)' <=> Seen(n, x.msg.id)
  <2> SUFFICES ASSUME NEW x \in Syncs, NEW n \in Node
               PROVE  Seen(n, x.msg.id)' <=> Seen(n, x.msg.id)
    OBVIOUS
  <2>1. x \in net /\ x \in net'
    BY <1>1 DEF Syncs
  <2>2. x.msg.id \in LiveIds /\ x.msg.id \in LiveIds' /\ x.msg.id \in MsgId
    BY <2>1 DEF LiveIds, ChainBase, Inv, TypeOK, Packet, Message
  <2> QED
    BY <1>1, <2>2 DEF QuarantineStep
<1>6. n1 \in Node /\ n2 \in Node /\ n3 \in Node
  BY ChainAssumption
<1>7. BehindRelay'
  BY <1>3, <1>4 DEF Spreading, BehindRelay, Version, SyncVersion
<1>8. ThroughRelay'
  BY <1>3, <1>5, <1>6 DEF Spreading, ThroughRelay
<1>9. CatchingUp(n2, n1)'
  BY <1>3, <1>4, <1>5, <1>6 DEF Spreading, CatchingUp, Version, SyncVersion
<1>10. CatchingUp(n3, n2)'
  BY <1>3, <1>4, <1>5, <1>6 DEF Spreading, CatchingUp, Version, SyncVersion
<1> QED
  BY <1>7, <1>8, <1>9, <1>10 DEF Spreading

\* No host of the chain stays behind: once no state is in flight, all three have
\* n1's.  What one of them lacks, a packet that is news to it brings.
THEOREM ChainConverges ==
  ASSUME AllReached, "expire" \notin Faults
  PROVE  ChainSpec => []Converged
PROOF
<1> DEFINE I == ChainBase /\ Spreading
<1>1. ChainInit => I
  <2> SUFFICES ASSUME ChainInit PROVE I
    OBVIOUS
  <2>1. n1 \in Node /\ n2 \in Node /\ n3 \in Node
    BY ChainAssumption
  <2>2. Syncs = {} /\ \A n \in Node : Version(n) = 0
    BY ChainAssumption DEF ChainInit, Syncs, Version
  <2> QED
    BY <2>1, <2>2, ChainInitHolds
       DEF Spreading, BehindRelay, ThroughRelay, CatchingUp
<1>2. I /\ [ChainNext]_chainVars => I'
  <2> SUFFICES ASSUME I, [ChainNext]_chainVars PROVE I'
    OBVIOUS
  <2>1. ChainBase'
    BY ChainBaseKept
  <2>2. ASSUME NEW p \in net, ReceiveMessage(p) PROVE Spreading'
    <3>1. BehindRelay' /\ ThroughRelay' /\ CatchingUp(n2, n1)'
      BY <2>1, <2>2, BehindRelayKept, ThroughRelayKept, RelayCatchesUp DEF Spreading
    <3> QED
      BY <2>1, <2>2, <3>1, ThirdCatchesUp DEF Spreading
  <2>3. CASE AcceptPatch
    BY <2>1, <2>3, RequestKeepsSpreading DEF AcceptPatch
  <2>4. CASE UNCHANGED chainVars
    BY <2>1, <2>4
       DEF chainVars, Spreading, BehindRelay, ThroughRelay, CatchingUp, Syncs, Seen,
           Version, SyncVersion
  <2> QED
    BY <2>1, <2>2, <2>3, <2>4 DEF ChainNext, Expire
<1>3. I => Converged
  <2> SUFFICES ASSUME I, \A p \in net : p.msg.body.type # "Sync", NEW n \in {n1, n2, n3}
               PROVE  db[n][d1] = db[n1][d1]
    BY DEF Converged
  <2>1. Syncs = {} /\ n \in Node
    BY ChainAssumption DEF Syncs
  <2>2. Version(n2) = Version(n1) /\ Version(n3) = Version(n2)
    BY <2>1 DEF Spreading, CatchingUp
  <2>3. Version(n) = Version(n1)
    BY <2>2
  <2> QED
    BY <2>1, <2>3, NoneAhead
<1> HIDE DEF I
<1> QED
  BY <1>1, <1>2, <1>3, PTL DEF ChainSpec

=============================================================================
