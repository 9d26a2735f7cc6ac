----------------------------- MODULE MCStateSync ------------------------------
(***************************************************************************)
(* Three hosts that know each other and have joined, and one device of the *)
(* first: a state that a few requests lead to.  The third may leave and    *)
(* join again.                                                             *)
(***************************************************************************)
EXTENDS StateSync, TLC

CONSTANTS n1, n2, n3, d1, light, off

ASSUME MeshAssumption ==
  n1 \in Node /\ n3 \in Node /\ d1 \in Device /\ light \in Kind /\ off \in State

MeshInit ==
  /\ db = [n \in Node |-> [d \in Device |->
            IF n = n1 THEN [owner |-> n1, kind |-> light, state |-> off, version |-> 0]
                      ELSE Absent]]
  /\ peers = [n \in Node |-> Node \ {n}]
  /\ held = [n \in Node |-> {}]
  /\ joined = [n \in Node |-> TRUE]
  /\ net = {}

InFlight(type) == \E p \in net : p.msg.sender = n3 /\ p.msg.body.type = type

\* The owner patches, the others delete what they know, n3 leaves and joins
\* again; packets are reordered and lost, and a message comes to a host over
\* several others.  What n3 says of itself is not lost, and its next word does
\* not overtake it: nothing in the code would repair that.
MeshNext ==
  \/ \E s \in State : PatchStateOwn(n1, d1, s)
  \/ \E n \in Node : DeleteDevice(n, d1)
  \/ joined[n3] /\ ~InFlight("Hail") /\ LeaveNetwork(n3)
  \/ ~joined[n3] /\ ~InFlight("Farewell") /\ JoinNetwork(n3)
  \/ \E p \in net : ReceiveMessage(p)
  \/ \E p \in net : p.msg.body.type \notin {"Hail", "Farewell"} /\ DropPacket(p)

MeshSpec == MeshInit /\ [][MeshNext]_vars

\* Ids name messages in flight and nothing else, and a new one may be any other.
IdSymmetry == Permutations(MsgId)

-----------------------------------------------------------------------------

\* "All peers are responsible to update their peers lists on hail and farewell
\* messages" (README.md:25): once its last hail or farewell has arrived, a host
\* is in the peer lists of the others if, and only if, it is connected.
PeersFollow ==
  ~InFlight("Hail") /\ ~InFlight("Farewell") =>
    \A q \in Node \ {n3} : n3 \in peers[q] <=> joined[n3]

=============================================================================
