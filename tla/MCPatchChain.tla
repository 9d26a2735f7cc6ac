---------------------------- MODULE MCPatchChain ------------------------------
(***************************************************************************)
(* A chain of three hosts that have joined: n1 owns a device, n3 patches   *)
(* it, and they know of each other only through n2.  The model counts the  *)
(* patches that n3 accepted from its user.                                 *)
(***************************************************************************)
EXTENDS StateSync

CONSTANTS n1, n2, n3, d1, light, off

ASSUME ChainAssumption ==
  /\ {n1, n2, n3} \subseteq Node /\ n1 # n2 /\ n2 # n3 /\ n1 # n3
  /\ d1 \in Device /\ light \in Kind \ {UnknownKind} /\ off \in State

VARIABLE accepted   \* number of patch requests n3 has accepted

chainVars == <<db, peers, held, joined, net, accepted>>

ChainInit ==
  /\ db = [n \in Node |-> [d \in Device |->
            [owner |-> n1, kind |-> light, state |-> off, version |-> 0]]]
  /\ peers = [n \in Node |-> IF n = n2 THEN {n1, n3} ELSE {n2}]
  /\ held = [n \in Node |-> {}]
  /\ joined = [n \in Node |-> TRUE]
  /\ net = {}
  /\ accepted = 0

AcceptPatch ==
  /\ accepted < MaxVersion
  /\ \E s \in State : PatchStateRequest(n3, d1, s)
  /\ accepted' = accepted + 1

ChainNext ==
  \/ AcceptPatch
  \/ /\ \/ \E p \in net : ReceiveMessage(p)
        \/ \E n \in Node : \E h \in held[n] : Expire(n, h)
     /\ UNCHANGED accepted

ChainSpec == ChainInit /\ [][ChainNext]_chainVars

FairChainSpec == ChainSpec /\ Fairness

-----------------------------------------------------------------------------

\* A patch request is acted on at most once, however many hosts pass it on:
\* the owner's version counts the patches its users asked for.
PatchedAtMostOnce == \A n \in Node : db[n][d1].version <= accepted

\* No accepted patch gets lost between the hosts that pass it on: when none is
\* on its way, the owner has acted on every one.
NoPatchLost ==
  (\A p \in net : p.msg.body.type # "Patch") => db[n1][d1].version = accepted

\* No host is left behind with an old state: when no state is on its way, all
\* hosts of the chain have the owner's.
Converged ==
  (\A p \in net : p.msg.body.type # "Sync") =>
    \A n \in {n1, n2, n3} : db[n][d1] = db[n1][d1]

\* When no packet is lost, every accepted patch request reaches the owner over
\* the hosts between, and the state it makes reaches every host.
PatchReachesAll ==
  \A k \in 1..MaxVersion :
    accepted = k ~> \A n \in Node : db[n][d1].version >= k

\* The hosts stop correcting each other when nothing new is patched: "the
\* client is responsible not to spam peers with duplicates" (README.md).
CorrectionsEnd == <>[][\A p \in net : ~SaveDeviceNotNewer(p)]_vars

=============================================================================
