---------------------------- MODULE GossipRegister ----------------------------
(***************************************************************************)
(* What the replicas promise about a device, with peers, message ids,      *)
(* quarantine and the network abstracted away.  Each device is a register  *)
(* that one host, its owner, writes; every write increments the version.   *)
(* The other hosts hold copies, learnt from reports that circulate.        *)
(* Reports may be repeated, reordered or lost at any time, and a host that *)
(* is not the owner may forget its copy.  StateSync implements this.       *)
(***************************************************************************)
EXTENDS Naturals

CONSTANTS
  Node,     \* hosts
  Device,   \* device ids
  Kind,     \* device types
  State,    \* device states
  Absent    \* the value of a copy that a host does not hold

VARIABLES
  copy,     \* copy[n][d]: what host n holds of device d, or Absent
  gossip    \* the reports in circulation

vars == <<copy, gossip>>

Data   == [owner : Node, kind : Kind, state : State, version : Nat]
Report == [device : Device, data : Data]

\* The reports that repeat a copy some host holds.
CopyReports ==
  UNION {{[device |-> d, data |-> copy[n][d]] : d \in {e \in Device : copy[n][e] # Absent}} :
           n \in Node}

Init ==
  /\ copy = [n \in Node |-> [d \in Device |-> Absent]]
  /\ gossip = {}

\* Circulating reports may be lost; new ones repeat a copy some host holds.
Circulate(fresh) == gossip' \subseteq gossip \cup CopyReports \cup fresh

\* A host creates a device that nobody has, and owns it.
Create(n, d, k, s) ==
  /\ \A m \in Node : copy[m][d] = Absent
  /\ copy' = [copy EXCEPT ![n][d] =
                [owner |-> n, kind |-> k, state |-> s, version |-> 0]]
  /\ Circulate({})

\* The device with a new state, one version further.
Written(data, s) ==
  [owner |-> data.owner, kind |-> data.kind, state |-> s, version |-> data.version + 1]

\* The owner writes: the only step that makes a version.
Write(n, d, s) ==
  /\ copy[n][d] # Absent
  /\ copy[n][d].owner = n
  /\ copy' = [copy EXCEPT ![n][d] = Written(copy[n][d], s)]
  /\ Circulate({[device |-> d, data |-> Written(copy[n][d], s)]})

\* A host that is not the owner takes over a report newer than its copy.
Learn(n, r) ==
  /\ r \in gossip
  /\ \/ copy[n][r.device] = Absent
     \/ /\ copy[n][r.device].owner # n
        /\ copy[n][r.device].version < r.data.version
  /\ copy' = [copy EXCEPT ![n][r.device] = r.data]
  /\ Circulate({})

Forget(n, d) ==
  /\ copy[n][d] # Absent
  /\ copy[n][d].owner # n
  /\ copy' = [copy EXCEPT ![n][d] = Absent]
  /\ Circulate({})

Tell == copy' = copy /\ Circulate({})

Next ==
  \/ \E n \in Node, d \in Device, s \in State :
       Write(n, d, s) \/ \E k \in Kind : Create(n, d, k, s)
  \/ \E n \in Node, r \in gossip : Learn(n, r)
  \/ \E n \in Node, d \in Device : Forget(n, d)
  \/ Tell

Spec == Init /\ [][Next]_vars

-----------------------------------------------------------------------------

TypeOK ==
  /\ copy \in [Node -> [Device -> Data \cup {Absent}]]
  /\ gossip \in SUBSET Report

Known == gossip \cup CopyReports   \* everything anybody holds or hears

\* Whatever is held or reported of a device, its owner has it too, in a
\* version at least as new: no host can be ahead of the owner.
OwnerIsNewest ==
  \A r \in Known :
    LET own == copy[r.data.owner][r.device] IN
      /\ own # Absent
      /\ own.owner = r.data.owner
      /\ r.data.version <= own.version

\* A device never changes hands.
OneOwner ==
  \A r1, r2 \in Known : r1.device = r2.device => r1.data.owner = r2.data.owner

\* The version identifies the content: two reports or copies of one device
\* with the same version are equal.
OneStatePerVersion ==
  \A r1, r2 \in Known :
    r1.device = r2.device /\ r1.data.version = r2.data.version => r1 = r2

\* A copy is only ever replaced by a newer one.
NeverRegress ==
  [][\A n \in Node, d \in Device :
       copy[n][d] # Absent /\ copy'[n][d] # Absent
         /\ copy'[n][d] # copy[n][d]
       => copy'[n][d].version > copy[n][d].version]_vars

=============================================================================
