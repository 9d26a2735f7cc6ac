------------------------- MODULE GossipRegisterProofs -------------------------
(***************************************************************************)
(* The invariants of the abstract store, for any number of hosts, devices  *)
(* and states and without a bound on the versions.                         *)
(***************************************************************************)
EXTENDS GossipRegister, TLAPS

\* The reports that repeat a copy are those of the copies that exist.
LEMMA CopyReportsDef ==
  \A r : r \in CopyReports <=>
           \E n \in Node, d \in Device :
             copy[n][d] # Absent /\ r = [device |-> d, data |-> copy[n][d]]
  BY DEF CopyReports

\* The same of the next state.
LEMMA CopyReportsDefPrime ==
  \A r : r \in CopyReports' <=>
           \E n \in Node, d \in Device :
             copy'[n][d] # Absent /\ r = [device |-> d, data |-> copy'[n][d]]
  BY DEF CopyReports

\* What is known of a device has the type of a report.
LEMMA KnownIsReport ==
  ASSUME TypeOK PROVE Known \subseteq Report
  BY CopyReportsDef DEF TypeOK, Known, Report

\* The shape of what hosts hold and hear: the type invariant.
THEOREM TypeCorrect == Spec => []TypeOK
<1>1. Init => TypeOK
  BY DEF Init, TypeOK
<1>2. TypeOK /\ [Next]_vars => TypeOK'
  <2> SUFFICES ASSUME TypeOK, [Next]_vars PROVE TypeOK'
    OBVIOUS
  <2> USE DEF TypeOK
  <2>1. ASSUME NEW fresh, fresh \subseteq Report, Circulate(fresh)
        PROVE  gossip' \in SUBSET Report
    BY <2>1, KnownIsReport DEF Circulate, Known
  <2>2. ASSUME NEW n \in Node, NEW d \in Device, NEW k \in Kind, NEW s \in State,
               Create(n, d, k, s)
        PROVE  TypeOK'
    <3> DEFINE new == [owner |-> n, kind |-> k, state |-> s, version |-> 0]
    <3>1. new \in Data
      BY DEF Data
    <3>2. copy' = [copy EXCEPT ![n][d] = new]
      BY <2>2 DEF Create
    <3> HIDE DEF new
    <3>3. copy' \in [Node -> [Device -> Data \cup {Absent}]]
      BY <3>1, <3>2
    <3> QED
      BY <3>3, <2>1, <2>2 DEF Create
  <2>3. ASSUME NEW n \in Node, NEW d \in Device, NEW s \in State, Write(n, d, s)
        PROVE  TypeOK'
    <3> DEFINE new == Written(copy[n][d], s)
    <3>1. copy[n][d] \in Data
      BY <2>3 DEF Write
    <3>2. new \in Data
      BY <3>1 DEF Data, Written
    <3>3. /\ copy' = [copy EXCEPT ![n][d] = new]
          /\ Circulate({[device |-> d, data |-> new]})
      BY <2>3 DEF Write
    <3> HIDE DEF new
    <3>4. copy' \in [Node -> [Device -> Data \cup {Absent}]]
      BY <3>2, <3>3
    <3>5. {[device |-> d, data |-> new]} \subseteq Report
      BY <3>2 DEF Report
    <3> QED
      BY <3>3, <3>4, <3>5, <2>1
  <2>4. ASSUME NEW n \in Node, NEW r \in gossip, Learn(n, r)
        PROVE  TypeOK'
    <3>1. r.device \in Device /\ r.data \in Data
      BY DEF Report
    <3>2. copy' \in [Node -> [Device -> Data \cup {Absent}]]
      BY <3>1, <2>4 DEF Learn
    <3> QED
      BY <3>2, <2>1, <2>4 DEF Learn
  <2>5. ASSUME NEW n \in Node, NEW d \in Device, Forget(n, d)
        PROVE  TypeOK'
    <3>1. copy' \in [Node -> [Device -> Data \cup {Absent}]]
      BY <2>5 DEF Forget
    <3> QED
      BY <3>1, <2>1, <2>5 DEF Forget
  <2>6. CASE Tell
    BY <2>6, <2>1 DEF Tell
  <2>7. CASE UNCHANGED vars
    BY <2>7 DEF vars
  <2> QED
    BY <2>2, <2>3, <2>4, <2>5, <2>6, <2>7 DEF Next
<1> QED
  BY <1>1, <1>2, PTL DEF Spec

-----------------------------------------------------------------------------

\* The invariant that is inductive: that a device has one owner is what makes
\* the owner's version a bound on every other.
Inv == TypeOK /\ OwnerIsNewest /\ OneOwner /\ OneStatePerVersion

\* Creating a device keeps the invariant: nobody has it, so nobody tells of it.
LEMMA CreateKeepsInv ==
  ASSUME NEW n \in Node, NEW d \in Device, NEW k \in Kind, NEW s \in State,
         Absent \notin Data, Inv, TypeOK', Create(n, d, k, s)
  PROVE  Inv'
PROOF
<1> DEFINE data == [owner |-> n, kind |-> k, state |-> s, version |-> 0]
           new  == [device |-> d, data |-> data]
<1>1. data \in Data /\ data # Absent /\ new \in Report
  BY DEF Data, Report
<1>2. /\ \A m \in Node : copy[m][d] = Absent
      /\ copy' = [copy EXCEPT ![n][d] = data]
      /\ Circulate({})
  BY DEF Create
<1>3. data.owner = n /\ data.version = 0 /\ new.device = d /\ new.data = data
  OBVIOUS
<1> HIDE DEF data, new
<1>4. \A r \in Known : r \in Report /\ r.data.owner \in Node /\ r.device \in Device
                       /\ r.data.version \in Nat
  BY KnownIsReport DEF Inv, Report, Data
<1>5. \A r \in Known : r.device # d
  BY <1>2, <1>4 DEF Inv, OwnerIsNewest
<1>6. \A m \in Node, e \in Device :
        copy'[m][e] = IF m = n /\ e = d THEN data ELSE copy[m][e]
  BY <1>2 DEF Inv, TypeOK
<1>7. Known' \subseteq Known \cup {new}
  <2>1. CopyReports' \subseteq Known \cup {new}
    BY <1>6, CopyReportsDef, CopyReportsDefPrime DEF Known, new
  <2> QED
    BY <2>1, <1>2 DEF Circulate, Known
<1>8. OwnerIsNewest'
  <2> SUFFICES ASSUME NEW r \in Known'
               PROVE  LET own == copy'[r.data.owner][r.device] IN
                        /\ own # Absent
                        /\ own.owner = r.data.owner
                        /\ r.data.version <= own.version
    BY DEF OwnerIsNewest
  <2>1. CASE r = new
    BY <2>1, <1>1, <1>3, <1>6
  <2>2. CASE r \in Known
    BY <2>2, <1>4, <1>5, <1>6 DEF Inv, OwnerIsNewest
  <2> QED
    BY <2>1, <2>2, <1>7
<1>9. OneOwner'
  BY <1>3, <1>5, <1>7 DEF Inv, OneOwner
<1>10. OneStatePerVersion'
  BY <1>3, <1>5, <1>7 DEF Inv, OneStatePerVersion
<1> QED
  BY <1>8, <1>9, <1>10 DEF Inv

\* A write by the owner keeps the invariant: its version is newer than all.
LEMMA WriteKeepsInv ==
  ASSUME NEW n \in Node, NEW d \in Device, NEW s \in State,
         Absent \notin Data, Inv, TypeOK', Write(n, d, s)
  PROVE  Inv'
PROOF
<1> DEFINE data == Written(copy[n][d], s)
           new  == [device |-> d, data |-> data]
           old  == [device |-> d, data |-> copy[n][d]]
<1>1. /\ copy[n][d] # Absent
      /\ copy[n][d].owner = n
      /\ copy' = [copy EXCEPT ![n][d] = data]
      /\ Circulate({new})
  BY DEF Write
<1>2. copy[n][d] \in Data /\ copy[n][d].version \in Nat
  BY <1>1 DEF Inv, TypeOK, Data
<1>3. /\ data \in Data /\ data # Absent
      /\ data.owner = n /\ data.version = copy[n][d].version + 1
  BY <1>1, <1>2 DEF Data, Written
<1>4. new.device = d /\ new.data = data
  OBVIOUS
<1>5. old \in Known /\ old.device = d /\ old.data = copy[n][d]
  BY <1>1, CopyReportsDef DEF Known
<1>6. \A r \in Known : r.device = d => r.data.owner = n
  BY <1>1, <1>5 DEF Inv, OneOwner
<1> HIDE DEF data, new, old
<1>7. \A r \in Known : r \in Report /\ r.data.owner \in Node /\ r.device \in Device
                       /\ r.data.version \in Nat
  BY KnownIsReport DEF Inv, Report, Data
<1>8. \A r \in Known : r.device = d => r.data.version <= copy[n][d].version
  BY <1>6 DEF Inv, OwnerIsNewest
<1>9. \A m \in Node, e \in Device :
        copy'[m][e] = IF m = n /\ e = d THEN data ELSE copy[m][e]
  BY <1>1 DEF Inv, TypeOK
<1>10. Known' \subseteq Known \cup {new}
  <2>1. CopyReports' \subseteq Known \cup {new}
    BY <1>9, CopyReportsDef, CopyReportsDefPrime DEF Known, new
  <2> QED
    BY <2>1, <1>1 DEF Circulate, Known
<1>11. OwnerIsNewest'
  <2> SUFFICES ASSUME NEW r \in Known'
               PROVE  LET own == copy'[r.data.owner][r.device] IN
                        /\ own # Absent
                        /\ own.owner = r.data.owner
                        /\ r.data.version <= own.version
    BY DEF OwnerIsNewest
  <2>1. CASE r = new
    BY <2>1, <1>2, <1>3, <1>4, <1>9
  <2>2. CASE r \in Known /\ r.device = d
    BY <2>2, <1>2, <1>3, <1>6, <1>7, <1>8, <1>9
  <2>3. CASE r \in Known /\ r.device # d
    BY <2>3, <1>7, <1>9 DEF Inv, OwnerIsNewest
  <2> QED
    BY <2>1, <2>2, <2>3, <1>10
<1>12. OneOwner'
  BY <1>3, <1>4, <1>6, <1>10 DEF Inv, OneOwner
<1>13. OneStatePerVersion'
  <2>1. \A r \in Known : r.device = d => r.data.version # data.version
    BY <1>2, <1>3, <1>7, <1>8
  <2> QED
    BY <2>1, <1>4, <1>10 DEF Inv, OneStatePerVersion
<1> QED
  BY <1>11, <1>12, <1>13 DEF Inv

\* A step that makes nothing known and leaves the owners' copies alone keeps
\* the invariant.
LEMMA NothingNewKeepsInv ==
  ASSUME Inv, TypeOK', Known' \subseteq Known,
         \A n \in Node, d \in Device :
           copy[n][d] # Absent /\ copy[n][d].owner = n => copy'[n][d] = copy[n][d]
  PROVE  Inv'
PROOF
<1>1. \A r \in Known : r.data.owner \in Node /\ r.device \in Device
  BY KnownIsReport DEF Inv, Report, Data
<1>2. OwnerIsNewest'
  BY <1>1 DEF Inv, OwnerIsNewest
<1>3. OneOwner' /\ OneStatePerVersion'
  BY DEF Inv, OneOwner, OneStatePerVersion
<1> QED
  BY <1>2, <1>3 DEF Inv

\* Every step keeps the invariant.
LEMMA NextKeepsInv ==
  ASSUME Absent \notin Data, Inv, TypeOK', [Next]_vars
  PROVE  Inv'
PROOF
<1>1. ASSUME NEW n \in Node, NEW d \in Device, NEW s \in State, Write(n, d, s)
      PROVE  Inv'
  BY <1>1, WriteKeepsInv
<1>2. ASSUME NEW n \in Node, NEW d \in Device, NEW s \in State, NEW k \in Kind,
             Create(n, d, k, s)
      PROVE  Inv'
  BY <1>2, CreateKeepsInv
<1>3. ASSUME NEW n \in Node, NEW r \in gossip, Learn(n, r)
      PROVE  Inv'
  <2>1. r.device \in Device /\ r = [device |-> r.device, data |-> r.data]
    BY DEF Inv, TypeOK, Report
  <2>2. /\ copy' = [copy EXCEPT ![n][r.device] = r.data]
        /\ Circulate({})
        /\ copy[n][r.device] = Absent \/ copy[n][r.device].owner # n
    BY <1>3 DEF Learn
  <2>3. \A m \in Node, e \in Device :
          copy'[m][e] = IF m = n /\ e = r.device THEN r.data ELSE copy[m][e]
    BY <2>1, <2>2 DEF Inv, TypeOK
  <2>4. CopyReports' \subseteq Known
    BY <2>1, <2>3, CopyReportsDef, CopyReportsDefPrime DEF Known
  <2>5. Known' \subseteq Known
    BY <2>2, <2>4 DEF Circulate, Known
  <2> QED
    BY <2>2, <2>3, <2>5, NothingNewKeepsInv
<1>4. ASSUME NEW n \in Node, NEW d \in Device, Forget(n, d)
      PROVE  Inv'
  <2>1. \A m \in Node, e \in Device :
          copy'[m][e] = IF m = n /\ e = d THEN Absent ELSE copy[m][e]
    BY <1>4 DEF Forget, Inv, TypeOK
  <2>2. CopyReports' \subseteq Known
    BY <2>1, CopyReportsDef, CopyReportsDefPrime DEF Known
  <2>3. Known' \subseteq Known
    BY <1>4, <2>2 DEF Forget, Circulate, Known
  <2> QED
    BY <1>4, <2>1, <2>3, NothingNewKeepsInv DEF Forget
<1>5. CASE Tell
  <2>1. CopyReports' \subseteq Known
    BY <1>5, CopyReportsDef, CopyReportsDefPrime DEF Tell, Known
  <2>2. Known' \subseteq Known
    BY <1>5, <2>1 DEF Tell, Circulate, Known
  <2> QED
    BY <1>5, <2>2, NothingNewKeepsInv DEF Tell
<1>6. CASE UNCHANGED vars
  <2>1. copy' = copy /\ Known' = Known
    BY <1>6 DEF vars, Known, CopyReports
  <2> QED
    BY <2>1, NothingNewKeepsInv
<1> QED
  BY <1>1, <1>2, <1>3, <1>4, <1>5, <1>6 DEF Next

\* No host is ahead of the owner of a device, a device keeps its owner, and a
\* version identifies a state, in every reachable state.
THEOREM Safety ==
  ASSUME Absent \notin Data
  PROVE  Spec => []Inv
PROOF
<1>1. Init => Inv
  BY CopyReportsDef DEF Init, Inv, TypeOK, OwnerIsNewest, OneOwner, OneStatePerVersion, Known
<1>2. Inv /\ TypeOK' /\ [Next]_vars => Inv'
  BY NextKeepsInv
<1> QED
  BY <1>1, <1>2, TypeCorrect, PTL DEF Spec

\* A host replaces a copy only by a newer version, in every behaviour.
THEOREM NoRegress ==
  ASSUME Absent \notin Data
  PROVE  Spec => NeverRegress
PROOF
<1> DEFINE Newer ==
      \A n \in Node, d \in Device :
        copy[n][d] # Absent /\ copy'[n][d] # Absent /\ copy'[n][d] # copy[n][d]
          => copy'[n][d].version > copy[n][d].version
<1>1. Inv /\ Next => Newer
  <2> SUFFICES ASSUME Inv, Next, NEW m \in Node, NEW e \in Device,
                      copy[m][e] # Absent, copy'[m][e] # Absent,
                      copy'[m][e] # copy[m][e]
               PROVE  copy'[m][e].version > copy[m][e].version
    OBVIOUS
  <2>1. copy \in [Node -> [Device -> Data \cup {Absent}]] /\ copy[m][e].version \in Nat
    BY DEF Inv, TypeOK, Data
  <2>2. ASSUME NEW n \in Node, NEW d \in Device, NEW s \in State, Write(n, d, s)
        PROVE  copy'[m][e].version > copy[m][e].version
    <3>1. m = n /\ e = d /\ copy'[m][e] = Written(copy[m][e], s)
      BY <2>1, <2>2 DEF Write
    <3> QED
      BY <2>1, <3>1 DEF Written
  <2>3. ASSUME NEW n \in Node, NEW d \in Device, NEW s \in State, NEW k \in Kind,
               Create(n, d, k, s)
        PROVE  FALSE
    BY <2>1, <2>3 DEF Create
  <2>4. ASSUME NEW n \in Node, NEW r \in gossip, Learn(n, r)
        PROVE  copy'[m][e].version > copy[m][e].version
    <3>1. r.device \in Device /\ r.data.version \in Nat
      BY DEF Inv, TypeOK, Report, Data
    <3>2. m = n /\ e = r.device /\ copy'[m][e] = r.data
      BY <2>1, <2>4, <3>1 DEF Learn
    <3> QED
      BY <2>1, <2>4, <3>1, <3>2 DEF Learn
  <2>5. ASSUME NEW n \in Node, NEW d \in Device, Forget(n, d)
        PROVE  FALSE
    BY <2>1, <2>5 DEF Forget
  <2>6. CASE Tell
    BY <2>6 DEF Tell
  <2> QED
    BY <2>2, <2>3, <2>4, <2>5, <2>6 DEF Next
<1>2. Inv /\ [Next]_vars => [Newer]_vars
  BY <1>1
<1> QED
  BY <1>2, Safety, PTL DEF Spec, NeverRegress
=============================================================================
