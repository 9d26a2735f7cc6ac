-------------------------- MODULE MessageCacheProofs --------------------------
(***************************************************************************)
(* Theorems about MessageCache: its types, that no message is accepted     *)
(* twice within TTL, and that it implements Quarantine, for any messages,  *)
(* peers, quarantine and clock.                                            *)
(***************************************************************************)
EXTENDS MessageCache, TLAPS

USE TimeAssumption

\* A cache as the operations leave it: no message without a receiver, no
\* deadline further away than TTL.
Shape(cache) ==
  /\ DOMAIN cache \subseteq Msg
  /\ \A i \in DOMAIN cache :
       /\ DOMAIN cache[i] \in (SUBSET Peer) \ {{}}
       /\ \A p \in DOMAIN cache[i] : cache[i][p] \in 0..(MaxTime + TTL)

\* Every entry of cache is before its deadline.
Clean(cache) ==
  \A i \in DOMAIN cache : \A p \in DOMAIN cache[i] : cache[i][p] >= now

-----------------------------------------------------------------------------
(* What the operations of the cache do.                                    *)

\* What is cleared has the shape of a cache and no outdated pair.
LEMMA ClearedShape ==
  ASSUME Shape(entries), now \in 0..MaxTime
  PROVE  Shape(ClearOutdated) /\ Clean(ClearOutdated)
<1> DEFINE left(i) == {p \in DOMAIN entries[i] : ~(entries[i][p] < now)}
           C == {i \in DOMAIN entries : left(i) # {}}
<1>1. /\ DOMAIN ClearOutdated = C
      /\ \A i \in C : ClearOutdated[i] = [p \in left(i) |-> entries[i][p]]
  BY DEF ClearOutdated
<1>2. ASSUME NEW i \in C
      PROVE  /\ DOMAIN ClearOutdated[i] = left(i)
             /\ \A p \in left(i) : ClearOutdated[i][p] = entries[i][p]
  <2> HIDE DEF left, C
  <2>1. ClearOutdated[i] = [p \in left(i) |-> entries[i][p]]
    BY <1>1
  <2> QED
    BY <2>1
<1>4. ASSUME NEW i \in C, NEW p \in left(i)
      PROVE  /\ entries[i][p] \in 0..(MaxTime + TTL)
             /\ entries[i][p] >= now
  BY DEF Shape
<1>3. \A i \in C : i \in Msg /\ left(i) # {} /\ left(i) \subseteq Peer
  BY DEF Shape
<1> HIDE DEF left, C
<1> QED
  BY <1>1, <1>2, <1>3, <1>4 DEF Shape, Clean

\* Clearing removes the pairs that are past their deadline and no others.
LEMMA ClearedEntry ==
  ASSUME Shape(entries), now \in 0..MaxTime, NEW i, NEW p
  PROVE  /\ i \in DOMAIN ClearOutdated /\ p \in DOMAIN ClearOutdated[i]
              <=> i \in DOMAIN entries /\ p \in DOMAIN entries[i] /\ entries[i][p] >= now
         /\ i \in DOMAIN ClearOutdated /\ p \in DOMAIN ClearOutdated[i]
              => ClearOutdated[i][p] = entries[i][p]
<1> DEFINE left(j) == {q \in DOMAIN entries[j] : ~(entries[j][q] < now)}
           C == {j \in DOMAIN entries : left(j) # {}}
<1>1. /\ DOMAIN ClearOutdated = C
      /\ \A j \in C : ClearOutdated[j] = [q \in left(j) |-> entries[j][q]]
  BY DEF ClearOutdated
<1>2. \A j \in C : DOMAIN ClearOutdated[j] = left(j)
  <2> HIDE DEF left, C
  <2> QED
    BY <1>1
<1>3. i \in DOMAIN entries => \A q \in DOMAIN entries[i] : entries[i][q] \in Nat
  BY DEF Shape
<1>4. now \in Nat
  OBVIOUS
<1>5. p \in left(i) <=> p \in DOMAIN entries[i] /\ ~(entries[i][p] < now)
  OBVIOUS
<1>6. i \in C <=> i \in DOMAIN entries /\ left(i) # {}
  OBVIOUS
<1>7. i \in C /\ p \in left(i) => ClearOutdated[i][p] = entries[i][p]
  BY <1>1
<1> HIDE DEF left, C
<1> QED
  BY <1>1, <1>2, <1>3, <1>4, <1>5, <1>6, <1>7

\* Holding keeps the pairs that are there, with their deadlines, and adds the
\* new ones with a deadline of their own.
LEMMA HoldEntry ==
  ASSUME NEW cache, NEW i, NEW qs, NEW j, NEW p
  PROVE  /\ j \in DOMAIN Hold(cache, i, qs) /\ p \in DOMAIN Hold(cache, i, qs)[j]
              <=> \/ j \in DOMAIN cache /\ p \in DOMAIN cache[j]
                  \/ j = i /\ p \in qs
         /\ j \in DOMAIN cache /\ p \in DOMAIN cache[j]
              => Hold(cache, i, qs)[j][p] = cache[j][p]
         /\ j = i /\ p \in qs /\ ~(i \in DOMAIN cache /\ p \in DOMAIN cache[i])
              => Hold(cache, i, qs)[j][p] = now + TTL
<1> DEFINE old == IF i \in DOMAIN cache THEN cache[i] ELSE <<>>
           all == [q \in DOMAIN old \cup qs |->
                     IF q \in DOMAIN old THEN old[q] ELSE now + TTL]
<1>1. CASE qs = {}
  BY <1>1 DEF Hold
<1>2. CASE qs # {}
  <2>1. Hold(cache, i, qs) =
          [k \in DOMAIN cache \cup {i} |-> IF k = i THEN all ELSE cache[k]]
    BY <1>2 DEF Hold
  <2>2. /\ DOMAIN all = DOMAIN old \cup qs
        /\ \A q \in DOMAIN old \cup qs :
             all[q] = IF q \in DOMAIN old THEN old[q] ELSE now + TTL
    OBVIOUS
  <2>3. /\ i \in DOMAIN cache => old = cache[i]
        /\ i \notin DOMAIN cache => DOMAIN old = {}
    OBVIOUS
  <2> HIDE DEF old, all
  <2>4. /\ DOMAIN Hold(cache, i, qs) = DOMAIN cache \cup {i}
        /\ Hold(cache, i, qs)[i] = all
        /\ \A k \in DOMAIN cache : k # i => Hold(cache, i, qs)[k] = cache[k]
    BY <2>1
  <2>5. CASE j = i
    BY <2>2, <2>3, <2>4, <2>5
  <2>6. CASE j # i
    BY <2>4, <2>6
  <2> QED
    BY <2>5, <2>6
<1> QED
  BY <1>1, <1>2

\* Holding keeps the shape of a cache.
LEMMA HoldShape ==
  ASSUME NEW cache, Shape(cache), now \in 0..MaxTime,
         NEW i \in Msg, NEW qs \in SUBSET Peer
  PROVE  Shape(Hold(cache, i, qs))
<1> DEFINE H == Hold(cache, i, qs)
<1>1. CASE qs = {}
  BY <1>1 DEF Hold
<1>2. CASE qs # {}
  <2>1. DOMAIN H = DOMAIN cache \cup {i}
    BY <1>2 DEF Hold
  <2>2. DOMAIN H \subseteq Msg
    BY <2>1 DEF Shape
  <2>3. ASSUME NEW j \in DOMAIN H, NEW p \in DOMAIN H[j]
        PROVE  p \in Peer /\ H[j][p] \in 0..(MaxTime + TTL)
    <3>1. CASE j \in DOMAIN cache /\ p \in DOMAIN cache[j]
      <4>1. H[j][p] = cache[j][p]
        BY <3>1, HoldEntry
      <4> QED
        BY <3>1, <4>1 DEF Shape
    <3>2. CASE ~(j \in DOMAIN cache /\ p \in DOMAIN cache[j])
      <4>1. j = i /\ p \in qs
        BY <2>3, <3>2, HoldEntry
      <4>2. H[j][p] = now + TTL
        BY <3>2, <4>1, HoldEntry
      <4> QED
        BY <4>1, <4>2
    <3> QED
      BY <3>1, <3>2
  <2>4. ASSUME NEW j \in DOMAIN H
        PROVE  DOMAIN H[j] # {}
    <3>1. CASE j = i
      <4>1. PICK q \in qs : TRUE
        BY <1>2
      <4>2. q \in DOMAIN H[j]
        BY <3>1, <4>1, HoldEntry
      <4> QED
        BY <4>2
    <3>2. CASE j # i
      <4>1. j \in DOMAIN cache /\ DOMAIN cache[j] # {}
        BY <2>1, <3>2 DEF Shape
      <4>2. PICK q \in DOMAIN cache[j] : TRUE
        BY <4>1
      <4>3. q \in DOMAIN H[j]
        BY <4>1, <4>2, HoldEntry
      <4> QED
        BY <4>3
    <3> QED
      BY <3>1, <3>2
  <2> HIDE DEF H
  <2>5. Shape(H)
    BY <2>2, <2>3, <2>4 DEF Shape
  <2> QED
    BY <2>5 DEF H
<1> QED
  BY <1>1, <1>2

-----------------------------------------------------------------------------
(* Types, and acceptance.                                                  *)

\* A message that was accepted is held until TTL has passed.
Remembered ==
  \A i \in Msg :
    acceptedAt[i] # Nothing =>
      \/ now > acceptedAt[i] + TTL
      \/ /\ i \in DOMAIN entries
         /\ \E p \in DOMAIN entries[i] : entries[i][p] >= acceptedAt[i] + TTL

Inv == TypeOK /\ Remembered

\* The types of the entries are the shape of a cache.
LEMMA TypeIsShape == TypeOK => Shape(entries) /\ now \in 0..MaxTime
BY DEF TypeOK, Shape

\* Clearing forgets no message that was accepted less than TTL ago.
LEMMA ClearedRemembers ==
  ASSUME Inv, NEW i \in Msg, acceptedAt[i] # Nothing
  PROVE  \/ now > acceptedAt[i] + TTL
         \/ /\ i \in DOMAIN ClearOutdated
            /\ \E p \in DOMAIN ClearOutdated[i] : ClearOutdated[i][p] >= acceptedAt[i] + TTL
<1>1. Shape(entries) /\ now \in 0..MaxTime /\ acceptedAt[i] \in 0..MaxTime
  BY TypeIsShape DEF Inv, TypeOK
<1>2. CASE ~(now > acceptedAt[i] + TTL)
  <2>1. PICK p \in DOMAIN entries[i] : /\ i \in DOMAIN entries
                                       /\ entries[i][p] >= acceptedAt[i] + TTL
    BY <1>2 DEF Inv, Remembered
  <2>2. entries[i][p] \in 0..(MaxTime + TTL)
    BY <1>1, <2>1 DEF Shape
  <2>3. entries[i][p] >= now
    BY <1>1, <1>2, <2>1, <2>2
  <2> QED
    BY <1>1, <2>1, <2>3, ClearedEntry
<1> QED
  BY <1>2

\* Nor does holding anything else.
LEMMA HoldRemembers ==
  ASSUME NEW cache, NEW i, NEW qs, NEW j, NEW bound,
         j \in DOMAIN cache, \E p \in DOMAIN cache[j] : cache[j][p] >= bound
  PROVE  /\ j \in DOMAIN Hold(cache, i, qs)
         /\ \E p \in DOMAIN Hold(cache, i, qs)[j] : Hold(cache, i, qs)[j][p] >= bound
<1>1. PICK p \in DOMAIN cache[j] : cache[j][p] >= bound
  OBVIOUS
<1>2. /\ j \in DOMAIN Hold(cache, i, qs) /\ p \in DOMAIN Hold(cache, i, qs)[j]
      /\ Hold(cache, i, qs)[j][p] = cache[j][p]
  BY HoldEntry
<1> QED
  BY <1>1, <1>2

\* What a send does to the entries keeps the invariant.
LEMMA SendKeepsInv ==
  ASSUME Inv, NEW i \in Msg, NEW qs \in SUBSET Peer,
         entries' = Hold(ClearOutdated, i, qs), UNCHANGED <<now, verdict, acceptedAt>>
  PROVE  Inv'
<1>1. Shape(entries) /\ now \in 0..MaxTime
  BY TypeIsShape DEF Inv
<1>2. Shape(entries')
  <2>1. Shape(ClearOutdated)
    BY <1>1, ClearedShape
  <2> QED
    BY <1>1, <2>1, HoldShape
<1>3. TypeOK'
  BY <1>2 DEF Inv, TypeOK, Shape
<1>4. Remembered'
  <2> SUFFICES ASSUME NEW j \in Msg, acceptedAt[j] # Nothing, ~(now > acceptedAt[j] + TTL)
               PROVE  /\ j \in DOMAIN entries'
                      /\ \E p \in DOMAIN entries'[j] : entries'[j][p] >= acceptedAt[j] + TTL
    BY DEF Remembered
  <2>1. /\ j \in DOMAIN ClearOutdated
        /\ \E p \in DOMAIN ClearOutdated[j] : ClearOutdated[j][p] >= acceptedAt[j] + TTL
    BY ClearedRemembers
  <2> DEFINE cache == ClearOutdated
             bound == acceptedAt[j] + TTL
  <2>2. j \in DOMAIN cache /\ \E p \in DOMAIN cache[j] : cache[j][p] >= bound
    BY <2>1
  <2>3. entries' = Hold(cache, i, qs)
    OBVIOUS
  <2> HIDE DEF cache, bound
  <2>4. j \in DOMAIN entries' /\ \E p \in DOMAIN entries'[j] : entries'[j][p] >= bound
    BY <2>2, <2>3, HoldRemembers
  <2> QED
    BY <2>4 DEF bound
<1> QED
  BY <1>3, <1>4 DEF Inv

\* So does receiving a message.
LEMMA ReceiveKeepsInv ==
  ASSUME Inv, NEW i \in Msg, NEW p \in Peer, ReceiveMessage(i, p)
  PROVE  Inv'
<1>1. Shape(entries) /\ now \in 0..MaxTime
  BY TypeIsShape DEF Inv
<1>2. Shape(ClearOutdated)
  BY <1>1, ClearedShape
<1>3. CASE i \in DOMAIN ClearOutdated
  <2>1. /\ entries' = ClearOutdated
        /\ verdict' = [msg |-> i, accepted |-> FALSE]
        /\ now' = now
    BY <1>3 DEF ReceiveMessage, ContainsMessage
  <2>2. acceptedAt' = acceptedAt
    BY <1>3 DEF ReceiveMessage, ContainsMessage, Inv, TypeOK
  <2>3. TypeOK'
    BY <1>2, <2>1, <2>2 DEF Inv, TypeOK, Shape
  <2>4. Remembered'
    BY <2>1, <2>2, ClearedRemembers DEF Remembered
  <2> QED
    BY <2>3, <2>4 DEF Inv
<1>4. CASE i \notin DOMAIN ClearOutdated
  <2>1. /\ entries' = Hold(ClearOutdated, i, {p})
        /\ verdict' = [msg |-> i, accepted |-> TRUE]
        /\ acceptedAt' = [acceptedAt EXCEPT ![i] = now]
        /\ now' = now
    BY <1>4 DEF ReceiveMessage, ContainsMessage
  <2>2. Shape(entries')
    BY <1>1, <1>2, <2>1, HoldShape
  <2>3. TypeOK'
    BY <1>1, <2>1, <2>2 DEF Inv, TypeOK, Shape
  <2>4. ASSUME NEW j \in Msg, acceptedAt'[j] # Nothing, ~(now > acceptedAt'[j] + TTL)
        PROVE  /\ j \in DOMAIN entries'
               /\ \E q \in DOMAIN entries'[j] : entries'[j][q] >= acceptedAt'[j] + TTL
    <3> DEFINE cache == ClearOutdated
    <3>1. entries' = Hold(cache, i, {p}) /\ i \notin DOMAIN cache
      BY <1>4, <2>1
    <3>2. CASE j = i
      <4>1. acceptedAt'[j] = now
        BY <2>1, <3>2 DEF Inv, TypeOK
      <4> HIDE DEF cache
      <4>2. /\ j \in DOMAIN entries' /\ p \in DOMAIN entries'[j]
            /\ entries'[j][p] = now + TTL
        BY <3>1, <3>2, HoldEntry
      <4>3. now + TTL >= now + TTL
        BY <1>1
      <4> QED
        BY <4>1, <4>2, <4>3
    <3>3. CASE j # i
      <4>1. acceptedAt'[j] = acceptedAt[j]
        BY <2>1, <3>3 DEF Inv, TypeOK
      <4> DEFINE bound == acceptedAt[j] + TTL
      <4>2. j \in DOMAIN cache /\ \E q \in DOMAIN cache[j] : cache[j][q] >= bound
        BY <2>4, <4>1, ClearedRemembers
      <4> HIDE DEF cache, bound
      <4>3. j \in DOMAIN entries' /\ \E q \in DOMAIN entries'[j] : entries'[j][q] >= bound
        BY <3>1, <4>2, HoldRemembers
      <4> QED
        BY <4>1, <4>3 DEF bound
    <3> QED
      BY <3>2, <3>3
  <2>5. Remembered'
    BY <2>1, <2>4 DEF Remembered
  <2> QED
    BY <2>3, <2>5 DEF Inv
<1> QED
  BY <1>3, <1>4

\* Time makes nothing forgotten, only out of date.
LEMMA TickKeepsInv ==
  ASSUME Inv, Tick
  PROVE  Inv'
<1>1. TypeOK'
  BY DEF Inv, TypeOK, Tick
<1>2. ASSUME NEW i \in Msg, acceptedAt[i] # Nothing, now > acceptedAt[i] + TTL
      PROVE  now' > acceptedAt[i] + TTL
  <2>1. acceptedAt[i] \in Nat /\ now \in Nat
    BY <1>2 DEF Inv, TypeOK
  <2> QED
    BY <1>2, <2>1 DEF Tick
<1>3. Remembered'
  BY <1>2 DEF Inv, Remembered, Tick
<1> QED
  BY <1>1, <1>3 DEF Inv

\* The invariant holds in every reachable state.
THEOREM Invariance == Spec => []Inv
<1>1. Init => Inv
  BY DEF Init, Inv, TypeOK, Remembered
<1>2. Inv /\ [Next]_vars => Inv'
  <2> SUFFICES ASSUME Inv, [Next]_vars PROVE Inv'
    OBVIOUS
  <2>1. ASSUME NEW i \in Msg, NEW p \in Peer, ReceiveMessage(i, p) PROVE Inv'
    BY <2>1, ReceiveKeepsInv
  <2>2. ASSUME NEW i \in Msg, NEW qs \in SUBSET Peer, SendToSafePeers(i, qs) PROVE Inv'
    BY <2>2, SendKeepsInv DEF SendToSafePeers
  <2>3. ASSUME NEW i \in Msg, NEW qs \in SUBSET Peer, SendToAnyPeers(i, qs) PROVE Inv'
    BY <2>3, SendKeepsInv DEF SendToAnyPeers
  <2>4. CASE Reset
    BY <2>4 DEF Reset, Inv, TypeOK, Remembered
  <2>5. CASE Tick
    BY <2>5, TickKeepsInv
  <2>6. CASE UNCHANGED vars
    BY <2>6 DEF vars, Inv, TypeOK, Remembered
  <2> QED
    BY <2>1, <2>2, <2>3, <2>4, <2>5, <2>6 DEF Next
<1> QED
  BY <1>1, <1>2, PTL DEF Spec

\* The entries and the history have their types (clearOutdated leaves no
\* message without a receiver, and no deadline is further away than TTL).
THEOREM TypeCorrect == Spec => []TypeOK
<1>1. Inv => TypeOK
  BY DEF Inv
<1> QED
  BY <1>1, Invariance, PTL

\* The reader does not accept a message twice within TTL: what it accepted it
\* finds in the cache until then, whatever is held and cleared meanwhile.
THEOREM AcceptedOnce == Spec => AcceptedOncePerTTL
<1> DEFINE Fresh(i) ==
      acceptedAt[i] # Nothing /\ acceptedAt'[i] \notin {acceptedAt[i], Nothing}
        => acceptedAt'[i] > acceptedAt[i] + TTL
<1>1. Inv /\ [Next]_vars => [\A i \in Msg : Fresh(i)]_vars
  <2> SUFFICES ASSUME Inv, Next, NEW i \in Msg,
                      acceptedAt[i] # Nothing, acceptedAt'[i] \notin {acceptedAt[i], Nothing}
               PROVE  acceptedAt'[i] > acceptedAt[i] + TTL
    BY DEF vars
  <2>1. PICK j \in Msg, p \in Peer : ReceiveMessage(j, p)
    BY DEF Next, SendToSafePeers, SendToAnyPeers, Reset, Tick
  <2>2. j = i /\ i \notin DOMAIN ClearOutdated
    BY <2>1 DEF ReceiveMessage, ContainsMessage, Inv, TypeOK
  <2>3. acceptedAt'[i] = now
    BY <2>1, <2>2 DEF ReceiveMessage, ContainsMessage, Inv, TypeOK
  <2>4. now > acceptedAt[i] + TTL
    BY <2>2, ClearedRemembers
  <2> QED
    BY <2>3, <2>4
<1> QED
  BY <1>1, Invariance, PTL DEF Spec, AcceptedOncePerTTL

-----------------------------------------------------------------------------
(* The refinement.  The pairs of a cache as the quarantine sees them.      *)

\* What is in the quarantine is a pair of the cache that is not past its deadline.
LEMMA LiveMember ==
  ASSUME NEW cache, NEW time, NEW x
  PROVE  x \in Live(cache, time) <=>
           \E i \in DOMAIN cache : \E p \in DOMAIN cache[i] :
             x = <<i, p, cache[i][p]>> /\ cache[i][p] >= time
BY DEF Live

\* Clearing is not visible in the quarantine.
LEMMA ClearedLive ==
  ASSUME Shape(entries), now \in 0..MaxTime
  PROVE  Live(ClearOutdated, now) = Live(entries, now)
<1> SUFFICES ASSUME NEW x
             PROVE  x \in Live(ClearOutdated, now) <=> x \in Live(entries, now)
  OBVIOUS
<1>1. ASSUME x \in Live(ClearOutdated, now)
      PROVE  x \in Live(entries, now)
  <2> DEFINE cache == ClearOutdated
  <2>1. PICK i \in DOMAIN cache : \E p \in DOMAIN cache[i] :
          x = <<i, p, cache[i][p]>> /\ cache[i][p] >= now
    BY <1>1, LiveMember
  <2>2. PICK p \in DOMAIN cache[i] : x = <<i, p, cache[i][p]>> /\ cache[i][p] >= now
    BY <2>1
  <2>3. /\ i \in DOMAIN entries /\ p \in DOMAIN entries[i] /\ entries[i][p] >= now
        /\ cache[i][p] = entries[i][p]
    BY <2>1, <2>2, ClearedEntry
  <2> HIDE DEF cache
  <2> QED
    BY <2>2, <2>3, LiveMember
<1>2. ASSUME x \in Live(entries, now)
      PROVE  x \in Live(ClearOutdated, now)
  <2> DEFINE cache == ClearOutdated
  <2>1. PICK i \in DOMAIN entries : \E p \in DOMAIN entries[i] :
          x = <<i, p, entries[i][p]>> /\ entries[i][p] >= now
    BY <1>2, LiveMember
  <2>2. PICK p \in DOMAIN entries[i] : x = <<i, p, entries[i][p]>> /\ entries[i][p] >= now
    BY <2>1
  <2>3. /\ i \in DOMAIN cache /\ p \in DOMAIN cache[i]
        /\ cache[i][p] = entries[i][p]
    BY <2>1, <2>2, ClearedEntry
  <2> HIDE DEF cache
  <2>4. x \in Live(cache, now)
    BY <2>2, <2>3, LiveMember
  <2> QED
    BY <2>4 DEF cache
<1> QED
  BY <1>1, <1>2

\* A message is in quarantine if the cache, once cleared, contains it.
LEMMA InQuarantineIsHeld ==
  ASSUME Shape(entries), now \in 0..MaxTime, NEW i
  PROVE  Q!InQuarantine(i) <=> i \in DOMAIN ClearOutdated
<1> DEFINE cache == ClearOutdated
<1>1. Shape(cache) /\ Clean(cache) /\ Live(cache, now) = Live(entries, now)
  BY ClearedShape, ClearedLive
<1> HIDE DEF cache
<1>2. ASSUME Q!InQuarantine(i)
      PROVE  i \in DOMAIN cache
  <2>1. PICK x \in Live(cache, now) : x[1] = i
    BY <1>1, <1>2 DEF Q!InQuarantine
  <2> QED
    BY <2>1, LiveMember
<1>3. ASSUME i \in DOMAIN cache
      PROVE  Q!InQuarantine(i)
  <2>1. PICK p \in DOMAIN cache[i] : TRUE
    BY <1>1, <1>3 DEF Shape
  <2>2. cache[i][p] >= now
    BY <1>1, <1>3, <2>1 DEF Clean
  <2>3. <<i, p, cache[i][p]>> \in Live(cache, now)
    BY <1>3, <2>1, <2>2, LiveMember
  <2> QED
    BY <1>1, <2>3 DEF Q!InQuarantine
<1> QED
  BY <1>2, <1>3 DEF cache

\* Holding in the cleared cache is holding in the quarantine.
LEMMA HoldLive ==
  ASSUME Shape(entries), now \in 0..MaxTime, NEW i, NEW qs
  PROVE  Live(Hold(ClearOutdated, i, qs), now) = Q!HoldAll(i, qs)
<1> DEFINE cache == ClearOutdated
           H == Hold(cache, i, qs)
           added(q) == q \in qs /\ ~\E x \in Live(entries, now) : x[1] = i /\ x[2] = q
<1>1. Clean(cache) /\ Live(cache, now) = Live(entries, now)
  BY ClearedShape, ClearedLive
<1> HIDE DEF cache
<1>2. ASSUME NEW j, NEW p
      PROVE  /\ j \in DOMAIN H /\ p \in DOMAIN H[j]
                  <=> \/ j \in DOMAIN cache /\ p \in DOMAIN cache[j]
                      \/ j = i /\ p \in qs
             /\ j \in DOMAIN cache /\ p \in DOMAIN cache[j] => H[j][p] = cache[j][p]
             /\ j = i /\ p \in qs /\ ~(i \in DOMAIN cache /\ p \in DOMAIN cache[i])
                  => H[j][p] = now + TTL
  BY HoldEntry
<1> HIDE DEF H
<1>3. ASSUME NEW q
      PROVE  (\E x \in Live(entries, now) : x[1] = i /\ x[2] = q)
               <=> i \in DOMAIN cache /\ q \in DOMAIN cache[i]
  <2>1. ASSUME NEW x \in Live(entries, now), x[1] = i, x[2] = q
        PROVE  i \in DOMAIN cache /\ q \in DOMAIN cache[i]
    BY <1>1, <2>1, LiveMember
  <2>2. ASSUME i \in DOMAIN cache, q \in DOMAIN cache[i]
        PROVE  \E x \in Live(entries, now) : x[1] = i /\ x[2] = q
    <3>1. cache[i][q] >= now
      BY <1>1, <2>2 DEF Clean
    <3>2. <<i, q, cache[i][q]>> \in Live(cache, now)
      BY <2>2, <3>1, LiveMember
    <3> QED
      BY <1>1, <3>2
  <2> QED
    BY <2>1, <2>2
<1>4. Q!HoldAll(i, qs) = Live(entries, now) \cup {<<i, q, now + TTL>> : q \in {r \in qs : added(r)}}
  BY DEF Q!HoldAll
<1>5. \A q : added(q) <=> q \in qs /\ ~(i \in DOMAIN cache /\ q \in DOMAIN cache[i])
  BY <1>3
<1> HIDE DEF added
<1> SUFFICES ASSUME NEW x
             PROVE  x \in Live(H, now) <=>
                      \/ x \in Live(cache, now)
                      \/ \E q \in qs : added(q) /\ x = <<i, q, now + TTL>>
  BY <1>1, <1>4 DEF cache, H
<1>6. ASSUME x \in Live(H, now)
      PROVE  \/ x \in Live(cache, now)
             \/ \E q \in qs : added(q) /\ x = <<i, q, now + TTL>>
  <2>1. PICK j \in DOMAIN H : \E p \in DOMAIN H[j] : x = <<j, p, H[j][p]>> /\ H[j][p] >= now
    BY <1>6, LiveMember
  <2>2. PICK p \in DOMAIN H[j] : x = <<j, p, H[j][p]>> /\ H[j][p] >= now
    BY <2>1
  <2>3. CASE j \in DOMAIN cache /\ p \in DOMAIN cache[j]
    <3>1. x = <<j, p, cache[j][p]>> /\ cache[j][p] >= now
      BY <1>2, <2>2, <2>3
    <3> QED
      BY <2>3, <3>1, LiveMember
  <2>4. CASE ~(j \in DOMAIN cache /\ p \in DOMAIN cache[j])
    <3>1. j = i /\ p \in qs
      BY <1>2, <2>1, <2>2, <2>4
    <3>2. added(p) /\ H[j][p] = now + TTL
      BY <1>2, <1>5, <2>4, <3>1
    <3> QED
      BY <2>2, <3>1, <3>2
  <2> QED
    BY <2>3, <2>4
<1>7. ASSUME x \in Live(cache, now)
      PROVE  x \in Live(H, now)
  <2>1. PICK j \in DOMAIN cache : \E p \in DOMAIN cache[j] :
          x = <<j, p, cache[j][p]>> /\ cache[j][p] >= now
    BY <1>7, LiveMember
  <2>2. PICK p \in DOMAIN cache[j] : x = <<j, p, cache[j][p]>> /\ cache[j][p] >= now
    BY <2>1
  <2>3. /\ j \in DOMAIN H /\ p \in DOMAIN H[j]
        /\ x = <<j, p, H[j][p]>> /\ H[j][p] >= now
    BY <1>2, <2>1, <2>2
  <2> QED
    BY <2>3, LiveMember
<1>8. ASSUME NEW q \in qs, added(q), x = <<i, q, now + TTL>>
      PROVE  x \in Live(H, now)
  <2>1. i \in DOMAIN H /\ q \in DOMAIN H[i] /\ H[i][q] = now + TTL
    BY <1>2, <1>5, <1>8
  <2>2. now + TTL >= now
    OBVIOUS
  <2> QED
    BY <1>8, <2>1, <2>2, LiveMember
<1> QED
  BY <1>6, <1>7, <1>8

\* A step of the cache is a step of the quarantine.
LEMMA StepImplements ==
  ASSUME Inv, [Next]_vars
  PROVE  [Q!Next]_(Q!vars)
<1>1. Shape(entries) /\ now \in 0..MaxTime
  BY TypeIsShape DEF Inv
<1>2. ASSUME NEW i \in Msg, NEW p \in Peer, ReceiveMessage(i, p)
      PROVE  Q!Receive(i, p)
  <2>1. Q!InQuarantine(i) <=> ContainsMessage(ClearOutdated, i)
    BY <1>1, InQuarantineIsHeld DEF ContainsMessage
  <2>2. CASE ContainsMessage(ClearOutdated, i)
    <3>1. entries' = ClearOutdated /\ now' = now /\ verdict' = [msg |-> i, accepted |-> FALSE]
      BY <1>2, <2>2 DEF ReceiveMessage
    <3>2. Live(entries', now') = Live(entries, now)
      BY <1>1, <3>1, ClearedLive
    <3> QED
      BY <2>1, <2>2, <3>1, <3>2 DEF Q!Receive
  <2>3. CASE ~ContainsMessage(ClearOutdated, i)
    <3>1. /\ entries' = Hold(ClearOutdated, i, {p})
          /\ now' = now /\ verdict' = [msg |-> i, accepted |-> TRUE]
      BY <1>2, <2>3 DEF ReceiveMessage
    <3>2. Live(entries', now') = Q!HoldAll(i, {p})
      BY <1>1, <3>1, HoldLive
    <3> QED
      BY <2>1, <2>3, <3>1, <3>2 DEF Q!Receive
  <2> QED
    BY <2>2, <2>3
<1>3. ASSUME NEW i \in Msg, NEW qs \in SUBSET Peer, entries' = Hold(ClearOutdated, i, qs),
             UNCHANGED <<now, verdict>>
      PROVE  Q!Send(i, qs)
  BY <1>1, <1>3, HoldLive DEF Q!Send
<1>4. ASSUME NEW i \in Msg, NEW qs \in SUBSET Peer, SendToAnyPeers(i, qs)
      PROVE  Q!Next
  BY <1>3, <1>4 DEF SendToAnyPeers, Q!Next
<1>5. ASSUME NEW i \in Msg, NEW qs \in SUBSET Peer, SendToSafePeers(i, qs)
      PROVE  Q!Next
  BY <1>3, <1>5 DEF SendToSafePeers, Q!Next
<1>6. ASSUME Reset
      PROVE  Q!Reset
  <2>1. entries' = <<>> /\ UNCHANGED <<now, verdict>>
    BY <1>6 DEF Reset
  <2>2. \A x : x \notin Live(<<>>, now')
    BY LiveMember
  <2> QED
    BY <2>1, <2>2 DEF Q!Reset
<1>7. ASSUME Tick
      PROVE  Q!Tick
  <2>1. entries' = entries /\ verdict' = verdict /\ now' = now + 1
    BY <1>7 DEF Tick
  <2>2. ASSUME NEW x
        PROVE  x \in Live(entries, now + 1) <=> x \in Live(entries, now) /\ x[3] >= now + 1
    <3>1. ASSUME NEW i \in DOMAIN entries, NEW p \in DOMAIN entries[i],
                 x = <<i, p, entries[i][p]>>
          PROVE  /\ x[3] = entries[i][p]
                 /\ entries[i][p] >= now + 1 => entries[i][p] >= now
      <4>1. entries[i][p] \in 0..(MaxTime + TTL)
        BY <1>1 DEF Shape
      <4> QED
        BY <1>1, <3>1, <4>1
    <3> QED
      BY <3>1, LiveMember
  <2>3. Live(entries', now') = {x \in Live(entries, now) : x[3] >= now'}
    BY <2>1, <2>2
  <2> QED
    BY <2>1, <2>3 DEF Q!Tick
<1>8. CASE UNCHANGED vars
  BY <1>8 DEF vars, Q!vars
<1> QED
  BY <1>2, <1>4, <1>5, <1>6, <1>7, <1>8 DEF Next, Q!Next

\* The cache that clears its entries only when it is asked implements one in
\* which they vanish at their deadline, for every clock and quarantine.
THEOREM Refinement == Spec => ImplementsQuarantine
<1>1. Init => Q!Init
  <2> SUFFICES ASSUME Init PROVE Q!Init
    OBVIOUS
  <2>1. \A x : x \notin Live(<<>>, now)
    BY LiveMember
  <2> QED
    BY <2>1 DEF Init, Q!Init
<1>2. Inv /\ [Next]_vars => [Q!Next]_(Q!vars)
  BY StepImplements
<1> QED
  BY <1>1, <1>2, Invariance, PTL DEF Spec, ImplementsQuarantine, Q!Spec

=============================================================================
