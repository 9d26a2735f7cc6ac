----------------------------- MODULE MessageCache -----------------------------
(***************************************************************************)
(* The message cache of main/data/messagecache.go, called as the handlers  *)
(* of main/message call it: one reader asks for a message and holds it, a  *)
(* relay asks for each peer and holds what it sent.  No time passes within *)
(* one such sequence; between two of them any time may.                    *)
(***************************************************************************)
EXTENDS Naturals

CONSTANTS
  Msg,      \* message ids
  Peer,     \* peer ids
  TTL,      \* timeToLive
  Nothing,  \* no verdict yet
  MaxTime   \* bound of the model: the clock stops there

ASSUME TimeAssumption == TTL \in Nat /\ MaxTime \in Nat

VARIABLES
  now,      \* time.Now()
  entries,  \* entries[i][p]: until when message i is held for peer p
  verdict,  \* what the reader decided of the message it received last
  acceptedAt \* history: when the reader last accepted a message since Reset

vars == <<now, entries, verdict, acceptedAt>>

\* Mutants: a message whose receivers are all gone stays; a pair goes when its
\* deadline is reached instead of passed.
MutantKeepEmpty ==
  LET left(i) == {p \in DOMAIN entries[i] : ~(entries[i][p] < now)}
  IN  [i \in DOMAIN entries |-> [p \in left(i) |-> entries[i][p]]]
MutantTooEarly ==
  LET left(i) == {p \in DOMAIN entries[i] : ~(entries[i][p] <= now)}
  IN  [i \in {j \in DOMAIN entries : left(j) # {}} |->
         [p \in left(i) |-> entries[i][p]]]

\* clearOutdated: drop the pairs whose deadline is before now, then the
\* messages that have no receiver left.
ClearOutdated ==
  LET left(i) == {p \in DOMAIN entries[i] : ~(entries[i][p] < now)}
  IN  [i \in {j \in DOMAIN entries : left(j) # {}} |->
         [p \in left(i) |-> entries[i][p]]]

\* ContainsMessageForPeer and ContainsMessage, once the cache is cleared.
ContainsMessageForPeer(cache, i, p) ==
  i \in DOMAIN cache /\ p \in DOMAIN cache[i] /\ cache[i][p] > now

ContainsMessage(cache, i) == i \in DOMAIN cache

\* Hold for each of the peers: a pair that is there keeps its deadline.
Hold(cache, i, qs) ==
  LET old == IF i \in DOMAIN cache THEN cache[i] ELSE <<>>
      all == [q \in DOMAIN old \cup qs |->
                IF q \in DOMAIN old THEN old[q] ELSE now + TTL]
  IN  IF qs = {} THEN cache
      ELSE [j \in DOMAIN cache \cup {i} |-> IF j = i THEN all ELSE cache[j]]

Init ==
  /\ now = 0
  /\ entries = <<>>
  /\ verdict = Nothing
  /\ acceptedAt = [i \in Msg |-> Nothing]

\* Mutant: the cache is not cleared before it is asked.
MutantReceiveMessage(i, p) ==
  LET seen == ContainsMessage(entries, i) IN
  /\ verdict' = [msg |-> i, accepted |-> ~seen]
  /\ entries' = IF seen THEN entries ELSE Hold(entries, i, {p})
  /\ acceptedAt' = [acceptedAt EXCEPT ![i] = IF seen THEN @ ELSE now]
  /\ now' = now

\* The reader ignores a message in quarantine, else puts it there and handles it.
ReceiveMessage(i, p) ==
  LET seen == ContainsMessage(ClearOutdated, i) IN
  /\ verdict' = [msg |-> i, accepted |-> ~seen]
  /\ entries' = IF seen THEN ClearOutdated ELSE Hold(ClearOutdated, i, {p})
  /\ acceptedAt' = [acceptedAt EXCEPT ![i] = IF seen THEN @ ELSE now]
  /\ now' = now

\* getRandomPeers for this message, and Hold for those it was sent to.
SendToSafePeers(i, qs) ==
  /\ \A q \in qs : ~ContainsMessageForPeer(ClearOutdated, i, q)
  /\ entries' = Hold(ClearOutdated, i, qs)
  /\ UNCHANGED <<now, verdict, acceptedAt>>

\* getRandomPeers for the zero id, as for patches: every peer is safe.
SendToAnyPeers(i, qs) ==
  /\ entries' = Hold(ClearOutdated, i, qs)
  /\ UNCHANGED <<now, verdict, acceptedAt>>

Reset ==
  /\ entries' = <<>>
  /\ acceptedAt' = [i \in Msg |-> Nothing]
  /\ UNCHANGED <<now, verdict>>

Tick ==
  /\ now < MaxTime
  /\ now' = now + 1
  /\ UNCHANGED <<entries, verdict, acceptedAt>>

Next ==
  \/ \E i \in Msg, p \in Peer : ReceiveMessage(i, p)
  \/ \E i \in Msg, qs \in SUBSET Peer : SendToSafePeers(i, qs) \/ SendToAnyPeers(i, qs)
  \/ Reset
  \/ Tick

Spec == Init /\ [][Next]_vars

-----------------------------------------------------------------------------
(* Properties.                                                             *)

TypeOK ==
  /\ now \in 0..MaxTime
  /\ DOMAIN entries \subseteq Msg
  /\ \A i \in DOMAIN entries :
       /\ DOMAIN entries[i] \in (SUBSET Peer) \ {{}}
       /\ \A p \in DOMAIN entries[i] : entries[i][p] \in 0..(MaxTime + TTL)
  /\ acceptedAt \in [Msg -> 0..MaxTime \cup {Nothing}]
  /\ verdict \in [msg : Msg, accepted : BOOLEAN] \cup {Nothing}

\* The pairs of a cache that are not past their deadline.
Live(cache, time) ==
  {x \in UNION {{<<i, p, cache[i][p]>> : p \in DOMAIN cache[i]} : i \in DOMAIN cache} :
     x[3] >= time}

\* Outdated entries that nobody has cleared yet are invisible: the reader
\* decides of every message as if each pair vanished at its deadline.
Q == INSTANCE Quarantine WITH live <- Live(entries, now)
ImplementsQuarantine == Q!Spec

\* The reader does not accept a message twice within TTL, whatever else is held
\* and cleared meanwhile, unless the cache is reset.
AcceptedOncePerTTL ==
  [][\A i \in Msg :
       acceptedAt[i] # Nothing /\ acceptedAt'[i] \notin {acceptedAt[i], Nothing}
         => acceptedAt'[i] > acceptedAt[i] + TTL]_vars

=============================================================================
