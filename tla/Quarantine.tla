------------------------------ MODULE Quarantine ------------------------------
(***************************************************************************)
(* What the message cache promises to the message handlers: a message held *)
(* for a peer stays in quarantine for TTL, then it is gone.  Outdated      *)
(* entries do not exist here; MessageCache, which clears them only when it *)
(* is asked, implements this.                                              *)
(***************************************************************************)
EXTENDS Naturals

CONSTANTS
  Msg,      \* message ids
  Peer,     \* peer ids
  TTL,      \* timeToLive
  Nothing   \* no verdict yet

VARIABLES
  now,      \* the time
  live,     \* <<message, peer, deadline>>: what is in quarantine
  verdict   \* what was decided of the message received last

vars == <<now, live, verdict>>

InQuarantine(i) == \E x \in live : x[1] = i

\* Holding a pair that is in quarantine changes nothing, not even its deadline.
HoldAll(i, qs) ==
  live \cup {<<i, q, now + TTL>> : q \in {r \in qs : ~\E x \in live : x[1] = i /\ x[2] = r}}

Init == now = 0 /\ live = {} /\ verdict = Nothing

Receive(i, p) ==
  /\ verdict' = [msg |-> i, accepted |-> ~InQuarantine(i)]
  /\ live' = IF InQuarantine(i) THEN live ELSE HoldAll(i, {p})
  /\ now' = now

Send(i, qs) == live' = HoldAll(i, qs) /\ UNCHANGED <<now, verdict>>

\* As Send, but only to peers for which the message has no time left.
SendSafe(i, qs) ==
  /\ \A x \in live : x[1] = i /\ x[2] \in qs => x[3] <= now
  /\ Send(i, qs)

Reset == live' = {} /\ UNCHANGED <<now, verdict>>

Tick ==
  /\ now' = now + 1
  /\ live' = {x \in live : x[3] >= now'}
  /\ UNCHANGED verdict

Next ==
  \/ \E i \in Msg, p \in Peer : Receive(i, p)
  \/ \E i \in Msg, qs \in SUBSET Peer : Send(i, qs) \/ SendSafe(i, qs)
  \/ Reset
  \/ Tick

Spec == Init /\ [][Next]_vars

=============================================================================
