------------------------------ MODULE UdpServer -------------------------------
(***************************************************************************)
(* The socket of one host (main/message/updserver.go), step by step.  HTTP *)
(* requests join, leave and send; every join that opens a socket starts a  *)
(* reader, whose handlers send as well.  All of them use the connection    *)
(* field without a lock, and read it again after they have checked it.  A  *)
(* nil connection panics: net/http recovers a request's panic, a reader's  *)
(* panic ends the process.                                                 *)
(***************************************************************************)
EXTENDS Naturals, FiniteSets

CONSTANTS
  Web,       \* goroutines of HTTP requests
  Socket,    \* sockets; bound of the model: each is opened once
  Nil,       \* no connection
  Managers   \* how many join and leave requests may overlap

ASSUME UdpAssumption == Nil \notin Socket /\ Managers \in Nat

VARIABLES
  connection,  \* the field of the server
  open,        \* sockets that are open
  web,         \* web[w]: what the request w does next
  fresh,       \* fresh[w]: the socket w has just opened
  at,          \* at[k]: where the reader is that the opener of k started
  reads,       \* reads[k]: the socket this reader reads
  failed,      \* history: sockets whose reader met an error while they were open
  process      \* "up"; Controller adds the states of a process that ends

vars == <<connection, open, web, fresh, at, reads, failed, process>>

Joining == {"check", "listen", "assign", "spawn", "hail", "hailing"}
Leaving == {"farewell", "farewelling", "stop", "close", "clear"}
Sending == {"send", "sending"}

Init ==
  /\ connection = Nil
  /\ open = {}
  /\ web = [w \in Web |-> "idle"]
  /\ fresh = [w \in Web |-> Nil]
  /\ at = [k \in Socket |-> "unborn"]
  /\ reads = [k \in Socket |-> Nil]
  /\ failed = {}
  /\ process = "up"

Running == process \notin {"ended", "crashed"}

Managing(w) == web[w] \in Joining \cup Leaving

Step(w, from, to) == Running /\ web[w] = from /\ web' = [web EXCEPT ![w] = to]

Request(w) ==
  /\ \/ Step(w, "idle", "send")
     \/ /\ Cardinality({v \in Web : Managing(v)}) < Managers
        /\ Step(w, "idle", "check") \/ Step(w, "idle", "farewell")
  /\ UNCHANGED <<connection, open, fresh, at, reads, failed, process>>

-----------------------------------------------------------------------------
(* Observe, and the hail after it.  A join goes on whatever Observe says.  *)

ObserveCheck(w) ==
  /\ Step(w, "check", IF connection # Nil THEN "hail" ELSE "listen")
  /\ UNCHANGED <<connection, open, fresh, at, reads, failed, process>>

\* The port is taken, by an open socket of ours or by another process.
ListenFails(w) ==
  /\ Step(w, "listen", "hail")
  /\ UNCHANGED <<connection, open, fresh, at, reads, failed, process>>

Listen(w) ==
  /\ Step(w, "listen", "assign")
  /\ open = {}
  /\ \E k \in Socket :
       /\ at[k] = "unborn" /\ \A v \in Web : fresh[v] # k
       /\ open' = {k}
       /\ fresh' = [fresh EXCEPT ![w] = k]
  /\ UNCHANGED <<connection, at, reads, failed, process>>

Assign(w) ==
  /\ Step(w, "assign", "spawn")
  /\ connection' = fresh[w]
  /\ UNCHANGED <<open, fresh, at, reads, failed, process>>

\* Mutant: the reader starts before it knows its socket.
MutantSpawn(w) ==
  /\ Step(w, "spawn", "hail")
  /\ at' = [at EXCEPT ![fresh[w]] = "reading"]
  /\ fresh' = [fresh EXCEPT ![w] = Nil]
  /\ UNCHANGED <<connection, open, reads, failed, process>>

\* The reader gets what the field holds now; with nil it panics at once.
Spawn(w) ==
  /\ Step(w, "spawn", "hail")
  /\ IF connection = Nil
     THEN process' = "crashed" /\ at' = [at EXCEPT ![fresh[w]] = "ended"] /\ reads' = reads
     ELSE /\ at' = [at EXCEPT ![fresh[w]] = "reading"]
          /\ reads' = [reads EXCEPT ![fresh[w]] = connection]
          /\ UNCHANGED process
  /\ fresh' = [fresh EXCEPT ![w] = Nil]
  /\ UNCHANGED <<connection, open, failed>>

-----------------------------------------------------------------------------
(* Send in a request.  One send stands for those to all the peers, and a   *)
(* request without peers makes none.                                       *)

Writing == [hail |-> "hailing", farewell |-> "farewelling", send |-> "sending"]
Then == [hail |-> "idle", farewell |-> "stop", send |-> "idle"]

NoPeers(w) ==
  /\ \E call \in DOMAIN Then : Step(w, call, Then[call])
  /\ UNCHANGED <<connection, open, fresh, at, reads, failed, process>>

SendCheck(w) ==
  /\ \E call \in DOMAIN Then :
       Step(w, call,
            IF connection = Nil THEN Then[call]
            ELSE Writing[call])
  /\ UNCHANGED <<connection, open, fresh, at, reads, failed, process>>

\* The write succeeds or returns an error if there is a connection, open or
\* closed; a nil one panics.
SendWrite(w) ==
  /\ \E call \in DOMAIN Writing :
       Step(w, Writing[call], IF connection = Nil THEN "panicked" ELSE Then[call])
  /\ UNCHANGED <<connection, open, fresh, at, reads, failed, process>>

-----------------------------------------------------------------------------
(* Stop.                                                                   *)

StopCheck(w) ==
  /\ Step(w, "stop", IF connection = Nil THEN "idle" ELSE "close")
  /\ UNCHANGED <<connection, open, fresh, at, reads, failed, process>>

\* Mutant: the socket is not closed.
MutantClose(w) ==
  /\ Step(w, "close", "clear")
  /\ UNCHANGED <<connection, open, fresh, at, reads, failed, process>>

Close(w) ==
  /\ Step(w, "close", IF connection = Nil THEN "panicked" ELSE "clear")
  /\ open' = open \ {connection}
  /\ UNCHANGED <<connection, fresh, at, reads, failed, process>>

\* Mutant: the field keeps the closed connection.
MutantClear(w) ==
  /\ Step(w, "clear", "idle")
  /\ UNCHANGED <<connection, open, fresh, at, reads, failed, process>>

Clear(w) ==
  /\ Step(w, "clear", "idle")
  /\ connection' = Nil
  /\ UNCHANGED <<open, fresh, at, reads, failed, process>>

-----------------------------------------------------------------------------
(* readBlocking, and the handlers it calls.                                *)

Move(k, from, to) ==
  /\ Running
  /\ at[k] = from
  /\ at' = [at EXCEPT ![k] = to]
  /\ UNCHANGED <<connection, open, web, fresh, reads>>

ReadPacket(k) ==
  /\ reads[k] \in open
  /\ Move(k, "reading", "handling")
  /\ UNCHANGED <<failed, process>>

\* Mutant: any error is ignored and the loop goes on.
MutantReadError(k) ==
  /\ reads[k] \notin open
  /\ Move(k, "reading", "reading")
  /\ UNCHANGED <<failed, process>>

\* The error of a closed socket ends the loop.
ReadError(k) ==
  /\ reads[k] \notin open
  /\ Move(k, "reading", "ended")
  /\ UNCHANGED <<failed, process>>

\* So does any other error of a read (a system that reports what became of an
\* earlier packet): every one is a "read" error of net.  The socket stays open.
ReadFails(k) ==
  /\ reads[k] \in open
  /\ Move(k, "reading", "ended")
  /\ failed' = failed \cup {reads[k]}
  /\ UNCHANGED process

HandlerQuiet(k) == Move(k, "handling", "reading") /\ UNCHANGED <<failed, process>>

HandlerCheck(k) ==
  /\ Move(k, "handling", IF connection = Nil THEN "reading" ELSE "writing")
  /\ UNCHANGED <<failed, process>>

HandlerWrite(k) ==
  /\ Move(k, "writing", IF connection = Nil THEN "ended" ELSE "reading")
  /\ process' = IF connection = Nil THEN "crashed" ELSE process
  /\ UNCHANGED failed

-----------------------------------------------------------------------------

Goroutine(w) ==
  \/ ObserveCheck(w) \/ Listen(w) \/ ListenFails(w) \/ Assign(w) \/ Spawn(w)
  \/ NoPeers(w) \/ SendCheck(w) \/ SendWrite(w)
  \/ StopCheck(w) \/ Close(w) \/ Clear(w)

\* net/http recovers the panic of a request, which is over.
Recover(w) ==
  /\ Step(w, "panicked", "idle")
  /\ UNCHANGED <<connection, open, fresh, at, reads, failed, process>>

Reader(k) ==
  \/ ReadPacket(k) \/ ReadError(k) \/ ReadFails(k)
  \/ HandlerQuiet(k) \/ HandlerCheck(k) \/ HandlerWrite(k)

Next ==
  \/ \E w \in Web : Request(w) \/ Goroutine(w) \/ Recover(w)
  \/ \E k \in Socket : Reader(k)

Spec == Init /\ [][Next]_vars

\* The Go scheduler runs every goroutine that can run.
FairSpec ==
  Spec /\ (\A w \in Web : WF_vars(Goroutine(w))) /\ (\A k \in Socket : WF_vars(Reader(k)))

-----------------------------------------------------------------------------
(* Properties.                                                             *)

\* No join or leave is under way, nor the end of the process.
Settled == process = "up" /\ \A w \in Web : ~Managing(w)

TypeOK ==
  /\ connection \in Socket \cup {Nil}
  /\ open \subseteq Socket
  /\ web \in [Web -> {"idle", "panicked"} \cup Joining \cup Leaving \cup Sending]
  /\ fresh \in [Web -> Socket \cup {Nil}]
  /\ at \in [Socket -> {"unborn", "reading", "handling", "writing", "ended"}]
  /\ reads \in [Socket -> Socket \cup {Nil}]
  /\ \A k \in Socket : at[k] \in {"reading", "handling", "writing"} => reads[k] # Nil
  /\ failed \subseteq {reads[k] : k \in Socket}
  /\ process \in {"up", "stopping", "closing", "panicking", "ended", "crashed"}

\* "While disconnected, the client can not [...] receive updates" (README.md:17):
\* when joins and leaves do not overlap, a host that is not connected has no
\* open socket, however its sends and its readers interleave with the leave.
DisconnectedIsDeaf == Settled /\ connection = Nil => open = {}

\* A connected host hears: its connection is open, and exactly one of its
\* readers, old ones of closed sockets among them, reads it.  Only if a read
\* failed is there none, until the host leaves: joining again changes nothing.
ConnectedIsHeard ==
  Settled /\ connection # Nil =>
    /\ connection \in open
    /\ Cardinality({k \in Socket :
         at[k] \in {"reading", "handling", "writing"} /\ reads[k] = connection})
         = IF connection \in failed THEN 0 ELSE 1

\* A reader of a socket that was closed comes to its end.
ReadersEnd ==
  \A k \in Socket :
    at[k] # "unborn" /\ reads[k] \notin open ~> at[k] = "ended" \/ ~Running

\* "The peer client is operable in two modes: disconnected mode and connected
\* mode" (README.md:17): leaving the network does not end the process.
StaysUp == process # "crashed"

=============================================================================
