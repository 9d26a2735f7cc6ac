---------------------------- MODULE ControllerProofs ---------------------------
(***************************************************************************)
(* Theorems about the socket of a process (UdpServer, in the life that     *)
(* Controller gives it): the types for any requests, sockets and overlap;  *)
(* that a disconnected host is deaf and a connected one is heard once, for *)
(* joins and leaves one at a time, whatever sends and readers do meanwhile.*)
(***************************************************************************)
EXTENDS Controller, FiniteSetTheorems, TLAPS

USE UdpAssumption, ControllerAssumption

Alive == {"reading", "handling", "writing"}

\* A socket that a request has opened is nobody else's and has no reader yet.
Opening ==
  \A w \in Web :
    /\ fresh[w] # Nil <=> web[w] \in {"assign", "spawn"}
    /\ fresh[w] # Nil => at[fresh[w]] = "unborn"
    /\ \A v \in Web : fresh[w] # Nil /\ fresh[v] = fresh[w] => v = w

\* Readers that have not started have nothing to read and have not failed.
Unborn ==
  /\ \A k \in Socket : at[k] = "unborn" => reads[k] = Nil
  /\ failed \subseteq Socket

\* Main does nothing but stop.
MainStops == web[Main] \in {"idle", "stop", "close", "clear", "panicked"}

Safe == TypeOK /\ Opening /\ Unborn /\ MainStops

-----------------------------------------------------------------------------
(* Types.                                                                  *)

\* The statements of joins, leaves and sends keep what is safe.
LEMMA GoroutineSafe ==
  ASSUME Safe, NEW w \in Web, Goroutine(w)
  PROVE  Safe'
<1> USE DEF Safe
<1>1. CASE ObserveCheck(w)
  BY <1>1 DEF ObserveCheck, Step, TypeOK, Opening, Unborn, MainStops, Joining, Leaving, Sending
<1>2. CASE ListenFails(w)
  BY <1>2 DEF ListenFails, Step, TypeOK, Opening, Unborn, MainStops, Joining, Leaving, Sending
<1>3. CASE Listen(w)
  <2>1. PICK k \in Socket : /\ at[k] = "unborn" /\ \A v \in Web : fresh[v] # k
                            /\ open' = {k}
                            /\ fresh' = [fresh EXCEPT ![w] = k]
    BY <1>3 DEF Listen
  <2>2. TypeOK'
    BY <1>3, <2>1 DEF Listen, Step, TypeOK, Joining
  <2>3. Opening'
    BY <1>3, <2>1 DEF Listen, Step, TypeOK, Opening
  <2>4. Unborn' /\ MainStops'
    BY <1>3 DEF Listen, Step, TypeOK, Unborn, MainStops
  <2> QED
    BY <2>2, <2>3, <2>4
<1>4. CASE Assign(w)
  BY <1>4 DEF Assign, Step, TypeOK, Opening, Unborn, MainStops, Joining
<1>5. CASE Spawn(w)
  <2>1. fresh[w] \in Socket /\ at[fresh[w]] = "unborn" /\ reads[fresh[w]] = Nil
    BY <1>5 DEF Spawn, Step, Opening, Unborn, TypeOK
  <2>2. TypeOK'
    BY <1>5, <2>1 DEF Spawn, Step, TypeOK, Joining, Unborn
  <2>3. Opening'
    BY <1>5, <2>1 DEF Spawn, Step, TypeOK, Opening
  <2>4. Unborn' /\ MainStops'
    BY <1>5, <2>1 DEF Spawn, Step, TypeOK, Unborn, MainStops
  <2> QED
    BY <2>2, <2>3, <2>4
<1>6. CASE NoPeers(w)
  BY <1>6 DEF NoPeers, Then, Step, TypeOK, Opening, Unborn, MainStops, Joining, Leaving, Sending
<1>7. CASE SendCheck(w)
  BY <1>7 DEF SendCheck, Then, Writing, Step, TypeOK, Opening, Unborn, MainStops,
              Joining, Leaving, Sending
<1>8. CASE SendWrite(w)
  BY <1>8 DEF SendWrite, Then, Writing, Step, TypeOK, Opening, Unborn, MainStops,
              Joining, Leaving, Sending
<1>9. CASE StopCheck(w)
  BY <1>9 DEF StopCheck, Step, TypeOK, Opening, Unborn, MainStops, Leaving
<1>10. CASE Close(w)
  BY <1>10 DEF Close, Step, TypeOK, Opening, Unborn, MainStops, Leaving
<1>11. CASE Clear(w)
  BY <1>11 DEF Clear, Step, TypeOK, Opening, Unborn, MainStops, Leaving
<1> QED
  BY <1>1, <1>2, <1>3, <1>4, <1>5, <1>6, <1>7, <1>8, <1>9, <1>10, <1>11 DEF Goroutine

\* So do the readers.
LEMMA ReaderSafe ==
  ASSUME Safe, NEW k \in Socket, Reader(k)
  PROVE  Safe'
<1> USE DEF Safe
<1>1. CASE ReadPacket(k)
  BY <1>1 DEF ReadPacket, Move, TypeOK, Opening, Unborn, MainStops
<1>2. CASE ReadError(k)
  BY <1>2 DEF ReadError, Move, TypeOK, Opening, Unborn, MainStops
<1>3. CASE ReadFails(k)
  <2>1. reads[k] \in Socket
    BY <1>3 DEF ReadFails, TypeOK
  <2> QED
    BY <1>3, <2>1 DEF ReadFails, Move, TypeOK, Opening, Unborn, MainStops
<1>4. CASE HandlerQuiet(k)
  BY <1>4 DEF HandlerQuiet, Move, TypeOK, Opening, Unborn, MainStops
<1>5. CASE HandlerCheck(k)
  BY <1>5 DEF HandlerCheck, Move, TypeOK, Opening, Unborn, MainStops
<1>6. CASE HandlerWrite(k)
  BY <1>6 DEF HandlerWrite, Move, TypeOK, Opening, Unborn, MainStops
<1> QED
  BY <1>1, <1>2, <1>3, <1>4, <1>5, <1>6 DEF Reader

\* Every step of the process keeps what is safe.
LEMMA ProcessSafe ==
  ASSUME Safe, [ProcessNext]_processVars
  PROVE  Safe'
<1>1. CASE UNCHANGED vars
  BY <1>1 DEF vars, Safe, TypeOK, Opening, Unborn, MainStops
<1>2. CASE StopUdp
  BY <1>2, ControllerAssumption
  DEF StopUdp, Safe, TypeOK, Opening, Unborn, MainStops, Leaving
<1>3. CASE StopApi \/ EndGracefully \/ EndHarshly
  BY <1>3 DEF StopApi, EndGracefully, EndHarshly, Exit, Safe, TypeOK, Opening, Unborn, MainStops
<1>4. ASSUME NEW w \in Web, Request(w), w # Main
      PROVE  Safe'
  BY <1>4 DEF Request, Step, Safe, TypeOK, Opening, Unborn, MainStops, Joining, Leaving, Sending
<1>5. ASSUME NEW w \in Web, Recover(w), w # Main
      PROVE  Safe'
  BY <1>5 DEF Recover, Step, Safe, TypeOK, Opening, Unborn, MainStops
<1> QED
  BY <1>1, <1>2, <1>3, <1>4, <1>5, GoroutineSafe, ReaderSafe
  DEF ProcessNext, processVars, Serve, Signal, MainStep, Ask, AskShutdown, Shutdown, Answer,
      Handler, ReaderStep, Requests

\* The variables of the socket have their types: a reader that has started
\* has a socket, and only sockets somebody reads have failed.
THEOREM TypeCorrect == ProcessSpec => []TypeOK
<1>1. ProcessInit => Safe
  BY DEF ProcessInit, Init, Safe, TypeOK, Opening, Unborn, MainStops
<1>2. Safe /\ [ProcessNext]_processVars => Safe'
  BY ProcessSafe
<1>3. Safe => TypeOK
  BY DEF Safe
<1> QED
  BY <1>1, <1>2, <1>3, PTL DEF ProcessSpec

-----------------------------------------------------------------------------
(* The two modes, for joins and leaves that do not overlap.                *)

Serialized == Managers \in {0, 1} /\ IsFiniteSet(Web)

OneManager == \A v, w \in Web : Managing(v) /\ Managing(w) => v = w

\* Every reader that has started reads the socket it was started for, and has
\* ended if a read failed.
OwnReaders ==
  \A k \in Socket :
    /\ at[k] # "unborn" => reads[k] = k
    /\ k \in failed => at[k] = "ended"

\* What a join or a leave may rely on before its next statement.
Underway(w) ==
  /\ web[w] = "listen" => connection = Nil /\ open = {}
  /\ web[w] = "assign" => connection = Nil /\ open = {fresh[w]}
  /\ web[w] = "spawn" => connection = fresh[w] /\ open = {fresh[w]}
  /\ web[w] \in {"hailing", "farewelling", "close"} => connection # Nil
  /\ web[w] = "clear" => connection # Nil /\ open = {}

\* The mode of a host that nobody is changing.
Stable ==
  IF connection = Nil THEN open = {}
  ELSE /\ open = {connection}
       /\ at[connection] # "unborn"
       /\ connection \notin failed => at[connection] \in Alive

Modes ==
  /\ OneManager
  /\ OwnReaders
  /\ \A w \in Web : Underway(w)
  /\ (\A w \in Web : web[w] \notin {"assign", "spawn", "clear"}) => Stable

ModesWhileUp == process = "up" => Modes

\* A new join or leave finds no other under way.
LEMMA RequestKeepsModes ==
  ASSUME Serialized, Safe, Modes, NEW w \in Web, Request(w)
  PROVE  Modes'
<1>1. /\ web[w] = "idle" /\ UNCHANGED <<connection, open, fresh, at, reads, failed>>
      /\ web' = [web EXCEPT ![w] = web'[w]] /\ web'[w] \in {"send", "check", "farewell"}
  BY DEF Request, Step, Safe, TypeOK
<1>2. OneManager'
  <2>1. CASE web'[w] = "send"
    BY <1>1, <2>1 DEF Safe, TypeOK, Modes, OneManager, Managing, Joining, Leaving
  <2>2. CASE web'[w] # "send"
    <3> DEFINE S == {v \in Web : Managing(v)}
    <3>1. Cardinality(S) < Managers
      BY <2>2 DEF Request, Step, Safe, TypeOK
    <3>2. IsFiniteSet(S) /\ Cardinality(S) \in Nat
      BY FS_Subset, FS_CardinalityType DEF Serialized
    <3> HIDE DEF S
    <3>3. Cardinality(S) = 0
      BY <3>1, <3>2 DEF Serialized
    <3>4. S = {}
      BY <3>2, <3>3, FS_EmptySet
    <3>5. \A v \in Web : ~Managing(v)
      BY <3>4 DEF S
    <3>6. \A v \in Web : v # w => web'[v] = web[v]
      BY <1>1 DEF Safe, TypeOK
    <3> QED
      BY <3>5, <3>6 DEF OneManager, Managing
  <2> QED
    BY <2>1, <2>2
<1>3. OwnReaders'
  BY <1>1 DEF Modes, OwnReaders
<1>4. \A v \in Web : Underway(v)'
  BY <1>1 DEF Safe, TypeOK, Modes, Underway
<1>5. (\A v \in Web : web'[v] \notin {"assign", "spawn", "clear"}) => Stable'
  BY <1>1 DEF Safe, TypeOK, Modes, Stable
<1> QED
  BY <1>2, <1>3, <1>4, <1>5 DEF Modes

\* The statements of a join, a leave or a send go from one mode to another by
\* the way Underway describes, or stay.
LEMMA GoroutineKeepsModes ==
  ASSUME Safe, Modes, NEW w \in Web, Goroutine(w), process' = process
  PROVE  Modes'
<1>1. /\ \A v \in Web : v # w => web'[v] = web[v]
      /\ Managing(w)' => Managing(w)
  BY DEF Goroutine, ObserveCheck, ListenFails, Listen, Assign, Spawn, NoPeers, SendCheck, SendWrite,
         StopCheck, Close, Clear, Step, Then, Writing, Safe, TypeOK, Managing, Joining, Leaving
<1>2. OneManager'
  BY <1>1 DEF Modes, OneManager, Managing
<1>3. ASSUME Managing(w), NEW v \in Web, v # w
      PROVE  web[v] \notin Joining \cup Leaving /\ web'[v] \notin Joining \cup Leaving
  BY <1>1, <1>3 DEF Modes, OneManager, Managing
<1>4. CASE ObserveCheck(w)
  <2>1. Managing(w) /\ Stable
    BY <1>3, <1>4 DEF ObserveCheck, Step, Modes, Managing, Joining, Leaving
  <2> QED
    BY <1>2, <1>3, <1>4, <2>1
    DEF ObserveCheck, Step, Safe, TypeOK, Modes, OwnReaders, Underway, Stable, Joining, Leaving
<1>5. CASE ListenFails(w)
  BY <1>1, <1>2, <1>3, <1>5
  DEF ListenFails, Step, Safe, TypeOK, Modes, OwnReaders, Underway, Stable, Managing, Joining, Leaving
<1>6. CASE Listen(w)
  <2>1. Managing(w) /\ connection = Nil /\ open' = {fresh'[w]} /\ web'[w] = "assign"
    BY <1>6 DEF Listen, Step, Safe, TypeOK, Modes, Underway, Managing, Joining
  <2>2. UNCHANGED <<connection, at, reads, failed>>
    BY <1>6 DEF Listen
  <2>3. OwnReaders'
    BY <2>2 DEF Modes, OwnReaders
  <2>4. \A v \in Web : Underway(v)'
    BY <1>3, <2>1, <2>2 DEF Underway, Joining, Leaving
  <2> QED
    BY <1>2, <2>1, <2>3, <2>4 DEF Modes
<1>7. CASE Assign(w)
  <2>1. /\ Managing(w) /\ open = {fresh[w]} /\ connection' = fresh[w] /\ web'[w] = "spawn"
        /\ UNCHANGED <<open, fresh, at, reads, failed>>
    BY <1>7 DEF Assign, Step, Safe, TypeOK, Modes, Underway, Managing, Joining
  <2>2. OwnReaders'
    BY <2>1 DEF Modes, OwnReaders
  <2>3. \A v \in Web : Underway(v)'
    BY <1>3, <2>1 DEF Underway, Joining, Leaving
  <2> QED
    BY <1>2, <2>1, <2>2, <2>3 DEF Modes
<1>8. CASE Spawn(w)
  <2> DEFINE c == fresh[w]
  <2>1. /\ Managing(w) /\ connection = c /\ open = {c}
        /\ c \in Socket /\ at[c] = "unborn" /\ web'[w] = "hail"
    BY <1>8 DEF Spawn, Step, Safe, TypeOK, Opening, Modes, Underway, Managing, Joining
  <2>2. /\ at' = [at EXCEPT ![c] = "reading"] /\ reads' = [reads EXCEPT ![c] = c]
        /\ UNCHANGED <<connection, open, failed>>
    BY <1>8, <2>1 DEF Spawn
  <2> HIDE DEF c
  <2>3. OwnReaders'
    BY <2>1, <2>2 DEF Safe, TypeOK, Modes, OwnReaders
  <2>4. \A v \in Web : Underway(v)'
    BY <1>3, <2>1 DEF Underway, Joining, Leaving
  <2>5. Stable'
    BY <2>1, <2>2 DEF Safe, TypeOK, Stable, Alive
  <2> QED
    BY <1>2, <2>3, <2>4, <2>5 DEF Modes
<1>9. CASE NoPeers(w) \/ SendCheck(w) \/ SendWrite(w)
  <2>1. /\ web[w] \notin {"assign", "spawn", "clear"}
        /\ web'[w] \notin {"assign", "spawn", "clear", "listen", "close"}
        /\ web'[w] \in {"hailing", "farewelling"} => connection # Nil
        /\ UNCHANGED <<connection, open, fresh, at, reads, failed>>
    BY <1>9 DEF NoPeers, SendCheck, SendWrite, Then, Writing, Step, Safe, TypeOK
  <2>2. OwnReaders'
    BY <2>1 DEF Modes, OwnReaders
  <2>3. \A v \in Web : Underway(v)'
    BY <1>1, <2>1 DEF Modes, Underway
  <2>4. (\A v \in Web : web'[v] \notin {"assign", "spawn", "clear"}) => Stable'
    BY <1>1, <2>1 DEF Modes, Stable
  <2> QED
    BY <1>2, <2>2, <2>3, <2>4 DEF Modes
<1>10. CASE StopCheck(w)
  BY <1>1, <1>2, <1>3, <1>10
  DEF StopCheck, Step, Safe, TypeOK, Modes, OwnReaders, Underway, Stable, Managing, Joining, Leaving
<1>11. CASE Close(w)
  <2>1. /\ Managing(w) /\ connection # Nil /\ Stable
        /\ web'[w] = "clear" /\ open' = open \ {connection}
        /\ UNCHANGED <<connection, fresh, at, reads, failed>>
    BY <1>3, <1>11 DEF Close, Step, Safe, TypeOK, Modes, Underway, Managing, Joining, Leaving
  <2>2. open' = {}
    BY <2>1 DEF Stable
  <2>3. OwnReaders'
    BY <2>1 DEF Modes, OwnReaders
  <2>4. \A v \in Web : Underway(v)'
    BY <1>3, <2>1, <2>2 DEF Underway, Joining, Leaving
  <2> QED
    BY <1>2, <2>1, <2>3, <2>4 DEF Modes
<1>12. CASE Clear(w)
  <2>1. /\ Managing(w) /\ open = {} /\ connection' = Nil /\ web'[w] = "idle"
        /\ UNCHANGED <<open, fresh, at, reads, failed>>
    BY <1>12 DEF Clear, Step, Safe, TypeOK, Modes, Underway, Managing, Leaving
  <2>2. OwnReaders'
    BY <2>1 DEF Modes, OwnReaders
  <2>3. \A v \in Web : Underway(v)'
    BY <1>3, <2>1 DEF Underway, Joining, Leaving
  <2>4. Stable'
    BY <2>1 DEF Stable
  <2> QED
    BY <1>2, <2>2, <2>3, <2>4 DEF Modes
<1> QED
  BY <1>4, <1>5, <1>6, <1>7, <1>8, <1>9, <1>10, <1>11, <1>12 DEF Goroutine

\* A reader ends only if its socket is closed or a read has failed.
LEMMA ReaderKeepsModes ==
  ASSUME Safe, Modes, NEW k \in Socket, Reader(k), process' = process, process = "up"
  PROVE  Modes'
<1>1. /\ UNCHANGED <<connection, open, web, fresh, reads>>
      /\ at[k] \in Alive /\ reads[k] = k
      /\ \A j \in Socket : j # k => at'[j] = at[j]
      /\ at'[k] \in Alive \cup {"ended"}
      /\ failed \subseteq failed' /\ failed' \subseteq failed \cup {k}
      /\ k \in failed' => at'[k] = "ended"
      /\ k \in open /\ at'[k] = "ended" => k \in failed'
  <2>1. at[k] \in Alive /\ reads[k] = k /\ k \notin failed
    BY DEF Reader, ReadPacket, ReadError, ReadFails, HandlerQuiet, HandlerCheck, HandlerWrite, Move,
           Modes, OwnReaders, Alive
  <2> QED
    BY <2>1 DEF Reader, ReadPacket, ReadError, ReadFails, HandlerQuiet, HandlerCheck, HandlerWrite,
                Move, Safe, TypeOK, Alive
<1>2. OneManager' /\ \A w \in Web : Underway(w)'
  BY <1>1 DEF Modes, OneManager, Managing, Underway
<1>3. OwnReaders'
  BY <1>1 DEF Modes, OwnReaders, Alive
<1>4. Stable => Stable'
  BY <1>1 DEF Safe, TypeOK, Stable, Alive
<1> QED
  BY <1>1, <1>2, <1>3, <1>4 DEF Modes

\* Every step of the process keeps the modes while the host is up.
LEMMA ProcessKeepsModes ==
  ASSUME Serialized, Safe, ModesWhileUp, [ProcessNext]_processVars
  PROVE  ModesWhileUp'
<1> SUFFICES ASSUME process' = "up" PROVE Modes'
  BY DEF ModesWhileUp
<1>1. process = "up" /\ Modes
  <2>1. process = "up"
    BY DEF ProcessNext, processVars, vars, Serve, Signal, MainStep, Ask, AskShutdown, Shutdown,
           Answer, Handler, ReaderStep, Request, Recover, StopUdp, StopApi, EndGracefully, EndHarshly,
           Exit, Goroutine, ObserveCheck, ListenFails, Listen, Assign, Spawn, NoPeers, SendCheck,
           SendWrite, StopCheck, Close, Clear, Reader, ReadPacket, ReadError, ReadFails, HandlerQuiet,
           HandlerCheck, HandlerWrite
  <2> QED
    BY <2>1 DEF ModesWhileUp
<1>2. CASE UNCHANGED vars
  BY <1>1, <1>2 DEF vars, Modes, OneManager, OwnReaders, Underway, Stable, Managing
<1>3. ASSUME NEW w \in Web, Recover(w)
      PROVE  Modes'
  BY <1>1, <1>3 DEF Recover, Step, Safe, TypeOK, Modes, OneManager, OwnReaders, Underway, Stable,
                    Managing, Joining, Leaving
<1>4. ~(StopUdp \/ StopApi \/ EndGracefully \/ EndHarshly)
  BY DEF StopUdp, StopApi, EndGracefully, EndHarshly, Exit
<1> QED
  BY <1>1, <1>2, <1>3, <1>4, RequestKeepsModes, GoroutineKeepsModes, ReaderKeepsModes
  DEF ProcessNext, processVars, Serve, Signal, MainStep, Ask, AskShutdown, Shutdown, Answer,
      Handler, ReaderStep, Requests

\* The invariant holds in every reachable state.
THEOREM Invariance == ASSUME Serialized PROVE ProcessSpec => [](Safe /\ ModesWhileUp)
<1>1. ProcessInit => Safe /\ ModesWhileUp
  BY DEF ProcessInit, Init, Safe, TypeOK, Opening, Unborn, MainStops, ModesWhileUp, Modes,
         OneManager, OwnReaders, Underway, Stable, Managing, Joining, Leaving
<1>2. Safe /\ ModesWhileUp /\ [ProcessNext]_processVars => (Safe /\ ModesWhileUp)'
  BY ProcessSafe, ProcessKeepsModes
<1> QED
  BY <1>1, <1>2, PTL DEF ProcessSpec

\* When nobody joins or leaves the mode is a stable one.
LEMMA SettledIsStable ==
  ASSUME Safe, ModesWhileUp, Settled
  PROVE  Stable /\ OwnReaders
BY DEF ModesWhileUp, Modes, Settled, Managing, Joining, Leaving

\* A disconnected host has no open socket, however many sends and readers
\* interleave with its joins and leaves.
THEOREM Disconnected == ASSUME Serialized PROVE ProcessSpec => []DisconnectedIsDeaf
<1>1. Safe /\ ModesWhileUp => DisconnectedIsDeaf
  BY SettledIsStable DEF DisconnectedIsDeaf, Stable
<1> QED
  BY <1>1, Invariance, PTL

\* A connected host has one reader on its connection, and it is open; none if
\* a read has failed.
THEOREM Connected == ASSUME Serialized PROVE ProcessSpec => []ConnectedIsHeard
<1>1. ASSUME Safe, ModesWhileUp, Settled, connection # Nil
      PROVE  /\ connection \in open
             /\ Cardinality({k \in Socket : at[k] \in Alive /\ reads[k] = connection})
                  = IF connection \in failed THEN 0 ELSE 1
  <2> DEFINE S == {k \in Socket : at[k] \in Alive /\ reads[k] = connection}
  <2>1. connection \in Socket /\ Stable /\ OwnReaders
    BY <1>1, SettledIsStable DEF Safe, TypeOK
  <2>2. \A k \in Socket : at[k] \in Alive /\ reads[k] = connection
                            <=> k = connection /\ connection \notin failed
    BY <1>1, <2>1 DEF Stable, OwnReaders, Alive
  <2>3. S = IF connection \in failed THEN {} ELSE {connection}
    BY <2>1, <2>2
  <2>4. connection \in open
    BY <1>1, <2>1 DEF Stable
  <2> HIDE DEF S
  <2>5. Cardinality(S) = IF connection \in failed THEN 0 ELSE 1
    BY <2>3, FS_EmptySet, FS_Singleton
  <2> QED
    BY <2>4, <2>5 DEF S
<1>2. Safe /\ ModesWhileUp => ConnectedIsHeard
  BY <1>1 DEF ConnectedIsHeard, Alive
<1> QED
  BY <1>2, Invariance, PTL

=============================================================================
