------------------------------ MODULE Controller ------------------------------
(***************************************************************************)
(* The process of one host (main/lib.go), from the start of its API to its *)
(* end: the HTTP server, the goroutine of main that waits for a shutdown   *)
(* request or a signal and then stops the UDP server and the HTTP server,  *)
(* in this order, and the requests that are being served meanwhile.  The   *)
(* socket, its requests and its readers are those of UdpServer; main stops *)
(* the UDP server by the same calls as a leave.                            *)
(***************************************************************************)
EXTENDS UdpServer

CONSTANT Main   \* the goroutine of main

ASSUME ControllerAssumption == Main \in Web

VARIABLES
  api,    \* the HTTP server
  done,   \* whether the main context is cancelled
  quit    \* quit[w]: where the request w is in the shutdown handler

processVars == <<vars, api, done, quit>>

Requests == Web \ {Main}

Active(w) == web[w] # "idle" \/ quit[w] # "no"

ProcessInit ==
  /\ Init
  /\ api = "starting"
  /\ done = FALSE
  /\ quit = [w \in Requests |-> "no"]

-----------------------------------------------------------------------------
(* The API.                                                                *)

\* The goroutine of Serve gets its port, or logs that it did not; main goes on
\* waiting either way.
Serve ==
  /\ Running /\ api = "starting"
  /\ api' \in {"serving", "failed"}
  /\ UNCHANGED <<vars, done, quit>>

\* Requests are served until the HTTP server stops, also while main stops the
\* UDP server.
Ask(w) ==
  /\ api = "serving" /\ quit[w] = "no"
  /\ Request(w)
  /\ UNCHANGED <<api, done, quit>>

AskShutdown(w) ==
  /\ Running /\ api = "serving" /\ ~Active(w)
  /\ quit' = [quit EXCEPT ![w] = "asked"]
  /\ UNCHANGED <<vars, api, done>>

\* Mutant: the caches are reset, but the main context is not cancelled.
MutantShutdown(w) ==
  /\ Running /\ quit[w] = "asked"
  /\ quit' = [quit EXCEPT ![w] = "answering"]
  /\ UNCHANGED <<vars, api, done>>

\* The handler resets the caches and cancels the main context.  It sends no
\* farewell, and without peers no farewell could reach anybody any more.
Shutdown(w) ==
  /\ Running /\ quit[w] = "asked"
  /\ done' = TRUE
  /\ quit' = [quit EXCEPT ![w] = "answering"]
  /\ UNCHANGED <<vars, api>>

Answer(w) ==
  /\ Running /\ quit[w] = "answering"
  /\ quit' = [quit EXCEPT ![w] = "no"]
  /\ UNCHANGED <<vars, api, done>>

\* SIGINT or SIGTERM.  Another one later changes nothing, or kills the process
\* if the shutdown function has given the signals back; killing is left out.
Signal ==
  /\ Running /\ ~done
  /\ done' = TRUE
  /\ UNCHANGED <<vars, api, quit>>

-----------------------------------------------------------------------------
(* The goroutine of main: its deferred calls run last to first, and the    *)
(* second one also if the first one panics.                                *)

\* Main wakes up and stops the UDP server.
StopUdp ==
  /\ process = "up" /\ done
  /\ process' = "stopping"
  /\ web' = [web EXCEPT ![Main] = "stop"]
  /\ UNCHANGED <<connection, open, fresh, at, reads, failed, api, done, quit>>

\* The HTTP server closes its port, if it ever had it.
StopApi ==
  /\ process = "stopping"
  /\ \/ web[Main] = "idle" /\ process' = "closing"
     \/ web[Main] = "panicked" /\ process' = "panicking"
  /\ api' = "closing"
  /\ UNCHANGED <<connection, open, web, fresh, at, reads, failed, done, quit>>

Exit(how) ==
  /\ \/ process = "closing" /\ process' = "ended"
     \/ process = "panicking" /\ process' = "crashed"
  /\ api' = how
  /\ UNCHANGED <<connection, open, web, fresh, at, reads, failed, done, quit>>

\* Mutant: the HTTP server is closed without waiting for its requests.
MutantEndGracefully == Exit("closed")

\* "HTTP Server shut down gracefully": its last request is over.
EndGracefully ==
  /\ \A w \in Requests : ~Active(w)
  /\ Exit("closed")

\* "HTTP Server closed harshly": ten seconds have passed.
EndHarshly == Exit("aborted")

-----------------------------------------------------------------------------

Handler(w) ==
  \/ Goroutine(w) /\ UNCHANGED <<api, done, quit>>
  \/ Recover(w) /\ UNCHANGED <<api, done, quit>>
  \/ Shutdown(w) \/ Answer(w)

MainStep ==
  \/ StopUdp \/ StopApi \/ EndGracefully \/ EndHarshly
  \/ Goroutine(Main) /\ UNCHANGED <<api, done, quit>>

ReaderStep(k) == Reader(k) /\ UNCHANGED <<api, done, quit>>

ProcessNext ==
  \/ Serve \/ Signal \/ MainStep
  \/ \E w \in Requests : Ask(w) \/ AskShutdown(w) \/ Handler(w)
  \/ \E k \in Socket : ReaderStep(k)

\* The Go scheduler runs every goroutine that can run.
ProcessSpec ==
  /\ ProcessInit /\ [][ProcessNext]_processVars
  /\ WF_processVars(MainStep)
  /\ \A w \in Requests : WF_processVars(Handler(w))
  /\ \A k \in Socket : WF_processVars(ReaderStep(k))

-----------------------------------------------------------------------------
(* Properties.                                                             *)

\* "Shut down and exit the application" (main/request/usecases.go:22): the
\* shutdown request ends the process, whatever requests and readers are doing.
EndsWhenAsked == \A w \in Requests : quit[w] = "asked" ~> ~Running

\* Every request is answered, a shutdown request and those that it overtakes
\* among them, unless the process crashes or the ten seconds of Stop run out:
\* "Shutdown will block until it has gracefully closed all connections"
\* (main/request/httpserver.go:82).
RequestsAnswered ==
  \A w \in Requests :
    Active(w) ~> ~Active(w) \/ process = "crashed" \/ api = "aborted"

=============================================================================
