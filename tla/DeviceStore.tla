----------------------------- MODULE DeviceStore ------------------------------
(***************************************************************************)
(* One host and one device, call by call.  The goroutine that reads the    *)
(* socket and those of the HTTP requests run the use cases at the same     *)
(* time, and share nothing but the database.  Every database call opens    *)
(* badger, which locks its directory, and closes it again: a call that     *)
(* finds it open fails at once.  StateSync has these handlers as single    *)
(* steps whose calls succeed; this module shows what is left of them, and  *)
(* that the host takes no step the distributed store does not know, until  *)
(* a call fails.  The process may end at any point and start again.        *)
(***************************************************************************)
EXTENDS Naturals, FiniteSets

CONSTANTS
  Reader,      \* goroutines that read the socket
  Web,         \* goroutines of HTTP requests
  Patches,     \* how many patches of the device may overlap
  State,       \* device states
  Absent,      \* the device is not in the database
  Free,        \* nobody has the database open
  MaxVersion   \* bound of the model: once known, no patch starts any more

Thread == Reader \cup Web
Data   == [version : Nat, state : State]
Copies == [owner : {"here", "there"}, kind : {"any"}, state : State, version : Nat]

ASSUME StoreAssumption ==
  /\ Reader \cap Web = {}
  /\ Free \notin Thread
  /\ Absent \notin Data \cup Copies
  /\ Patches \in Nat
  /\ MaxVersion \in Nat

VARIABLES
  mine,     \* whether this host owns the device
  stored,   \* what the database holds of the device
  theirs,   \* what the owner holds of it, at another host, or Absent
  lock,     \* the goroutine that has the database open
  job,      \* job[t]: the use case t runs, and the call it makes next
  world,    \* what the owner has announced: it may reach us at any time
  spoiled   \* history: some database call has failed

vars == <<mine, stored, theirs, lock, job, world, spoiled>>

Idle == [op |-> "none", call |-> "none"]

Init ==
  /\ mine \in BOOLEAN
  /\ stored \in IF mine THEN [version : {0}, state : State] ELSE {Absent}
  /\ theirs = Absent
  /\ lock = Free
  /\ job = [t \in Thread |-> Idle]
  /\ world = {}
  /\ spoiled = FALSE

-----------------------------------------------------------------------------
(* A use case starts; what follows is one action per call it makes.        *)

\* What anybody may hold.
Known == world \cup ({stored} \ {Absent})

\* Bounds of the model.
MayPatch ==
  /\ Cardinality({t \in Thread : job[t].op \in {"Patch", "PatchRequest"}}) < Patches
  /\ \A a \in Known : a.version < MaxVersion

Start(t, j) ==
  /\ job[t] = Idle
  /\ job' = [job EXCEPT ![t] = j]
  /\ UNCHANGED <<mine, stored, theirs, lock, world, spoiled>>

\* A message reaches the reader: a sync message, a patch message or a hail.
Receive(t) ==
  \/ \E c \in world : Start(t, [op |-> "Sync", call |-> "checkIfOwner", arg |-> c])
  \/ /\ MayPatch
     /\ \E s \in State : Start(t, [op |-> "Patch", call |-> "checkIfOwner", arg |-> s])
  \/ Start(t, [op |-> "Hail", call |-> "getDeviceIds"])

\* The user asks for something: a look is a listing, a look at a device, or
\* the creation of another device.
Ask(t) ==
  \/ /\ MayPatch
     /\ \E s \in State :
          Start(t, [op |-> "PatchRequest", call |-> "checkIfOwner", arg |-> s])
  \/ Start(t, [op |-> "Delete", call |-> "checkIfOwner"])
  \/ Start(t, [op |-> "Hail", call |-> "getDeviceIds"])
  \/ Start(t, [op |-> "Look", call |-> "look"])

\* The owner, at another host, creates the device or patches it.
OwnerWrites ==
  /\ ~mine
  /\ \E s \in State :
       \/ theirs = Absent /\ theirs' = [version |-> 0, state |-> s]
       \/ /\ theirs # Absent /\ theirs.version < MaxVersion
          /\ theirs' = [version |-> theirs.version + 1, state |-> s]
  /\ UNCHANGED <<mine, stored, lock, job, world, spoiled>>

OwnerAnnounces ==
  /\ theirs # Absent
  /\ world' = world \cup {theirs}
  /\ UNCHANGED <<mine, stored, theirs, lock, job, spoiled>>

\* The process ends between two calls, or in one, and starts again: badger
\* keeps what was stored, and its lock goes with the process.
Restart ==
  /\ job' = [t \in Thread |-> Idle]
  /\ lock' = Free
  /\ UNCHANGED <<mine, stored, theirs, world, spoiled>>

-----------------------------------------------------------------------------
(* Database calls.                                                         *)

\* badger.Open succeeds: nobody else has it open.
Open(t) ==
  /\ job[t] # Idle
  /\ lock = Free
  /\ lock' = t
  /\ UNCHANGED <<mine, stored, theirs, job, world, spoiled>>

\* Mutant: the database is not closed when the call is over.
MutantReturns(t, call, ok) ==
  /\ job[t].call = call
  /\ IF ok THEN lock = t /\ lock' = t ELSE lock \notin {t, Free} /\ lock' = lock
  /\ spoiled' = (spoiled \/ ~ok)
  /\ UNCHANGED <<mine, theirs>>

\* The call t makes next ends: well, and the database is closed, or at once
\* because another goroutine has it open.
Returns(t, call, ok) ==
  /\ job[t].call = call
  /\ IF ok THEN lock = t /\ lock' = Free ELSE lock \notin {t, Free} /\ lock' = lock
  /\ spoiled' = (spoiled \/ ~ok)
  /\ UNCHANGED <<mine, theirs>>

\* Mutant: a failed call is made again.
MutantRetry(t, call) == job' = [job EXCEPT ![t].call = IF lock = t THEN call ELSE @]

Go(t, call) == job' = [job EXCEPT ![t].call = call]

End(t) == job' = [job EXCEPT ![t] = Idle]

Quiet == UNCHANGED <<stored, world>>

\* Mutant: an error counts as being the owner of nothing, for deletions too.
MutantCheckIfOwner(t, ok) ==
  LET own == ok /\ stored # Absent /\ mine IN
  /\ Returns(t, "checkIfOwner", ok)
  /\ \/ job[t].op = "Sync" /\ (IF own THEN End(t) ELSE Go(t, "checkVersion"))
     \/ job[t].op \in {"Patch", "PatchRequest"}
          /\ (IF own THEN Go(t, "getDevice") ELSE End(t))
     \/ job[t].op = "Delete" /\ (IF own THEN End(t) ELSE Go(t, "deleteDevice"))
  /\ Quiet

\* The owner check; an unknown device has no owner attribute, an error.  A
\* patch for a device of others, or after an error, is passed on or sent to
\* the owner, which leaves no trace here.
CheckIfOwner(t, ok) ==
  LET known == ok /\ stored # Absent IN
  /\ Returns(t, "checkIfOwner", ok)
  /\ \/ /\ job[t].op = "Sync"
        /\ IF known /\ mine THEN End(t) ELSE Go(t, "checkVersion")
     \/ /\ job[t].op \in {"Patch", "PatchRequest"}
        /\ IF known /\ mine THEN Go(t, "getDevice") ELSE End(t)
     \/ /\ job[t].op = "Delete"
        /\ IF known /\ ~mine THEN Go(t, "deleteDevice") ELSE End(t)
  /\ Quiet

\* Mutant: every other version counts as newer.
MutantCheckVersion(t, ok) ==
  LET newer == ok /\ stored # Absent => job[t].arg.version # stored.version IN
  /\ Returns(t, "checkVersion", ok)
  /\ Go(t, IF newer THEN "saveCandidate" ELSE "getOurs")
  /\ Quiet

\* The version check of a sync message: an error counts as newer.
CheckVersion(t, ok) ==
  LET newer == ok /\ stored # Absent => job[t].arg.version > stored.version IN
  /\ Returns(t, "checkVersion", ok)
  /\ Go(t, IF newer THEN "saveCandidate" ELSE "getOurs")
  /\ Quiet

\* The candidate is stored, and relayed if that succeeded.
SaveCandidate(t, ok) ==
  /\ Returns(t, "saveCandidate", ok)
  /\ stored' = IF ok THEN job[t].arg ELSE stored
  /\ End(t)
  /\ UNCHANGED world

\* Mutant: what is announced has its version counted a second time.
MutantCountedTwice(t, ok) ==
  /\ \E call \in {"getOurs", "getForHail", "getUpdated"} : Returns(t, call, ok)
  /\ world' = IF ok /\ stored # Absent
              THEN world \cup {[stored EXCEPT !.version = @ + 1]} ELSE world
  /\ End(t)
  /\ UNCHANGED stored

\* A device is read in order to announce it: our own state instead of an
\* older candidate, the answer to a hail, the result of a patch.
GetAndAnnounce(t, ok) ==
  /\ \E call \in {"getOurs", "getForHail", "getUpdated"} : Returns(t, call, ok)
  /\ world' = IF ok /\ stored # Absent THEN world \cup {stored} ELSE world
  /\ End(t)
  /\ UNCHANGED stored

\* The version that a patch will increment is read.
GetDevice(t, ok) ==
  /\ Returns(t, "getDevice", ok)
  /\ IF ok /\ stored # Absent
     THEN job' = [job EXCEPT ![t] =
            [op |-> @.op, call |-> "saveData", arg |-> @.arg, version |-> stored.version]]
     ELSE End(t)
  /\ Quiet

\* Mutant: the version read is stored again.
MutantSaveData(t, ok) ==
  /\ Returns(t, "saveData", ok)
  /\ stored' = IF ok THEN [version |-> job[t].version, state |-> job[t].arg] ELSE stored
  /\ IF ok THEN Go(t, "getUpdated") ELSE End(t)
  /\ UNCHANGED world

\* Mutant: the patch is stored and not announced.
MutantSilent(t, ok) ==
  /\ Returns(t, "saveData", ok)
  /\ stored' = IF ok THEN [version |-> job[t].version + 1, state |-> job[t].arg] ELSE stored
  /\ End(t)
  /\ UNCHANGED world

SaveData(t, ok) ==
  /\ Returns(t, "saveData", ok)
  /\ stored' = IF ok THEN [version |-> job[t].version + 1, state |-> job[t].arg] ELSE stored
  /\ IF ok THEN Go(t, "getUpdated") ELSE End(t)
  /\ UNCHANGED world

GetDeviceIds(t, ok) ==
  /\ Returns(t, "getDeviceIds", ok)
  /\ IF ok /\ stored # Absent THEN Go(t, "getForHail") ELSE End(t)
  /\ Quiet

DeleteDevice(t, ok) ==
  /\ Returns(t, "deleteDevice", ok)
  /\ stored' = IF ok THEN Absent ELSE stored
  /\ End(t)
  /\ UNCHANGED world

Look(t, ok) == Returns(t, "look", ok) /\ End(t) /\ Quiet
-----------------------------------------------------------------------------

Call(t) ==
  \E ok \in BOOLEAN :
    \/ CheckIfOwner(t, ok) \/ CheckVersion(t, ok) \/ SaveCandidate(t, ok)
    \/ GetDevice(t, ok) \/ SaveData(t, ok) \/ GetAndAnnounce(t, ok)
    \/ GetDeviceIds(t, ok) \/ DeleteDevice(t, ok) \/ Look(t, ok)

Step(t) == Open(t) \/ Call(t)

Next ==
  \/ \E t \in Reader : Receive(t)
  \/ \E t \in Web : Ask(t)
  \/ \E t \in Thread : Step(t)
  \/ OwnerWrites \/ OwnerAnnounces
  \/ Restart

Spec == Init /\ [][Next]_vars

\* The Go scheduler runs every goroutine that can run.
FairSpec == Spec /\ \A t \in Thread : WF_vars(Step(t))

-----------------------------------------------------------------------------
(* Properties.                                                             *)

\* The database is held by a goroutine that is in a call and, unless the
\* device is ours, what it holds the owner has announced.
TypeOK ==
  /\ stored \in Data \cup {Absent}
  /\ world \subseteq Data
  /\ lock # Free => job[lock] # Idle
  /\ ~mine => Known \subseteq world

\* Whatever runs at the same time, and fails, a host never loses a device of
\* its own (NewDeleteDeviceUseCase checks the owner in one call and deletes in
\* another).
OwnNeverGone == mine => stored # Absent

\* As long as no two database calls meet, the handlers may interleave between
\* their calls in any way, if only one of them patches: nobody is ahead of the
\* owner, and a version has one state.
SoundUnlessBusy ==
  ~spoiled =>
    /\ mine => \A a \in world : a.version <= stored.version
    /\ \A a, b \in Known : a.version = b.version => a = b

\* Nor does a host then replace what it holds by anything but a newer version.
NeverRegressUnlessBusy ==
  [][~spoiled' /\ stored # Absent /\ stored' \notin {stored, Absent}
       => stored'.version > stored.version]_vars

\* This host and the one that owns the device, or some other one, as registers
\* of the distributed store; what may reach us is the gossip.
AsCopy(data) ==
  IF data = Absent THEN Absent
  ELSE [owner |-> IF mine THEN "here" ELSE "there", kind |-> "any",
        state |-> data.state, version |-> data.version]

R == INSTANCE GossipRegister WITH
       Node   <- {"here", "there"},
       Device <- {"device"},
       Kind   <- {"any"},
       copy   <- [n \in {"here", "there"} |->
                    [d \in {"device"} |-> AsCopy(IF n = "here" THEN stored ELSE theirs)]],
       gossip <- {[device |-> "device", data |-> AsCopy(a)] : a \in world}

\* As long as no two database calls meet, use cases that interleave call by
\* call, and are cut off by restarts, do what the atomic handlers of StateSync
\* do: every step writes, learns, forgets or tells as the distributed store may.
RegisterUnlessBusy == [][~spoiled' => R!Next \/ UNCHANGED R!vars]_vars

\* A patch that reaches its owner is stored and announced, in the state that
\* was asked for, unless database calls meet or the host stops in between.
AnnouncedUnlessBusy ==
  [][\A t \in Thread :
       /\ ~spoiled' /\ mine
       /\ job[t].op \in {"Patch", "PatchRequest"} /\ job'[t] = Idle
       => \/ stored' \in world' /\ stored'.state = job[t].arg
          \/ Restart]_vars

\* Every use case comes to an end: a call that finds the database open fails,
\* it does not wait or try again.
HandlersEnd == \A t \in Thread : job[t] # Idle ~> job[t] = Idle

\* "Only we can push this device's state" (main/message/usecases.go:118): no
\* sync message changes a device of this host.
OnlyWePush ==
  [][mine => \A t \in Reader :
       job[t].op = "Sync" /\ job'[t] # job[t] => stored' = stored]_vars

\* "If you are the owner of said device, the client will change the state
\* immediately and broadcast a sync message" (README.md:21): the announcement
\* a patch request ends with carries the state the user asked for.
AnnouncesItsState ==
  [][\A t \in Web :
       job[t].op = "PatchRequest" /\ job[t].call = "getUpdated" /\ lock = t
         /\ job'[t] = Idle
       => stored.state = job[t].arg]_vars

=============================================================================
