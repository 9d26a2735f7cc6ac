-------------------------- MODULE DeviceStoreProofs ---------------------------
(***************************************************************************)
(* Theorems about the goroutines of one host, for any number of requests,  *)
(* any states and any bound.  The first part holds whatever fails and      *)
(* overlaps; the second part is what remains of the atomic handlers of     *)
(* StateSync as long as no two database calls meet.                        *)
(***************************************************************************)
EXTENDS DeviceStore, TLAPS, FiniteSetTheorems

Calls ==
  {"none", "checkIfOwner", "checkVersion", "saveCandidate", "getOurs", "getDevice",
   "saveData", "getUpdated", "getDeviceIds", "getForHail", "deleteDevice", "look"}

PatchOps  == {"Patch", "PatchRequest"}
SyncCalls == {"checkVersion", "saveCandidate", "getOurs"}
OwnCalls  == {"getDevice", "saveData", "getUpdated"}

\* A patch that has read the version it will increment.
ReadPatch == [op : PatchOps, call : Calls, arg : State, version : Nat]

Job ==
  [op : {"none", "Hail", "Delete", "Look"}, call : Calls]
    \cup [op : {"Sync"}, call : Calls, arg : Data]
    \cup [op : PatchOps, call : Calls, arg : State]
    \cup ReadPatch

TypeInv ==
  /\ mine \in BOOLEAN
  /\ stored \in Data \cup {Absent}
  /\ theirs \in Data \cup {Absent}
  /\ lock \in Thread \cup {Free}
  /\ job \in [Thread -> Job]
  /\ world \subseteq Data
  /\ spoiled \in BOOLEAN

\* What a goroutine has found out by the time it makes its next call.
Fits(j) ==
  /\ j.op = "Sync" => j.arg \in world
  /\ j.call \in SyncCalls => j.op = "Sync"
  /\ j.call \in OwnCalls => mine /\ j.op \in PatchOps
  /\ j.call = "saveData" => j \in ReadPatch
  /\ j.call = "deleteDevice" => ~mine
  /\ j.op \in PatchOps => j.call \in {"checkIfOwner"} \cup OwnCalls

\* What has been announced of a device of another host is no newer than what
\* its owner holds.
Theirs ==
  /\ mine => theirs = Absent
  /\ ~mine => \A a \in world :
       /\ theirs # Absent
       /\ a.version <= theirs.version
       /\ a.version = theirs.version => a = theirs

Inv ==
  /\ TypeInv
  /\ OwnNeverGone
  /\ lock # Free => job[lock] # Idle
  /\ ~mine => Known \subseteq world
  /\ Theirs
  /\ \A t \in Thread : Fits(job[t])

-----------------------------------------------------------------------------

\* A goroutine that goes on to another call keeps all else of its job.
LEMMA GoKeeps ==
  ASSUME NEW j \in Job, NEW c \in Calls, NEW k, k = [j EXCEPT !.call = c]
  PROVE  /\ k \in Job
         /\ k.op = j.op
         /\ k.call = c
         /\ j.op \in {"Sync"} \cup PatchOps => k.arg = j.arg
         /\ j \in ReadPatch => k \in ReadPatch /\ k.version = j.version
BY SMT DEF Job, ReadPatch, PatchOps

\* What Go and End do to the jobs of all goroutines.
LEMMA GoChanges ==
  ASSUME job \in [Thread -> Job], NEW t \in Thread, NEW c \in Calls, Go(t, c)
  PROVE  /\ job' \in [Thread -> Job]
         /\ \A u \in Thread \ {t} : job'[u] = job[u]
         /\ job'[t].op = job[t].op
         /\ job'[t].call = c
         /\ job[t].op \in {"Sync"} \cup PatchOps => job'[t].arg = job[t].arg
         /\ job[t] \in ReadPatch => job'[t] \in ReadPatch /\ job'[t].version = job[t].version
<1> DEFINE k == [job[t] EXCEPT !.call = c]
<1>1. job' = [job EXCEPT ![t] = k]
  BY DEF Go
<1>2. job[t] \in Job
  OBVIOUS
<1>3. /\ k \in Job
      /\ k.op = job[t].op
      /\ k.call = c
      /\ job[t].op \in {"Sync"} \cup PatchOps => k.arg = job[t].arg
      /\ job[t] \in ReadPatch => k \in ReadPatch /\ k.version = job[t].version
  BY <1>2, GoKeeps
<1> HIDE DEF k
<1> QED
  BY <1>1, <1>3

LEMMA EndChanges ==
  ASSUME job \in [Thread -> Job], NEW t \in Thread, End(t)
  PROVE  /\ job' \in [Thread -> Job]
         /\ \A u \in Thread \ {t} : job'[u] = job[u]
         /\ job'[t] = Idle
<1>1. Idle \in Job
  BY DEF Idle, Job, Calls
<1> QED
  BY <1>1 DEF End

\* A job that has just begun, or has ended, knows nothing yet.
LEMMA IdleFits == Fits(Idle) /\ Fits(Idle)'
BY DEF Fits, Idle, SyncCalls, OwnCalls, PatchOps
-----------------------------------------------------------------------------
(* Whatever fails and overlaps.                                            *)

LEMMA InitInv == Init => Inv
<1> SUFFICES ASSUME Init PROVE Inv
  OBVIOUS
<1>1. Idle \in Job
  BY DEF Idle, Job, Calls
<1>2. stored \in Data \cup {Absent} /\ (mine => stored # Absent) /\ (~mine => stored = Absent)
  BY StoreAssumption DEF Init, Data
<1>3. TypeInv
  BY <1>1, <1>2 DEF Init, TypeInv
<1>4. \A t \in Thread : Fits(job[t])
  BY IdleFits DEF Init
<1> QED
  BY <1>2, <1>3, <1>4 DEF Inv, OwnNeverGone, Known, Init, Theirs

\* The jobs of the others fit on as long as the owner stays and nothing
\* announced is forgotten.
LEMMA OthersFit ==
  ASSUME Inv, mine' = mine, world \subseteq world', NEW t \in Thread,
         \A u \in Thread \ {t} : job'[u] = job[u],
         Fits(job[t])' \/ job'[t] = job[t]
  PROVE  \A u \in Thread : Fits(job[u])'
BY DEF Inv, Fits

\* Nothing new is announced of a device of another host.
LEMMA TheirsKept ==
  ASSUME Inv, UNCHANGED <<mine, theirs>>, world \subseteq world', world' \subseteq Known
  PROVE  Theirs'
BY DEF Inv, Theirs

\* Use cases begin with jobs that fit.
LEMMA StartInv ==
  ASSUME Inv, NEW t \in Thread, NEW j \in Job, Start(t, j), j.call # "none",
         j.op = "Sync" => j.arg \in world,
         j.op \in PatchOps => j.call = "checkIfOwner",
         j.call \notin SyncCalls \cup OwnCalls \cup {"saveData", "deleteDevice"}
  PROVE  Inv'
<1>1. job' \in [Thread -> Job] /\ job'[t] = j /\ \A u \in Thread \ {t} : job'[u] = job[u]
  BY DEF Start, Inv, TypeInv
<1>2. Fits(j)'
  BY DEF Fits, Start
<1>3. \A u \in Thread : Fits(job[u])'
  BY <1>1, <1>2, OthersFit DEF Start
<1>4. TypeInv'
  BY <1>1 DEF Inv, TypeInv, Start
<1>5. lock' # Free => job'[lock'] # Idle
  BY <1>1 DEF Inv, TypeInv, Start, Idle
<1> QED
  BY <1>3, <1>4, <1>5, TheirsKept DEF Inv, Start, OwnNeverGone, Known

LEMMA ReceiveInv == ASSUME Inv, NEW t \in Reader, Receive(t) PROVE Inv'
<1> t \in Thread
  BY DEF Thread
<1>1. CASE \E c \in world : Start(t, [op |-> "Sync", call |-> "checkIfOwner", arg |-> c])
  <2>1. PICK c \in world : Start(t, [op |-> "Sync", call |-> "checkIfOwner", arg |-> c])
    BY <1>1
  <2> DEFINE j == [op |-> "Sync", call |-> "checkIfOwner", arg |-> c]
  <2>2. c \in Data
    BY DEF Inv, TypeInv
  <2>3. j \in Job /\ j.call = "checkIfOwner" /\ j.arg = c
    BY <2>2 DEF Job, Calls
  <2>4. j.call \notin SyncCalls \cup OwnCalls \cup {"saveData", "deleteDevice"}
    BY <2>3 DEF SyncCalls, OwnCalls
  <2> HIDE DEF j
  <2> QED
    BY <2>1, <2>3, <2>4, StartInv DEF j, PatchOps
<1>2. CASE \E s \in State : Start(t, [op |-> "Patch", call |-> "checkIfOwner", arg |-> s])
  <2>1. PICK s \in State : Start(t, [op |-> "Patch", call |-> "checkIfOwner", arg |-> s])
    BY <1>2
  <2> DEFINE j == [op |-> "Patch", call |-> "checkIfOwner", arg |-> s]
  <2>2. j \in Job /\ j.call = "checkIfOwner" /\ j.op = "Patch"
    BY DEF Job, Calls, PatchOps
  <2>3. j.call \notin SyncCalls \cup OwnCalls \cup {"saveData", "deleteDevice"}
    BY <2>2 DEF SyncCalls, OwnCalls
  <2> HIDE DEF j
  <2> QED
    BY <2>1, <2>2, <2>3, StartInv DEF j
<1>3. CASE Start(t, [op |-> "Hail", call |-> "getDeviceIds"])
  <2> DEFINE j == [op |-> "Hail", call |-> "getDeviceIds"]
  <2>1. j \in Job /\ j.call = "getDeviceIds" /\ j.op = "Hail"
    BY DEF Job, Calls
  <2>2. j.call \notin SyncCalls \cup OwnCalls \cup {"saveData", "deleteDevice"}
    BY <2>1 DEF SyncCalls, OwnCalls
  <2> HIDE DEF j
  <2> QED
    BY <1>3, <2>1, <2>2, StartInv DEF j, PatchOps
<1> QED
  BY <1>1, <1>2, <1>3 DEF Receive

LEMMA AskInv == ASSUME Inv, NEW t \in Web, Ask(t) PROVE Inv'
<1> t \in Thread
  BY DEF Thread
<1>1. PICK j : Start(t, j) /\ \/ \E s \in State :
                                   j = [op |-> "PatchRequest", call |-> "checkIfOwner", arg |-> s]
                              \/ j = [op |-> "Delete", call |-> "checkIfOwner"]
                              \/ j = [op |-> "Hail", call |-> "getDeviceIds"]
                              \/ j = [op |-> "Look", call |-> "look"]
  BY DEF Ask
<1>2. /\ j \in Job /\ j.op # "Sync" /\ j.call \in {"checkIfOwner", "getDeviceIds", "look"}
      /\ j.op \in PatchOps => j.call = "checkIfOwner"
  BY <1>1 DEF Job, Calls, PatchOps
<1>3. j.call # "none" /\ j.call \notin SyncCalls \cup OwnCalls \cup {"saveData", "deleteDevice"}
  BY <1>2 DEF SyncCalls, OwnCalls
<1> QED
  BY <1>1, <1>2, <1>3, StartInv

\* A call that returns leaves a goroutine that has the database open at work,
\* once the job of t has changed as Go or End changes it.
LEMMA LockInv ==
  ASSUME Inv, NEW t \in Thread, NEW c, NEW ok \in BOOLEAN, Returns(t, c, ok),
         \A u \in Thread \ {t} : job'[u] = job[u]
  PROVE  (lock # Free => job[lock] # Idle)' /\ lock' \in Thread \cup {Free}
BY DEF Inv, TypeInv, Returns

\* A call that goes on to the next one, or ends, without a change to the data.
LEMMA QuietInv ==
  ASSUME Inv, NEW t \in Thread, NEW c, NEW ok \in BOOLEAN, Returns(t, c, ok), Quiet,
         job' \in [Thread -> Job], \A u \in Thread \ {t} : job'[u] = job[u],
         Fits(job[t])'
  PROVE  Inv'
<1>1. (lock # Free => job[lock] # Idle)' /\ lock' \in Thread \cup {Free}
  BY LockInv
<1>2. /\ UNCHANGED <<mine, theirs>> /\ mine' = mine
      /\ stored' = stored /\ world' = world /\ spoiled' \in BOOLEAN
  BY DEF Returns, Quiet, Inv, TypeInv
<1>3. \A u \in Thread : Fits(job[u])'
  BY <1>2, OthersFit
<1>4. TypeInv'
  BY <1>1, <1>2 DEF Inv, TypeInv
<1> QED
  BY <1>1, <1>2, <1>3, <1>4, TheirsKept DEF Inv, OwnNeverGone, Known

\* The job fits after Go, if what the next call presumes has been found out.
LEMMA GoFits ==
  ASSUME Inv, NEW t \in Thread, NEW c \in Calls, Go(t, c), mine' = mine, world' = world,
         c \in SyncCalls => job[t].op = "Sync",
         c \in OwnCalls => mine /\ job[t].op \in PatchOps,
         c = "saveData" => job[t] \in ReadPatch,
         c = "deleteDevice" => ~mine,
         job[t].op \in PatchOps => c \in OwnCalls
  PROVE  Fits(job[t])'
<1>1. /\ job'[t].op = job[t].op
      /\ job'[t].call = c
      /\ job[t].op \in {"Sync"} \cup PatchOps => job'[t].arg = job[t].arg
      /\ job[t] \in ReadPatch => job'[t] \in ReadPatch
  BY GoChanges DEF Inv, TypeInv
<1>2. job[t].op = "Sync" => job[t].arg \in world
  BY DEF Inv, Fits
<1> QED
  BY <1>1, <1>2 DEF Fits

LEMMA CheckIfOwnerInv ==
  ASSUME Inv, NEW t \in Thread, NEW ok \in BOOLEAN, CheckIfOwner(t, ok) PROVE Inv'
<1>1. /\ Returns(t, "checkIfOwner", ok) /\ Quiet
      /\ \/ End(t)
         \/ Go(t, "checkVersion") /\ job[t].op = "Sync"
         \/ Go(t, "getDevice") /\ mine /\ job[t].op \in PatchOps
         \/ Go(t, "deleteDevice") /\ ~mine /\ job[t].op = "Delete"
  BY DEF CheckIfOwner, PatchOps
<1>2. job \in [Thread -> Job] /\ mine' = mine /\ world' = world
  BY <1>1 DEF Inv, TypeInv, Returns, Quiet
<1>3. CASE End(t)
  BY <1>1, <1>2, <1>3, EndChanges, IdleFits, QuietInv
<1>4. CASE Go(t, "checkVersion") /\ job[t].op = "Sync"
  <2>1. Fits(job[t])'
    BY <1>2, <1>4, GoFits DEF Calls, SyncCalls, OwnCalls, PatchOps
  <2> QED
    BY <1>1, <1>2, <1>4, <2>1, GoChanges, QuietInv DEF Calls
<1>5. CASE Go(t, "getDevice") /\ mine /\ job[t].op \in PatchOps
  <2>1. Fits(job[t])'
    BY <1>2, <1>5, GoFits DEF Calls, SyncCalls, OwnCalls
  <2> QED
    BY <1>1, <1>2, <1>5, <2>1, GoChanges, QuietInv DEF Calls
<1>6. CASE Go(t, "deleteDevice") /\ ~mine /\ job[t].op = "Delete"
  <2>1. Fits(job[t])'
    BY <1>2, <1>6, GoFits DEF Calls, SyncCalls, OwnCalls, PatchOps
  <2> QED
    BY <1>1, <1>2, <1>6, <2>1, GoChanges, QuietInv DEF Calls
<1> QED
  BY <1>1, <1>3, <1>4, <1>5, <1>6

LEMMA CheckVersionInv ==
  ASSUME Inv, NEW t \in Thread, NEW ok \in BOOLEAN, CheckVersion(t, ok) PROVE Inv'
<1>1. PICK c \in {"saveCandidate", "getOurs"} : Go(t, c)
  BY DEF CheckVersion
<1>2. Returns(t, "checkVersion", ok) /\ Quiet
  BY DEF CheckVersion
<1>3. job[t].op = "Sync"
  BY <1>2 DEF Inv, Fits, Returns, SyncCalls
<1>4. job \in [Thread -> Job] /\ mine' = mine /\ world' = world
  BY <1>2 DEF Inv, TypeInv, Returns, Quiet
<1>5. c \in Calls /\ c \notin OwnCalls /\ c # "saveData" /\ c # "deleteDevice"
  BY DEF Calls, OwnCalls
<1>6. Fits(job[t])'
  BY <1>1, <1>3, <1>4, <1>5, GoFits DEF PatchOps
<1> QED
  BY <1>1, <1>2, <1>4, <1>5, <1>6, GoChanges, QuietInv

LEMMA SaveCandidateInv ==
  ASSUME Inv, NEW t \in Thread, NEW ok \in BOOLEAN, SaveCandidate(t, ok) PROVE Inv'
<1>1. /\ Returns(t, "saveCandidate", ok) /\ End(t)
      /\ world' = world /\ mine' = mine /\ theirs' = theirs
  BY DEF SaveCandidate, Returns
<1>2. job[t].arg \in world /\ job[t].arg \in Data
  BY <1>1 DEF Inv, TypeInv, Fits, Returns, SyncCalls
<1>3. stored' \in {stored, job[t].arg} /\ job[t].arg # Absent
  BY <1>2, StoreAssumption DEF SaveCandidate
<1>4. job' \in [Thread -> Job] /\ job'[t] = Idle /\ \A u \in Thread \ {t} : job'[u] = job[u]
  BY <1>1, EndChanges DEF Inv, TypeInv
<1>5. \A u \in Thread : Fits(job[u])'
  BY <1>1, <1>4, IdleFits, OthersFit
<1>6. (lock # Free => job[lock] # Idle)' /\ lock' \in Thread \cup {Free}
  BY <1>1, <1>4, LockInv
<1>7. TypeInv'
  BY <1>1, <1>2, <1>3, <1>4, <1>6 DEF Inv, TypeInv, Returns
<1> QED
  BY <1>1, <1>2, <1>3, <1>5, <1>6, <1>7, TheirsKept DEF Inv, OwnNeverGone, Known

LEMMA GetAndAnnounceInv ==
  ASSUME Inv, NEW t \in Thread, NEW ok \in BOOLEAN, GetAndAnnounce(t, ok) PROVE Inv'
<1>1. PICK c : Returns(t, c, ok)
  BY DEF GetAndAnnounce
<1>2. End(t) /\ stored' = stored /\ mine' = mine /\ theirs' = theirs
  BY <1>1 DEF GetAndAnnounce, Returns
<1>3. world \subseteq world' /\ world' \subseteq Known
  BY DEF GetAndAnnounce, Known
<1>4. world' \subseteq Data
  BY <1>3 DEF Inv, TypeInv, Known
<1>5. job' \in [Thread -> Job] /\ job'[t] = Idle /\ \A u \in Thread \ {t} : job'[u] = job[u]
  BY <1>2, EndChanges DEF Inv, TypeInv
<1>6. \A u \in Thread : Fits(job[u])'
  BY <1>2, <1>3, <1>5, IdleFits, OthersFit
<1>7. (lock # Free => job[lock] # Idle)' /\ lock' \in Thread \cup {Free}
  BY <1>1, <1>5, LockInv
<1>8. TypeInv'
  BY <1>1, <1>2, <1>4, <1>5, <1>7 DEF Inv, TypeInv, Returns
<1> QED
  BY <1>2, <1>3, <1>6, <1>7, <1>8, TheirsKept DEF Inv, OwnNeverGone, Known

LEMMA GetDeviceInv ==
  ASSUME Inv, NEW t \in Thread, NEW ok \in BOOLEAN, GetDevice(t, ok) PROVE Inv'
<1>1. Returns(t, "getDevice", ok) /\ Quiet
  BY DEF GetDevice
<1>2. mine /\ job[t].op \in PatchOps /\ job[t] \in Job
  BY <1>1 DEF Inv, TypeInv, Fits, Returns, OwnCalls
<1>3. CASE End(t)
  BY <1>1, <1>3, EndChanges, IdleFits, QuietInv DEF Inv, TypeInv
<1>4. CASE ~End(t)
  <2> DEFINE j == [op |-> job[t].op, call |-> "saveData", arg |-> job[t].arg,
                   version |-> stored.version]
  <2>1. stored \in Data /\ job' = [job EXCEPT ![t] = j]
    BY <1>4 DEF GetDevice, Inv, TypeInv
  <2>2. job[t].arg \in State
    BY <1>2 DEF Job, ReadPatch, PatchOps
  <2>3. j \in ReadPatch /\ j.call = "saveData" /\ j.op \in PatchOps
    BY <1>2, <2>1, <2>2 DEF ReadPatch, Calls, Data
  <2>4. j.op # "Sync" /\ j.call \notin SyncCalls /\ j.call \in OwnCalls
    BY <2>3 DEF PatchOps, SyncCalls, OwnCalls
  <2> HIDE DEF j
  <2>5. /\ job' \in [Thread -> Job] /\ job'[t] = j
        /\ \A u \in Thread \ {t} : job'[u] = job[u]
    BY <2>1, <2>3 DEF Inv, TypeInv, Job
  <2>6. Fits(job[t])'
    BY <1>1, <1>2, <2>3, <2>4, <2>5 DEF Fits, Returns
  <2> QED
    BY <1>1, <2>5, <2>6, QuietInv
<1> QED
  BY <1>3, <1>4

LEMMA SaveDataInv ==
  ASSUME Inv, NEW t \in Thread, NEW ok \in BOOLEAN, SaveData(t, ok) PROVE Inv'
<1>1. Returns(t, "saveData", ok) /\ world' = world /\ mine' = mine /\ theirs' = theirs
  BY DEF SaveData, Returns
<1>2. mine /\ job[t].op \in PatchOps /\ job[t] \in ReadPatch
  BY <1>1 DEF Inv, Fits, Returns, OwnCalls
<1>3. stored' \in Data \cup {Absent} /\ stored' # Absent
  <2>1. job[t].version + 1 \in Nat /\ job[t].arg \in State
    BY <1>2 DEF ReadPatch
  <2>2. [version |-> job[t].version + 1, state |-> job[t].arg] \in Data
    BY <2>1 DEF Data
  <2> QED
    BY <1>2, <2>2, StoreAssumption DEF SaveData, Inv, TypeInv, OwnNeverGone
<1>4. /\ job' \in [Thread -> Job] /\ Fits(job[t])'
      /\ \A u \in Thread \ {t} : job'[u] = job[u]
  <2>1. CASE Go(t, "getUpdated")
    <3>1. Fits(job[t])'
      BY <1>1, <1>2, <2>1, GoFits DEF Calls, SyncCalls, OwnCalls
    <3> QED
      BY <2>1, <3>1, GoChanges DEF Calls, Inv, TypeInv
  <2>2. CASE End(t)
    BY <2>2, EndChanges, IdleFits DEF Inv, TypeInv
  <2> QED
    BY <2>1, <2>2 DEF SaveData
<1>5. \A u \in Thread : Fits(job[u])'
  BY <1>1, <1>4, OthersFit
<1>6. (lock # Free => job[lock] # Idle)' /\ lock' \in Thread \cup {Free}
  BY <1>1, <1>4, LockInv
<1>7. TypeInv'
  BY <1>1, <1>3, <1>4, <1>6 DEF Inv, TypeInv, Returns
<1> QED
  BY <1>1, <1>2, <1>3, <1>5, <1>6, <1>7, TheirsKept DEF Inv, OwnNeverGone, Known

LEMMA GetDeviceIdsInv ==
  ASSUME Inv, NEW t \in Thread, NEW ok \in BOOLEAN, GetDeviceIds(t, ok) PROVE Inv'
<1>1. Returns(t, "getDeviceIds", ok) /\ Quiet /\ (Go(t, "getForHail") \/ End(t))
  BY DEF GetDeviceIds
<1>2. job \in [Thread -> Job] /\ mine' = mine /\ world' = world
  BY <1>1 DEF Inv, TypeInv, Returns, Quiet
<1>3. CASE Go(t, "getForHail")
  <2>1. job[t].op \notin PatchOps
    BY <1>1 DEF Inv, Fits, Returns, OwnCalls
  <2>2. Fits(job[t])'
    BY <1>2, <1>3, <2>1, GoFits DEF Calls, SyncCalls, OwnCalls
  <2> QED
    BY <1>1, <1>2, <1>3, <2>2, GoChanges, QuietInv DEF Calls
<1>4. CASE End(t)
  BY <1>1, <1>2, <1>4, EndChanges, IdleFits, QuietInv
<1> QED
  BY <1>1, <1>3, <1>4

LEMMA DeleteDeviceInv ==
  ASSUME Inv, NEW t \in Thread, NEW ok \in BOOLEAN, DeleteDevice(t, ok) PROVE Inv'
<1>1. /\ Returns(t, "deleteDevice", ok) /\ End(t)
      /\ world' = world /\ mine' = mine /\ theirs' = theirs
  BY DEF DeleteDevice, Returns
<1>2. ~mine /\ stored' \in {stored, Absent}
  BY <1>1 DEF DeleteDevice, Returns, Inv, Fits
<1>3. job' \in [Thread -> Job] /\ job'[t] = Idle /\ \A u \in Thread \ {t} : job'[u] = job[u]
  BY <1>1, EndChanges DEF Inv, TypeInv
<1>4. \A u \in Thread : Fits(job[u])'
  BY <1>1, <1>3, IdleFits, OthersFit
<1>5. (lock # Free => job[lock] # Idle)' /\ lock' \in Thread \cup {Free}
  BY <1>1, <1>3, LockInv
<1>6. TypeInv'
  BY <1>1, <1>2, <1>3, <1>5 DEF Inv, TypeInv, Returns
<1> QED
  BY <1>1, <1>2, <1>4, <1>5, <1>6, TheirsKept DEF Inv, OwnNeverGone, Known

LEMMA LookInv == ASSUME Inv, NEW t \in Thread, NEW ok \in BOOLEAN, Look(t, ok) PROVE Inv'
BY EndChanges, IdleFits, QuietInv DEF Look, Inv, TypeInv

LEMMA OpenInv == ASSUME Inv, NEW t \in Thread, Open(t) PROVE Inv'
BY DEF Inv, TypeInv, Open, OwnNeverGone, Known, Theirs, Fits

LEMMA OwnerWritesInv == ASSUME Inv, OwnerWrites PROVE Inv'
<1>1. /\ ~mine /\ theirs' \in Data /\ theirs' # Absent
      /\ theirs # Absent => theirs'.version = theirs.version + 1
  BY StoreAssumption DEF OwnerWrites, Inv, TypeInv, Data
<1>2. \A a \in world : a.version \in Nat /\ theirs # Absent /\ a.version < theirs'.version
  BY <1>1 DEF Inv, TypeInv, Theirs, Data
<1>3. Theirs'
  BY <1>1, <1>2 DEF OwnerWrites, Theirs, Data
<1> QED
  BY <1>1, <1>3 DEF OwnerWrites, Inv, TypeInv, OwnNeverGone, Known, Fits

LEMMA OwnerAnnouncesInv == ASSUME Inv, OwnerAnnounces PROVE Inv'
<1>1. ~mine /\ theirs \in Data
  BY DEF OwnerAnnounces, Inv, TypeInv, Theirs
<1>2. Theirs'
  BY <1>1 DEF OwnerAnnounces, Inv, Theirs, Data
<1> QED
  BY <1>1, <1>2 DEF OwnerAnnounces, Inv, TypeInv, OwnNeverGone, Known, Fits

LEMMA RestartInv == ASSUME Inv, Restart PROVE Inv'
<1>1. Idle \in Job
  BY DEF Idle, Job, Calls
<1>2. \A t \in Thread : Fits(job[t])'
  BY IdleFits DEF Restart
<1>3. TypeInv' /\ Theirs'
  BY <1>1 DEF Inv, TypeInv, Theirs, Restart
<1> QED
  BY <1>2, <1>3 DEF Restart, Inv, OwnNeverGone, Known

LEMMA NextInv == Inv /\ [Next]_vars => Inv'
<1> SUFFICES ASSUME Inv, [Next]_vars PROVE Inv'
  OBVIOUS
<1>1. CASE \E t \in Reader : Receive(t)
  BY <1>1, ReceiveInv
<1>2. CASE \E t \in Web : Ask(t)
  BY <1>2, AskInv
<1>3. CASE \E t \in Thread : Step(t)
  <2>1. PICK t \in Thread : Open(t) \/ Call(t)
    BY <1>3 DEF Step
  <2>2. CASE Call(t)
    <3>1. PICK ok \in BOOLEAN :
            \/ CheckIfOwner(t, ok) \/ CheckVersion(t, ok) \/ SaveCandidate(t, ok)
            \/ GetDevice(t, ok) \/ SaveData(t, ok) \/ GetAndAnnounce(t, ok)
            \/ GetDeviceIds(t, ok) \/ DeleteDevice(t, ok) \/ Look(t, ok)
      BY <2>2 DEF Call
    <3> QED
      BY <3>1, CheckIfOwnerInv, CheckVersionInv, SaveCandidateInv, GetDeviceInv, SaveDataInv,
         GetAndAnnounceInv, GetDeviceIdsInv, DeleteDeviceInv, LookInv
  <2> QED
    BY <2>1, <2>2, OpenInv
<1>4. CASE UNCHANGED vars
  BY <1>4 DEF vars, Inv, TypeInv, OwnNeverGone, Known, Theirs, Fits
<1> QED
  BY <1>1, <1>2, <1>3, <1>4, OwnerWritesInv, OwnerAnnouncesInv, RestartInv DEF Next

\* The inductive invariant holds in every reachable state.
THEOREM Invariance == Spec => []Inv
BY InitInv, NextInv, PTL DEF Spec

\* The database is held by a goroutine in a call, and a device of another
\* host is in a state that its owner has announced.
THEOREM TypeCorrect == Spec => []TypeOK
<1>1. Inv => TypeOK
  BY DEF Inv, TypeInv, TypeOK
<1> QED
  BY <1>1, Invariance, PTL

\* However many goroutines run, and whichever calls fail, a host keeps its own
\* devices: who is about to delete has found another owner.
THEOREM OwnIsKept == Spec => []OwnNeverGone
<1>1. Inv => OwnNeverGone
  BY DEF Inv
<1> QED
  BY <1>1, Invariance, PTL

-----------------------------------------------------------------------------
(* While no two database calls meet, with one reader and one patch.        *)

Alone == Patches <= 1 /\ IsFiniteSet(Thread) /\ \A r, s \in Reader : r = s

OnePatch == \A t, u \in Thread : job[t].op \in PatchOps /\ job[u].op \in PatchOps => t = u

OneSync == \A t \in Thread : job[t].op = "Sync" => t \in Reader

\* What a goroutine has found out still is so when it makes its next call.
Current(j) ==
  /\ mine => j.call \notin SyncCalls
  /\ j.call = "saveData" => stored # Absent /\ j.version = stored.version
  /\ j.call = "saveCandidate" => stored = Absent \/ j.arg.version > stored.version
  /\ j.call = "getUpdated" => stored # Absent /\ stored.state = j.arg

Sound ==
  /\ mine => \A a \in world : a.version <= stored.version
  /\ \A a, b \in Known : a.version = b.version => a = b

Calm == ~spoiled => Sound /\ \A t \in Thread : Current(job[t])

SoloInv == Inv /\ OnePatch /\ OneSync /\ Calm

\* A call leaves the use case as it is, or ends it.
LEMMA CallKeepsOp ==
  ASSUME Inv, NEW t \in Thread, Call(t)
  PROVE  /\ \A u \in Thread \ {t} : job'[u] = job[u]
         /\ job'[t].op = job[t].op \/ job'[t] = Idle
<1>1. job \in [Thread -> Job]
  BY DEF Inv, TypeInv
<1>2. CASE \E c \in Calls : Go(t, c)
  BY <1>1, <1>2, GoChanges
<1>3. CASE End(t)
  BY <1>1, <1>3, EndChanges
<1>4. CASE \E v : job' = [job EXCEPT ![t] =
              [op |-> @.op, call |-> "saveData", arg |-> @.arg, version |-> v]]
  BY <1>1, <1>4
<1>5. (\E c \in Calls : Go(t, c)) \/ End(t) \/ \E ok \in BOOLEAN : GetDevice(t, ok)
  BY DEF Call, CheckIfOwner, CheckVersion, SaveCandidate, SaveData, GetAndAnnounce,
     GetDeviceIds, DeleteDevice, Look, Calls
<1> QED
  BY <1>2, <1>3, <1>4, <1>5 DEF GetDevice

\* Patches start one at a time, and sync messages are the reader's.
LEMMA OnlyOne ==
  ASSUME Alone, Inv, OnePatch, OneSync, [Next]_vars
  PROVE  OnePatch' /\ OneSync'
<1>1. CASE \E t \in Thread : \E j : /\ Start(t, j)
                                    /\ j.op \in PatchOps => MayPatch
                                    /\ j.op = "Sync" => t \in Reader
  <2>0. PICK t \in Thread : \E j : /\ Start(t, j)
                                   /\ j.op \in PatchOps => MayPatch
                                   /\ j.op = "Sync" => t \in Reader
    BY <1>1
  <2>1. PICK j : /\ Start(t, j)
                 /\ j.op \in PatchOps => MayPatch
                 /\ j.op = "Sync" => t \in Reader
    BY <2>0
  <2>2. job'[t] = j /\ \A u \in Thread \ {t} : job'[u] = job[u]
    BY <2>1 DEF Start, Inv, TypeInv
  <2>3. ASSUME j.op \in PatchOps
        PROVE  \A u \in Thread : job[u].op \notin PatchOps
    <3> DEFINE P == {u \in Thread : job[u].op \in {"Patch", "PatchRequest"}}
    <3>1. Cardinality(P) < Patches
      BY <2>1, <2>3 DEF MayPatch
    <3>2. IsFiniteSet(P)
      BY FS_Subset DEF Alone
    <3>3. Cardinality(P) \in Nat
      BY <3>2, FS_CardinalityType
    <3>4. Cardinality(P) = 0
      BY <3>1, <3>3, StoreAssumption DEF Alone
    <3>5. P = {}
      BY <3>2, <3>4, FS_EmptySet
    <3> QED
      BY <3>5 DEF PatchOps
  <2> QED
    BY <2>1, <2>2, <2>3 DEF OnePatch, OneSync
<1>2. CASE \E t \in Thread : Call(t)
  <2>1. Idle.op \notin PatchOps /\ Idle.op # "Sync"
    BY DEF Idle, PatchOps
  <2> QED
    BY <1>2, <2>1, CallKeepsOp DEF OnePatch, OneSync
<1>3. CASE job' = job
  BY <1>3 DEF OnePatch, OneSync
<1>4. \/ job' = job
      \/ \E t \in Thread : Call(t)
      \/ \E t \in Reader : Receive(t)
      \/ \E t \in Web : Ask(t)
      \/ \A t \in Thread : job'[t] = Idle
  BY DEF Next, Step, Open, OwnerWrites, OwnerAnnounces, Restart, vars
<1>5. ASSUME NEW t \in Reader, Receive(t)
      PROVE  \E j : /\ Start(t, j)
                    /\ j.op \in PatchOps => MayPatch
                    /\ j.op = "Sync" => t \in Reader
  <2>1. PICK j : Start(t, j) /\ \/ \E c \in world :
                                     j = [op |-> "Sync", call |-> "checkIfOwner", arg |-> c]
                                \/ MayPatch /\ \E s \in State :
                                     j = [op |-> "Patch", call |-> "checkIfOwner", arg |-> s]
                                \/ j = [op |-> "Hail", call |-> "getDeviceIds"]
    BY <1>5 DEF Receive
  <2>2. j.op = "Sync" \/ (j.op = "Patch" /\ MayPatch) \/ j.op = "Hail"
    BY <2>1
  <2> QED
    BY <2>1, <2>2 DEF PatchOps
<1>6. ASSUME NEW t \in Web, Ask(t)
      PROVE  \E j : /\ Start(t, j)
                    /\ j.op \in PatchOps => MayPatch
                    /\ j.op = "Sync" => t \in Reader
  <2>1. PICK j : Start(t, j) /\ \/ MayPatch /\ \E s \in State :
                                     j = [op |-> "PatchRequest", call |-> "checkIfOwner", arg |-> s]
                                \/ j = [op |-> "Delete", call |-> "checkIfOwner"]
                                \/ j = [op |-> "Hail", call |-> "getDeviceIds"]
                                \/ j = [op |-> "Look", call |-> "look"]
    BY <1>6 DEF Ask
  <2>2. (j.op = "PatchRequest" /\ MayPatch) \/ j.op \in {"Delete", "Hail", "Look"}
    BY <2>1
  <2> QED
    BY <2>1, <2>2 DEF PatchOps
<1>7. CASE \A t \in Thread : job'[t] = Idle
  BY <1>7 DEF OnePatch, OneSync, Idle, PatchOps
<1> QED
  BY <1>1, <1>2, <1>3, <1>4, <1>5, <1>6, <1>7 DEF Thread
-----------------------------------------------------------------------------

LEMMA InitSolo == Init => SoloInv
<1> SUFFICES ASSUME Init PROVE SoloInv
  OBVIOUS
<1>1. \A t \in Thread : job[t] = Idle
  BY DEF Init
<1>2. OnePatch /\ OneSync /\ \A t \in Thread : Current(job[t])
  BY <1>1 DEF OnePatch, OneSync, Current, Idle, PatchOps, SyncCalls
<1>3. Sound
  BY DEF Init, Sound, Known
<1> QED
  BY <1>2, <1>3, InitInv DEF SoloInv, Calm

\* A step that leaves the data as it is, but for an announcement of what this
\* host holds.
LEMMA CalmQuiet ==
  ASSUME Inv, Calm, mine' = mine, stored' = stored, ~spoiled' => ~spoiled,
         world \subseteq world', world' \subseteq Known,
         NEW t \in Thread, \A u \in Thread \ {t} : job'[u] = job[u],
         ~spoiled' => Current(job[t])'
  PROVE  Calm'
<1> SUFFICES ASSUME ~spoiled' PROVE Sound' /\ \A u \in Thread : Current(job[u])'
  BY DEF Calm
<1>1. Sound /\ \A u \in Thread : Current(job[u])
  BY DEF Calm
<1>2. Known' = Known
  BY DEF Known
<1>3. \A a \in Known : mine => a.version <= stored.version
  BY <1>1 DEF Sound, Known, Inv, TypeInv, Data, OwnNeverGone
<1>4. Sound'
  BY <1>1, <1>2, <1>3 DEF Sound
<1>5. \A u \in Thread \ {t} : Current(job[u])'
  BY <1>1 DEF Current
<1> QED
  BY <1>4, <1>5

LEMMA IdleCurrent == Current(Idle) /\ Current(Idle)'
BY DEF Current, Idle, SyncCalls

LEMMA StartCalm ==
  ASSUME Inv, Calm, NEW t \in Thread, NEW j, Start(t, j),
         j.call \notin SyncCalls \cup {"saveData", "getUpdated"}
  PROVE  Calm'
<1>1. job'[t] = j /\ \A u \in Thread \ {t} : job'[u] = job[u]
  BY DEF Start, Inv, TypeInv
<1>2. Current(j)'
  BY DEF Current, SyncCalls
<1> QED
  BY <1>1, <1>2, CalmQuiet DEF Start, Known

\* A use case begins with a call that presumes nothing.
LEMMA BeginCalm ==
  ASSUME Inv, Calm, NEW t \in Thread, Receive(t) \/ Ask(t)
  PROVE  Calm'
<1>1. PICK j : Start(t, j) /\ \/ \E c \in world :
                                   j = [op |-> "Sync", call |-> "checkIfOwner", arg |-> c]
                              \/ \E s \in State, o \in PatchOps :
                                   j = [op |-> o, call |-> "checkIfOwner", arg |-> s]
                              \/ j = [op |-> "Delete", call |-> "checkIfOwner"]
                              \/ j = [op |-> "Hail", call |-> "getDeviceIds"]
                              \/ j = [op |-> "Look", call |-> "look"]
  BY DEF Receive, Ask, PatchOps
<1>2. j.call \in {"checkIfOwner", "getDeviceIds", "look"}
  BY <1>1
<1> QED
  BY <1>1, <1>2, StartCalm DEF SyncCalls

\* A call that changes no data, and goes on to a call that presumes nothing.
LEMMA GoCalm ==
  ASSUME Inv, Calm, NEW t \in Thread, NEW c, NEW ok \in BOOLEAN, Returns(t, c, ok), Quiet,
         NEW d \in Calls \ {"saveData", "getUpdated"}, Go(t, d),
         ~spoiled' /\ mine => d \notin SyncCalls,
         ~spoiled' /\ d = "saveCandidate"
           => stored = Absent \/ job[t].arg.version > stored.version,
         d \in SyncCalls => job[t].op = "Sync"
  PROVE  Calm'
<1>1. /\ \A u \in Thread \ {t} : job'[u] = job[u]
      /\ job'[t].call = d
      /\ job[t].op \in {"Sync"} \cup PatchOps => job'[t].arg = job[t].arg
  BY GoChanges DEF Inv, TypeInv
<1>2. mine' = mine /\ stored' = stored /\ world' = world /\ (~spoiled' => ~spoiled)
  BY DEF Returns, Quiet
<1>3. ~spoiled' => Current(job[t])'
  BY <1>1, <1>2 DEF Current, SyncCalls
<1> QED
  BY <1>1, <1>2, <1>3, CalmQuiet DEF Known

LEMMA EndCalm ==
  ASSUME Inv, Calm, NEW t \in Thread, NEW c, NEW ok \in BOOLEAN, Returns(t, c, ok), End(t),
         stored' = stored, world \subseteq world', world' \subseteq Known
  PROVE  Calm'
<1>1. job'[t] = Idle /\ \A u \in Thread \ {t} : job'[u] = job[u]
  BY EndChanges DEF Inv, TypeInv
<1> QED
  BY <1>1, IdleCurrent, CalmQuiet DEF Returns

LEMMA CheckIfOwnerCalm ==
  ASSUME Inv, Calm, NEW t \in Thread, NEW ok \in BOOLEAN, CheckIfOwner(t, ok) PROVE Calm'
<1>1. /\ Returns(t, "checkIfOwner", ok) /\ Quiet
      /\ \/ End(t)
         \/ Go(t, "checkVersion") /\ job[t].op = "Sync" /\ ~(ok /\ stored # Absent /\ mine)
         \/ Go(t, "getDevice")
         \/ Go(t, "deleteDevice")
  BY DEF CheckIfOwner
<1>2. ~spoiled' => ok
  BY <1>1 DEF Returns
<1>3. CASE End(t)
  BY <1>1, <1>3, EndCalm DEF Quiet, Known
<1>4. CASE Go(t, "checkVersion") /\ job[t].op = "Sync" /\ ~(ok /\ stored # Absent /\ mine)
  <2>1. ~spoiled' => ~mine
    BY <1>2, <1>4 DEF Inv, OwnNeverGone
  <2> QED
    BY <1>1, <1>4, <2>1, GoCalm DEF Calls
<1>5. CASE \E c \in {"getDevice", "deleteDevice"} : Go(t, c)
  BY <1>1, <1>5, GoCalm DEF Calls, SyncCalls
<1> QED
  BY <1>1, <1>3, <1>4, <1>5

\* An older candidate is not stored, and one of our own device not considered.
LEMMA CheckVersionCalm ==
  ASSUME Inv, Calm, NEW t \in Thread, NEW ok \in BOOLEAN, CheckVersion(t, ok) PROVE Calm'
<1>1. Returns(t, "checkVersion", ok) /\ Quiet /\ job[t].call = "checkVersion"
  BY DEF CheckVersion, Returns
<1>2. ~spoiled' => ok /\ ~mine
  BY <1>1 DEF Returns, Calm, Current, SyncCalls
<1>3. job[t].op = "Sync"
  BY <1>1 DEF Inv, Fits, SyncCalls
<1>4. CASE Go(t, "getOurs")
  BY <1>1, <1>2, <1>3, <1>4, GoCalm DEF Calls
<1>5. CASE /\ Go(t, "saveCandidate")
           /\ ok /\ stored # Absent => job[t].arg.version > stored.version
  BY <1>1, <1>2, <1>3, <1>5, GoCalm DEF Calls
<1> QED
  BY <1>4, <1>5 DEF CheckVersion

\* The reader stores what was newer when it looked.  Since then nobody has
\* stored anything: the reader is alone, and the device is not ours to patch.
LEMMA SaveCandidateCalm ==
  ASSUME Alone, SoloInv, NEW t \in Thread, NEW ok \in BOOLEAN, SaveCandidate(t, ok)
  PROVE  /\ Calm'
         /\ ~spoiled' /\ stored # Absent => stored'.version > stored.version
<1> SUFFICES ASSUME ~spoiled'
             PROVE  /\ Sound' /\ \A u \in Thread : Current(job[u])'
                    /\ stored # Absent => stored'.version > stored.version
  BY DEF Calm
<1> USE DEF SoloInv
<1>1. /\ ok /\ ~spoiled /\ mine' = mine /\ world' = world /\ End(t)
      /\ job[t].call = "saveCandidate" /\ stored' = job[t].arg
  BY DEF SaveCandidate, Returns
<1>2. /\ ~mine /\ job[t].op = "Sync" /\ stored' \in world
      /\ stored # Absent => stored'.version > stored.version
  BY <1>1 DEF Calm, Current, Inv, Fits, SyncCalls
<1>3. Sound'
  BY <1>1, <1>2 DEF Calm, Sound, Known
<1>4. job'[t] = Idle /\ \A u \in Thread \ {t} : job'[u] = job[u]
  BY <1>1, EndChanges DEF Inv, TypeInv
<1>5. ASSUME NEW u \in Thread \ {t} PROVE Current(job[u])'
  <2>1. job[u].op # "Sync"
    BY <1>2 DEF OneSync, Alone
  <2>2. job[u].call \notin SyncCalls \cup OwnCalls
    BY <1>2, <2>1 DEF Inv, Fits
  <2> QED
    BY <1>1, <1>2, <1>4, <2>2 DEF Current, SyncCalls, OwnCalls
<1> QED
  BY <1>2, <1>3, <1>4, <1>5, IdleCurrent

\* The version a patch has read is still the stored one: patches come one at a
\* time, and sync messages do not touch a device of ours.
LEMMA SaveDataCalm ==
  ASSUME SoloInv, NEW t \in Thread, NEW ok \in BOOLEAN, SaveData(t, ok)
  PROVE  /\ Calm'
         /\ ~spoiled' /\ stored # Absent => stored'.version > stored.version
<1> SUFFICES ASSUME ~spoiled'
             PROVE  /\ Sound' /\ \A u \in Thread : Current(job[u])'
                    /\ stored # Absent => stored'.version > stored.version
  BY DEF Calm
<1> USE DEF SoloInv
<1>1. /\ ok /\ ~spoiled /\ mine' = mine /\ world' = world /\ Go(t, "getUpdated")
      /\ job[t].call = "saveData"
      /\ stored' = [version |-> job[t].version + 1, state |-> job[t].arg]
  BY DEF SaveData, Returns
<1>2. /\ mine /\ job[t].op \in PatchOps
      /\ stored # Absent /\ job[t].version = stored.version
  BY <1>1 DEF Calm, Current, Inv, Fits, OwnCalls
<1>3. stored.version \in Nat /\ stored'.version = stored.version + 1
  BY <1>1, <1>2 DEF Inv, TypeInv, Data
<1>4. \A a \in world : a.version \in Nat /\ a.version <= stored.version
  BY <1>1, <1>2 DEF Calm, Sound, Inv, TypeInv, Data
<1>5. \A a \in world : a.version < stored'.version
  BY <1>3, <1>4
<1>6. \A a, b \in world : a.version = b.version => a = b
  BY <1>1 DEF Calm, Sound, Known
<1>7. Sound'
  BY <1>1, <1>3, <1>4, <1>5, <1>6 DEF Sound, Known
<1>8. /\ job'[t].call = "getUpdated" /\ job'[t].arg = job[t].arg
      /\ \A u \in Thread \ {t} : job'[u] = job[u]
  BY <1>1, <1>2, GoChanges DEF Calls, Inv, TypeInv
<1>9. ASSUME NEW u \in Thread \ {t} PROVE Current(job[u])'
  <2>1. job[u].call \notin OwnCalls
    BY <1>2 DEF OnePatch, Inv, Fits
  <2>2. job[u].call \notin SyncCalls
    BY <1>1, <1>2 DEF Calm, Current
  <2> QED
    BY <1>8, <2>1, <2>2 DEF Current, SyncCalls, OwnCalls
<1>10. Current(job[t])'
  <2>1. stored' # Absent
    BY <1>1, <1>2, SaveDataInv DEF Inv, OwnNeverGone
  <2> QED
    BY <1>1, <1>8, <2>1 DEF Current, SyncCalls
<1> QED
  BY <1>3, <1>7, <1>9, <1>10

LEMMA DeleteDeviceCalm ==
  ASSUME Inv, Calm, NEW t \in Thread, NEW ok \in BOOLEAN, DeleteDevice(t, ok) PROVE Calm'
<1> SUFFICES ASSUME ~spoiled' PROVE Sound' /\ \A u \in Thread : Current(job[u])'
  BY DEF Calm
<1>1. /\ ok /\ ~spoiled /\ mine' = mine /\ world' = world /\ End(t)
      /\ job[t].call = "deleteDevice" /\ stored' = Absent
  BY DEF DeleteDevice, Returns
<1>2. ~mine
  BY <1>1 DEF Inv, Fits
<1>3. Sound'
  BY <1>1, <1>2 DEF Calm, Sound, Known
<1>4. job'[t] = Idle /\ \A u \in Thread \ {t} : job'[u] = job[u]
  BY <1>1, EndChanges DEF Inv, TypeInv
<1>5. ASSUME NEW u \in Thread \ {t} PROVE Current(job[u])'
  BY <1>1, <1>2, <1>4 DEF Current, Inv, Fits, OwnCalls
<1> QED
  BY <1>3, <1>4, <1>5, IdleCurrent

LEMMA GetDeviceCalm ==
  ASSUME Inv, Calm, NEW t \in Thread, NEW ok \in BOOLEAN, GetDevice(t, ok) PROVE Calm'
<1>1. Returns(t, "getDevice", ok) /\ Quiet
  BY DEF GetDevice
<1>2. CASE End(t)
  BY <1>1, <1>2, EndCalm DEF Quiet, Known
<1>3. CASE ~End(t)
  <2> DEFINE j == [op |-> job[t].op, call |-> "saveData", arg |-> job[t].arg,
                   version |-> stored.version]
  <2>1. stored # Absent /\ job' = [job EXCEPT ![t] = j]
    BY <1>3 DEF GetDevice
  <2>2. j.call = "saveData" /\ j.version = stored.version
    OBVIOUS
  <2> HIDE DEF j
  <2>3. job'[t] = j /\ \A u \in Thread \ {t} : job'[u] = job[u]
    BY <2>1 DEF Inv, TypeInv
  <2>4. mine' = mine /\ stored' = stored /\ world' = world /\ (~spoiled' => ~spoiled)
    BY <1>1 DEF Returns, Quiet
  <2>5. Current(job[t])'
    BY <2>1, <2>2, <2>3, <2>4 DEF Current, SyncCalls
  <2> QED
    BY <2>3, <2>4, <2>5, CalmQuiet DEF Known
<1> QED
  BY <1>2, <1>3

\* All the other calls change what is announced at most.
LEMMA OtherCallsCalm ==
  ASSUME Inv, Calm, NEW t \in Thread, NEW ok \in BOOLEAN,
         GetAndAnnounce(t, ok) \/ GetDeviceIds(t, ok) \/ Look(t, ok)
  PROVE  Calm' /\ stored' = stored
<1>1. CASE GetAndAnnounce(t, ok)
  <2>1. PICK c : Returns(t, c, ok)
    BY <1>1 DEF GetAndAnnounce
  <2>2. End(t) /\ stored' = stored /\ world \subseteq world' /\ world' \subseteq Known
    BY <1>1 DEF GetAndAnnounce, Known
  <2> QED
    BY <2>1, <2>2, EndCalm
<1>2. CASE GetDeviceIds(t, ok)
  <2>1. Returns(t, "getDeviceIds", ok) /\ Quiet /\ (Go(t, "getForHail") \/ End(t))
    BY <1>2 DEF GetDeviceIds
  <2>2. CASE Go(t, "getForHail")
    BY <2>1, <2>2, GoCalm DEF Quiet, Calls, SyncCalls
  <2>3. CASE End(t)
    BY <2>1, <2>3, EndCalm DEF Quiet, Known
  <2> QED
    BY <2>1, <2>2, <2>3 DEF Quiet
<1>3. CASE Look(t, ok)
  BY <1>3, EndCalm DEF Look, Quiet, Known
<1> QED
  BY <1>1, <1>2, <1>3

LEMMA OwnerAnnouncesCalm == ASSUME Inv, Calm, OwnerAnnounces PROVE Calm'
<1> SUFFICES ASSUME ~spoiled' PROVE Sound' /\ \A u \in Thread : Current(job[u])'
  BY DEF Calm
<1>1. ~mine /\ ~spoiled /\ UNCHANGED <<mine, stored, job>>
  BY DEF OwnerAnnounces, Inv, Theirs
<1>2. \A a, b \in world : a.version = b.version => a = b
  BY <1>1 DEF Calm, Sound, Known
<1>3. \A a \in world : a.version = theirs.version => a = theirs
  BY <1>1 DEF Inv, Theirs
<1>4. Known' = world' /\ world' = world \cup {theirs}
  BY <1>1 DEF OwnerAnnounces, Inv, Known
<1>5. Sound'
  BY <1>1, <1>2, <1>3, <1>4 DEF Sound
<1>6. \A u \in Thread : Current(job[u])'
  BY <1>1 DEF Calm, Current
<1> QED
  BY <1>5, <1>6

LEMMA RestartCalm == ASSUME Calm, Restart PROVE Calm'
BY IdleCurrent DEF Restart, Calm, Sound, Known

LEMMA NextSolo ==
  ASSUME Alone, SoloInv, [Next]_vars
  PROVE  /\ SoloInv'
         /\ ~spoiled' /\ stored # Absent /\ stored' \notin {stored, Absent}
              => stored'.version > stored.version
<1> USE DEF SoloInv
<1>1. Inv' /\ OnePatch' /\ OneSync'
  BY NextInv, OnlyOne
<1>2. CASE (\E t \in Reader : Receive(t)) \/ (\E t \in Web : Ask(t))
  <2>1. stored' = stored
    BY <1>2 DEF Receive, Ask, Start
  <2>2. Calm'
    BY <1>2, BeginCalm DEF Thread
  <2> QED
    BY <1>1, <2>1, <2>2
<1>3. CASE \E t \in Thread : Call(t)
  <2>1. PICK t \in Thread, ok \in BOOLEAN :
          \/ CheckIfOwner(t, ok) \/ CheckVersion(t, ok) \/ SaveCandidate(t, ok)
          \/ GetDevice(t, ok) \/ SaveData(t, ok) \/ GetAndAnnounce(t, ok)
          \/ GetDeviceIds(t, ok) \/ DeleteDevice(t, ok) \/ Look(t, ok)
    BY <1>3 DEF Call
  <2>2. CASE CheckIfOwner(t, ok) \/ CheckVersion(t, ok) \/ GetDevice(t, ok)
    <3>1. stored' = stored
      BY <2>2 DEF CheckIfOwner, CheckVersion, GetDevice, Quiet
    <3> QED
      BY <1>1, <2>2, <3>1, CheckIfOwnerCalm, CheckVersionCalm, GetDeviceCalm
  <2>3. CASE SaveCandidate(t, ok)
    BY <1>1, <2>3, SaveCandidateCalm
  <2>4. CASE SaveData(t, ok)
    BY <1>1, <2>4, SaveDataCalm
  <2>5. CASE DeleteDevice(t, ok)
    <3>1. stored' \in {stored, Absent}
      BY <2>5 DEF DeleteDevice
    <3> QED
      BY <1>1, <2>5, <3>1, DeleteDeviceCalm
  <2>6. CASE GetAndAnnounce(t, ok) \/ GetDeviceIds(t, ok) \/ Look(t, ok)
    BY <1>1, <2>6, OtherCallsCalm
  <2> QED
    BY <2>1, <2>2, <2>3, <2>4, <2>5, <2>6
<1>4. CASE OwnerAnnounces \/ Restart
  <2>1. stored' = stored
    BY <1>4 DEF OwnerAnnounces, Restart
  <2> QED
    BY <1>1, <1>4, <2>1, OwnerAnnouncesCalm, RestartCalm
<1>5. CASE UNCHANGED <<mine, stored, job, world, spoiled>>
  BY <1>1, <1>5 DEF Calm, Sound, Known, Current
<1> QED
  BY <1>2, <1>3, <1>4, <1>5 DEF Next, Step, Open, OwnerWrites, vars

\* With one reader and at most one patch at a time, any number of goroutines
\* may interleave their database calls: as long as no call has failed because
\* it met another, a version has one state, and no announcement of a device of
\* this host is ahead of what the host holds.
THEOREM SoundWhileNotBusy == ASSUME Alone PROVE Spec => []SoundUnlessBusy
<1>1. SoloInv => SoundUnlessBusy
  BY DEF SoloInv, Calm, Sound, SoundUnlessBusy
<1>2. SoloInv /\ [Next]_vars => SoloInv'
  BY NextSolo
<1> QED
  BY <1>1, <1>2, InitSolo, PTL DEF Spec

\* And as long, what a host holds is replaced by newer versions alone, though
\* the version is checked in one database call and the state stored in another.
THEOREM NoRegressWhileNotBusy == ASSUME Alone PROVE Spec => NeverRegressUnlessBusy
<1>1. SoloInv /\ [Next]_vars => SoloInv'
  BY NextSolo
<1>2. SoloInv /\ [Next]_vars
        => [~spoiled' /\ stored # Absent /\ stored' \notin {stored, Absent}
              => stored'.version > stored.version]_vars
  BY NextSolo
<1> QED
  BY <1>1, <1>2, InitSolo, PTL DEF Spec, NeverRegressUnlessBusy

-----------------------------------------------------------------------------
(* What a patch comes to, while no two database calls meet.                *)

\* A patch whose call succeeds goes on to the next one; the last call announces
\* what the patch has stored.
LEMMA PatchEnds ==
  ASSUME SoloInv, ~spoiled', mine, NEW t \in Thread, job[t].op \in PatchOps, Call(t),
         job'[t] = Idle
  PROVE  stored' \in world' /\ stored'.state = job[t].arg
<1> USE DEF SoloInv
<1>1. PICK ok \in BOOLEAN :
        \/ CheckIfOwner(t, ok) \/ CheckVersion(t, ok) \/ SaveCandidate(t, ok)
        \/ GetDevice(t, ok) \/ SaveData(t, ok) \/ GetAndAnnounce(t, ok)
        \/ GetDeviceIds(t, ok) \/ DeleteDevice(t, ok) \/ Look(t, ok)
  BY DEF Call
<1>2. /\ job[t].call \in {"checkIfOwner", "getDevice", "saveData", "getUpdated"}
      /\ stored # Absent
      /\ job \in [Thread -> Job]
  BY DEF Inv, TypeInv, Fits, OwnCalls, OwnNeverGone
<1>3. ASSUME NEW c \in Calls, c # "none", Go(t, c) PROVE FALSE
  BY <1>2, <1>3, GoChanges DEF Idle
<1>4. CASE CheckIfOwner(t, ok)
  <2>1. Go(t, "getDevice")
    BY <1>2, <1>4 DEF CheckIfOwner, Returns, PatchOps
  <2> QED
    BY <1>3, <2>1 DEF Calls
<1>5. CASE GetDevice(t, ok)
  <2>1. job' = [job EXCEPT ![t] =
          [op |-> @.op, call |-> "saveData", arg |-> @.arg, version |-> stored.version]]
    BY <1>2, <1>5 DEF GetDevice, Returns
  <2>2. job'[t].call = "saveData"
    BY <1>2, <2>1
  <2> QED
    BY <2>2 DEF Idle
<1>6. CASE SaveData(t, ok)
  <2>1. Go(t, "getUpdated")
    BY <1>6 DEF SaveData, Returns
  <2> QED
    BY <1>3, <2>1 DEF Calls
<1>7. CASE GetAndAnnounce(t, ok)
  <2>1. ok /\ ~spoiled /\ job[t].call = "getUpdated"
    BY <1>2, <1>7 DEF GetAndAnnounce, Returns
  <2>2. stored.state = job[t].arg
    BY <2>1 DEF Calm, Current
  <2> QED
    BY <1>2, <1>7, <2>1, <2>2 DEF GetAndAnnounce
<1> QED
  BY <1>1, <1>2, <1>4, <1>5, <1>6, <1>7
     DEF CheckVersion, SaveCandidate, GetDeviceIds, DeleteDevice, Look, Returns

\* With one reader and one patch at a time, as long as no two database calls
\* meet, a patch for a device of this host, asked for by a message or by the
\* user, ends by announcing the state it was asked for, or with the process.
THEOREM AnnouncedWhileNotBusy == ASSUME Alone PROVE Spec => AnnouncedUnlessBusy
<1>1. SoloInv /\ [Next]_vars => SoloInv'
  BY NextSolo
<1>2. SoloInv /\ [Next]_vars =>
        [\A t \in Thread :
           /\ ~spoiled' /\ mine
           /\ job[t].op \in {"Patch", "PatchRequest"} /\ job'[t] = Idle
           => \/ stored' \in world' /\ stored'.state = job[t].arg
              \/ Restart]_vars
  <2> SUFFICES ASSUME SoloInv, Next, NEW t \in Thread, ~spoiled', mine,
                      job[t].op \in PatchOps, job'[t] = Idle, ~Restart
               PROVE  stored' \in world' /\ stored'.state = job[t].arg
    BY DEF PatchOps
  <2>1. job \in [Thread -> Job] /\ job[t] # Idle
    BY DEF SoloInv, Inv, TypeInv, Idle, PatchOps
  <2>2. ASSUME NEW u \in Thread, NEW j, Start(u, j) PROVE FALSE
    <3>1. job'[t] = job[t]
      BY <2>1, <2>2 DEF Start
    <3> QED
      BY <2>1, <3>1
  <2>3. (\E u \in Reader : Receive(u)) \/ (\E u \in Web : Ask(u))
          => \E u \in Thread : \E j : Start(u, j)
    BY DEF Receive, Ask, Thread
  <2>4. job' # job
    BY <2>1
  <2>5. PICK u \in Thread : Call(u)
    BY <2>2, <2>3, <2>4 DEF Next, Step, Open, OwnerWrites, OwnerAnnounces
  <2>6. u = t
    BY <2>1, <2>5, CallKeepsOp DEF SoloInv
  <2> QED
    BY <2>5, <2>6, PatchEnds
<1> QED
  BY <1>1, <1>2, InitSolo, PTL DEF Spec, AnnouncedUnlessBusy

-----------------------------------------------------------------------------
(* While no two database calls meet, the host is a register of the store.  *)

Copy ==
  [n \in {"here", "there"} |->
     [d \in {"device"} |-> AsCopy(IF n = "here" THEN stored ELSE theirs)]]

Told(a) == [device |-> "device", data |-> AsCopy(a)]

LEMMA AsCopyIs ==
  ASSUME NEW a \in Data
  PROVE  /\ AsCopy(a) \in Copies /\ AsCopy(a) # Absent
         /\ AsCopy(a).owner = IF mine THEN "here" ELSE "there"
         /\ AsCopy(a).kind = "any"
         /\ AsCopy(a).state = a.state
         /\ AsCopy(a).version = a.version
<1>1. a # Absent
  BY StoreAssumption
<1> DEFINE c == [owner |-> IF mine THEN "here" ELSE "there", kind |-> "any",
                 state |-> a.state, version |-> a.version]
<1>2. AsCopy(a) = c
  BY <1>1 DEF AsCopy
<1>3. c \in Copies
  BY DEF Data, Copies
<1> QED
  BY <1>2, <1>3, StoreAssumption

\* A step of this host, or of the owner, changes one copy.
LEMMA CopyHere ==
  ASSUME UNCHANGED <<mine, theirs>>
  PROVE  Copy' = [Copy EXCEPT !["here"]["device"] = AsCopy(stored')]
BY DEF Copy, AsCopy

LEMMA CopyThere ==
  ASSUME UNCHANGED <<mine, stored>>
  PROVE  Copy' = [Copy EXCEPT !["there"]["device"] = AsCopy(theirs')]
BY DEF Copy, AsCopy

\* What the hosts of the register hold, they may tell.
LEMMA CopiesAreReports ==
  ASSUME NEW a \in {stored, theirs} \cap Data
  PROVE  Told(a) \in R!CopyReports
<1>1. PICK n \in {"here", "there"} : Copy[n]["device"] = AsCopy(a)
  BY DEF Copy
<1>2. AsCopy(a) # Absent
  BY AsCopyIs
<1> DEFINE Reports(m) == {[device |-> d, data |-> Copy[m][d]] :
                            d \in {e \in {"device"} : Copy[m][e] # Absent}}
<1>3. Told(a) \in Reports(n)
  BY <1>1, <1>2 DEF Told
<1>4. R!CopyReports = UNION {Reports(m) : m \in {"here", "there"}}
  BY DEF R!CopyReports, Copy
<1> HIDE DEF Reports
<1> QED
  BY <1>3, <1>4

\* Only what was known already, or is written now, is told.
LEMMA Circulates ==
  ASSUME mine' = mine, NEW fresh, Inv,
         world' \subseteq world \cup ({stored, theirs} \cap Data)
  PROVE  R!Circulate(fresh)
<1> DEFINE gossip == {Told(a) : a \in world}
<1>1. gossip' = {Told(a) : a \in world'}
  BY DEF Told, AsCopy
<1>2. \A a \in world' : Told(a) \in gossip \cup R!CopyReports
  BY CopiesAreReports
<1>3. gossip' \subseteq gossip \cup R!CopyReports \cup fresh
  BY <1>1, <1>2
<1> QED
  BY <1>3 DEF R!Circulate, Told

LEMMA TellsOnly ==
  ASSUME Inv, UNCHANGED <<mine, stored, theirs>>,
         world' \subseteq world \cup ({stored, theirs} \cap Data)
  PROVE  R!Next
<1>1. Copy' = Copy
  BY DEF Copy, AsCopy
<1>2. R!Circulate({})
  BY Circulates
<1> QED
  BY <1>1, <1>2 DEF R!Next, R!Tell, Copy

LEMMA LearnsCandidate ==
  ASSUME SoloInv, NEW t \in Thread, NEW ok \in BOOLEAN, SaveCandidate(t, ok), ~spoiled'
  PROVE  R!Next
<1> USE DEF SoloInv
<1>1. /\ ok /\ ~spoiled /\ UNCHANGED <<mine, theirs, world>>
      /\ job[t].call = "saveCandidate" /\ stored' = job[t].arg
  BY DEF SaveCandidate, Returns
<1>2. /\ ~mine /\ stored' \in world
      /\ stored # Absent => stored'.version > stored.version
  BY <1>1 DEF Calm, Current, Inv, Fits, SyncCalls
<1>3. stored' \in Data /\ (stored # Absent => stored \in Data)
  BY <1>2 DEF Inv, TypeInv
<1> DEFINE r == Told(stored')
<1>4. r \in {Told(a) : a \in world} /\ r.device = "device" /\ r.data = AsCopy(stored')
  BY <1>2 DEF Told
<1>5. Copy["here"]["device"] = AsCopy(stored)
  BY DEF Copy
<1>6. \/ Copy["here"]["device"] = Absent
      \/ /\ Copy["here"]["device"].owner # "here"
         /\ Copy["here"]["device"].version < AsCopy(stored').version
  <2>1. CASE stored = Absent
    BY <1>5, <2>1 DEF AsCopy
  <2>2. CASE stored # Absent
    <3>1. stored.version < stored'.version
      BY <1>2, <1>3, <2>2 DEF Data
    <3> QED
      BY <1>2, <1>3, <1>5, <2>2, <3>1, AsCopyIs
  <2> QED
    BY <2>1, <2>2
<1>7. Copy' = [Copy EXCEPT !["here"]["device"] = AsCopy(stored')]
  BY <1>1, CopyHere DEF AsCopy
<1>8. R!Circulate({})
  BY <1>1, Circulates
<1>9. R!Learn("here", r)
  BY <1>4, <1>6, <1>7, <1>8 DEF R!Learn, Copy, Told
<1> QED
  BY <1>4, <1>9 DEF R!Next, Told

LEMMA WritesPatch ==
  ASSUME SoloInv, NEW t \in Thread, NEW ok \in BOOLEAN, SaveData(t, ok), ~spoiled'
  PROVE  R!Next
<1> USE DEF SoloInv
<1>1. /\ ok /\ ~spoiled /\ UNCHANGED <<mine, theirs, world>>
      /\ job[t].call = "saveData"
      /\ stored' = [version |-> job[t].version + 1, state |-> job[t].arg]
  BY DEF SaveData, Returns
<1>2. /\ mine /\ job[t] \in ReadPatch
      /\ stored \in Data /\ stored # Absent /\ job[t].version = stored.version
  BY <1>1 DEF Calm, Current, Inv, TypeInv, Fits, OwnCalls
<1> DEFINE s == job[t].arg
<1>3. s \in State /\ stored' = [version |-> stored.version + 1, state |-> s]
  BY <1>1, <1>2 DEF ReadPatch
<1>4. Copy["here"]["device"] = AsCopy(stored)
  BY DEF Copy
<1>5. AsCopy(stored') = R!Written(Copy["here"]["device"], s)
  <2>1. stored' \in Data
    BY <1>2, <1>3 DEF Data
  <2>2. stored' # Absent
    BY <2>1, StoreAssumption
  <2> QED
    BY <1>2, <1>3, <1>4, <2>2, AsCopyIs DEF R!Written, AsCopy, Copy
<1>6. Copy' = [Copy EXCEPT !["here"]["device"] = R!Written(Copy["here"]["device"], s)]
  BY <1>1, <1>5, CopyHere DEF AsCopy
<1>7. R!Circulate({[device |-> "device", data |-> R!Written(Copy["here"]["device"], s)]})
  BY <1>1, Circulates
<1>8. R!Write("here", "device", s)
  BY <1>2, <1>4, <1>6, <1>7, AsCopyIs DEF R!Write, Copy
<1> QED
  BY <1>3, <1>8 DEF R!Next

LEMMA ForgetsCopy ==
  ASSUME SoloInv, NEW t \in Thread, NEW ok \in BOOLEAN, DeleteDevice(t, ok), ~spoiled',
         stored # Absent
  PROVE  R!Next
<1> USE DEF SoloInv
<1>1. /\ ok /\ ~spoiled /\ UNCHANGED <<mine, theirs, world>>
      /\ job[t].call = "deleteDevice" /\ stored' = Absent
  BY DEF DeleteDevice, Returns
<1>2. ~mine /\ stored \in Data
  BY <1>1 DEF Inv, TypeInv, Fits
<1>3. Copy["here"]["device"] = AsCopy(stored)
  BY DEF Copy
<1>4. Copy' = [Copy EXCEPT !["here"]["device"] = Absent]
  BY <1>1, CopyHere DEF AsCopy
<1>5. R!Circulate({})
  BY <1>1, Circulates
<1>6. R!Forget("here", "device")
  BY <1>2, <1>3, <1>4, <1>5, AsCopyIs DEF R!Forget, Copy
<1> QED
  BY <1>6 DEF R!Next

LEMMA OwnerWritesToo == ASSUME Inv, OwnerWrites PROVE R!Next
<1>1. ~mine /\ UNCHANGED <<mine, stored, world>>
  BY DEF OwnerWrites
<1>2. Copy["there"]["device"] = AsCopy(theirs)
  BY DEF Copy
<1>3. Copy' = [Copy EXCEPT !["there"]["device"] = AsCopy(theirs')]
  BY <1>1, CopyThere DEF AsCopy
<1>4. PICK s \in State :
        \/ theirs = Absent /\ theirs' = [version |-> 0, state |-> s]
        \/ theirs # Absent /\ theirs' = [version |-> theirs.version + 1, state |-> s]
  BY DEF OwnerWrites
<1>5. theirs' \in Data /\ theirs' # Absent
  BY <1>4, StoreAssumption DEF Inv, TypeInv, Data
<1>6. CASE theirs = Absent
  <2>1. stored = Absent
    BY <1>1, <1>6 DEF Inv, Theirs, Known
  <2>2. \A m \in {"here", "there"} : Copy[m]["device"] = Absent
    BY <1>6, <2>1 DEF Copy, AsCopy
  <2>3. AsCopy(theirs') = [owner |-> "there", kind |-> "any", state |-> s, version |-> 0]
    BY <1>1, <1>4, <1>5, <1>6 DEF AsCopy
  <2>4. R!Circulate({})
    BY <1>1, Circulates
  <2>5. R!Create("there", "device", "any", s)
    BY <1>3, <2>2, <2>3, <2>4 DEF R!Create, Copy
  <2> QED
    BY <2>5 DEF R!Next
<1>7. CASE theirs # Absent
  <2>1. theirs \in Data
    BY <1>7 DEF Inv, TypeInv
  <2>2. AsCopy(theirs') = R!Written(Copy["there"]["device"], s)
    BY <1>1, <1>2, <1>4, <1>5, <1>7, <2>1, AsCopyIs DEF R!Written, AsCopy, Copy
  <2>3. R!Circulate({[device |-> "device", data |-> R!Written(Copy["there"]["device"], s)]})
    BY <1>1, Circulates
  <2>4. R!Write("there", "device", s)
    BY <1>1, <1>2, <1>3, <2>1, <2>2, <2>3, AsCopyIs DEF R!Write, Copy
  <2> QED
    BY <2>4 DEF R!Next
<1> QED
  BY <1>6, <1>7

LEMMA StepsAsRegister ==
  ASSUME SoloInv, Next, ~spoiled'
  PROVE  R!Next \/ UNCHANGED R!vars
<1>1. UNCHANGED <<mine, stored, theirs, world>> => UNCHANGED R!vars
  BY DEF R!vars, AsCopy
<1>2. CASE \E t \in Thread : Call(t)
  <2>1. PICK t \in Thread, ok \in BOOLEAN :
          \/ CheckIfOwner(t, ok) \/ CheckVersion(t, ok) \/ SaveCandidate(t, ok)
          \/ GetDevice(t, ok) \/ SaveData(t, ok) \/ GetAndAnnounce(t, ok)
          \/ GetDeviceIds(t, ok) \/ DeleteDevice(t, ok) \/ Look(t, ok)
    BY <1>2 DEF Call
  <2>2. CASE GetAndAnnounce(t, ok)
    <3>1. UNCHANGED <<mine, stored, theirs>>
      BY <2>2 DEF GetAndAnnounce, Returns
    <3>2. world' \subseteq world \cup ({stored, theirs} \cap Data)
      BY <2>2 DEF GetAndAnnounce, SoloInv, Inv, TypeInv
    <3> QED
      BY <3>1, <3>2, TellsOnly DEF SoloInv
  <2>3. CASE DeleteDevice(t, ok)
    <3>1. stored = Absent => UNCHANGED <<mine, stored, theirs, world>>
      BY <2>3 DEF DeleteDevice, Returns
    <3> QED
      BY <1>1, <2>3, <3>1, ForgetsCopy
  <2>4. CASE CheckIfOwner(t, ok) \/ CheckVersion(t, ok) \/ GetDevice(t, ok)
             \/ GetDeviceIds(t, ok) \/ Look(t, ok)
    BY <1>1, <2>4 DEF CheckIfOwner, CheckVersion, GetDevice, GetDeviceIds, Look, Returns, Quiet
  <2> QED
    BY <2>1, <2>2, <2>3, <2>4, LearnsCandidate, WritesPatch
<1>3. CASE OwnerAnnounces
  <2>1. theirs \in Data
    BY <1>3 DEF OwnerAnnounces, SoloInv, Inv, TypeInv
  <2> QED
    BY <1>3, <2>1, TellsOnly DEF OwnerAnnounces, SoloInv
<1>4. CASE OwnerWrites
  BY <1>4, OwnerWritesToo DEF SoloInv
<1>5. CASE UNCHANGED <<mine, stored, theirs, world>>
  BY <1>1, <1>5
<1> QED
  BY <1>2, <1>3, <1>4, <1>5 DEF Next, Step, Open, Receive, Ask, Start, Restart

\* With one reader and one patch at a time, as long as no two database calls
\* meet, a host whose use cases interleave call by call takes the steps of the
\* distributed store and no others, restarts in the middle of them included.
THEOREM RegisterWhileNotBusy == ASSUME Alone PROVE Spec => RegisterUnlessBusy
<1>1. SoloInv /\ [Next]_vars => SoloInv'
  BY NextSolo
<1>2. SoloInv /\ [Next]_vars => [~spoiled' => R!Next \/ UNCHANGED R!vars]_vars
  BY StepsAsRegister
<1> QED
  BY <1>1, <1>2, InitSolo, PTL DEF Spec, RegisterUnlessBusy

=============================================================================
