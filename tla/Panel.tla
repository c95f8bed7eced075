-------------------------------- MODULE Panel --------------------------------
(***************************************************************************)
(* The panel's core: HTTP requests that edit the xray config, the store of *)
(* disabled clients, and xray itself.                                      *)
(*                                                                         *)
(*   internal/http/mutate.go    mutateConfig: Lock ... InitRestart         *)
(*   internal/http/clients.go   create, patch, delete, disable, enable     *)
(*   internal/http/server_admin.go  PATCH reality                          *)
(*   internal/http/service.go   start, stop, restart: not under writeMu    *)
(*   internal/store/disabled.go Add and Remove: read, then write, unlocked *)
(*   internal/service/service.go  Validate, Restart, initAction            *)
(*                                                                         *)
(* net/http serves each request on a goroutine of its own; a request here  *)
(* is one goroutine, and pc[r] the step it is about to take.  A step is    *)
(* one access to something shared: the lock, the config file, its .bak,    *)
(* the store's file, xray.  What a goroutine does between two of them is   *)
(* local and part of the step.                                             *)
(***************************************************************************)
EXTENDS XrayConfig, FiniteSets

CONSTANTS
  Req,          \* requests, each served once
  MaxInFlight,  \* bound: requests served at the same time
  Ops,          \* the operations the requests ask for
  Faults,       \* the failures that may happen
  InitFile,     \* the config file at the start
  InitStore     \* the disabled store at the start

ClientOps == {"patch", "delete", "disable", "enable"}

ServiceOps == {"start", "stop", "restart"}

StoreOps == {"delete", "disable", "enable"}    \* these use the disabled store

AllOps == {"create", "reality"} \cup ClientOps \cup ServiceOps

\* "io": a file cannot be read or written.  "cancel": the request's context
\* ends (20 s deadline, also spent waiting for writeMu, or the browser leaves)
\* so that the next shell-out fails.  "init": the init script fails.
\* "crash": the panel process dies and procd starts it again.
AllFaults == {"io", "cancel", "init", "crash"}

ASSUME PanelAssumption ==
  /\ None \notin Req \cup Client \cup Config
  /\ MaxInFlight \in Nat
  /\ Ops \subseteq AllOps
  /\ Faults \subseteq AllFaults
  /\ InitFile \in Config /\ Accepted(InitFile)
  /\ InitStore \in Seq(Client)
  /\ Unique(InitFile.clients \o InitStore)

Request == EditRequest \cup [op : ServiceOps]

NoRequest == [op |-> "none"]

VARIABLES
  file,     \* /etc/xray/config.json
  bak,      \* config.json.bak; None when there is none or it is cut short
  store,    \* the disabled store's file
  xray,     \* the config the running xray has loaded; None when it is down
  writeMu,  \* the request that holds s.writeMu, or None
  pc,       \* the step each request takes next
  arg,      \* what each request asks for
  snap,     \* the edited config a request is about to write
  held,     \* the client a disable or an enable is moving
  seen,     \* what a request last read from the disabled store
  answer,   \* the outcome each request answers
  born,     \* history: the UUIDs that were ever in the config or the store
  raced     \* history: two requests that use the store were served at once

files  == <<file, bak, store, xray>>
locals == <<pc, snap, held, seen, answer>>
vars   == <<file, bak, store, xray, writeMu, pc, arg, snap, held, seen, answer, born, raced>>

Steps == {"new", "lock", "read", "backup", "rename", "test", "restart",
          "removeRead", "removeWrite", "addRead", "addWrite",
          "svcTest", "svcAction", "done"}

Critical == {"read", "backup", "rename", "test", "restart"}  \* writeMu is held

Answers == {"none", "ok", "notFound", "error", "cut"}

\* What xray runs after its init script (re)started it: the file, if it
\* accepts it (external).
Loaded(f) == IF Accepted(f) THEN f ELSE None

InFlight == {r \in Req : pc[r] \notin {"new", "done"}}

TypeOK ==
  /\ file \in Config
  /\ bak \in Config \cup {None}
  /\ store \in Seq(Client)
  /\ xray \in Config \cup {None}
  /\ writeMu \in Req \cup {None}
  /\ pc \in [Req -> Steps]
  /\ arg \in [Req -> Request \cup {NoRequest}]
  /\ snap \in [Req -> Config \cup {None}]
  /\ held \in [Req -> Client \cup {None}]
  /\ seen \in [Req -> Seq(Client)]
  /\ answer \in [Req -> Answers]
  /\ born \subseteq Id
  /\ raced \in BOOLEAN

Init ==
  /\ file = InitFile
  /\ bak = None
  /\ store = InitStore
  /\ xray = InitFile
  /\ writeMu = None
  /\ pc = [r \in Req |-> "new"]
  /\ arg = [r \in Req |-> NoRequest]
  /\ snap = [r \in Req |-> None]
  /\ held = [r \in Req |-> None]
  /\ seen = [r \in Req |-> <<>>]
  /\ answer = [r \in Req |-> "none"]
  /\ born = Ids(InitFile.clients) \cup Ids(InitStore)
  /\ raced = FALSE

-----------------------------------------------------------------------------
(* How a request moves on.                                                 *)

\* The request goes to step s and keeps what it carries.
Goto(r, s) == pc' = [pc EXCEPT ![r] = s]

\* The request is answered and its goroutine ends.
Finish(r, outcome) ==
  /\ Goto(r, "done")
  /\ answer' = [answer EXCEPT ![r] = outcome]
  /\ snap' = [snap EXCEPT ![r] = None]
  /\ held' = [held EXCEPT ![r] = None]
  /\ seen' = [seen EXCEPT ![r] = <<>>]

\* Mutant: a delete is over once the live config is rewritten.
AfterMutateForgets(r, outcome) ==
  IF arg[r].op = "disable" /\ outcome = "ok"
  THEN Goto(r, "addRead") /\ snap' = [snap EXCEPT ![r] = None] /\ UNCHANGED <<held, seen, answer>>
  ELSE Finish(r, outcome)

\* What the handler does when mutateConfig returns: disable stashes the client
\* it removed, delete goes on to the disabled store, an enable that failed
\* puts its client back.
AfterMutate(r, outcome) ==
  LET next == CASE arg[r].op = "disable" /\ outcome = "ok" -> "addRead"
                [] arg[r].op = "delete"  /\ outcome = "ok" -> "removeRead"
                [] arg[r].op = "enable"  /\ outcome # "ok" -> "addRead"
                [] OTHER -> "done"
  IN  IF next = "done"
      THEN Finish(r, outcome)
      ELSE /\ Goto(r, next)
           /\ snap' = [snap EXCEPT ![r] = None]
           /\ UNCHANGED <<held, seen, answer>>

\* Mutant: the lock is released on success only.
ReturnLocked(r, outcome) ==
  /\ writeMu' = IF outcome = "ok" THEN None ELSE writeMu
  /\ AfterMutate(r, outcome)

\* mutateConfig returns: the deferred unlock, then the handler goes on.
Return(r, outcome) ==
  /\ writeMu' = None
  /\ AfterMutate(r, outcome)

-----------------------------------------------------------------------------
(* Arrival.                                                                *)

\* A UUID nobody has seen: it was in no file, and no other create drew it.
Fresh(id) ==
  /\ id \notin born
  /\ \A q \in Req : arg[q].op = "create" => arg[q].id # id

FirstStep(op) ==
  CASE op = "enable" -> "removeRead"
    [] op = "restart" -> "svcTest"
    [] op \in {"start", "stop"} -> "svcAction"
    [] OTHER -> "lock"

\* Another request that uses the disabled store is being served.
Races(op) == op \in StoreOps /\ \E q \in InFlight : arg[q].op \in StoreOps

\* A request comes in.  The UUID a create will draw is drawn here; the others
\* name a client that exists or once did: nobody guesses a UUID.
Arrive(r) ==
  /\ pc[r] = "new"
  /\ Cardinality(InFlight) < MaxInFlight
  /\ \E a \in Request :
       /\ a.op \in Ops
       /\ a.op = "create" => Fresh(a.id)
       /\ a.op \in ClientOps => a.id \in born
       /\ arg' = [arg EXCEPT ![r] = a]
       /\ Goto(r, FirstStep(a.op))
       /\ raced' = (raced \/ Races(a.op))
  /\ UNCHANGED <<files, writeMu, snap, held, seen, answer, born>>

-----------------------------------------------------------------------------
(* mutateConfig.                                                           *)

\* Mutant: mutateConfig without the mutex.
LockFree(r) ==
  /\ pc[r] = "lock"
  /\ writeMu' = r
  /\ Goto(r, "read")
  /\ UNCHANGED <<files, arg, snap, held, seen, answer, born, raced>>

Lock(r) ==
  /\ pc[r] = "lock"
  /\ writeMu = None
  /\ writeMu' = r
  /\ Goto(r, "read")
  /\ UNCHANGED <<files, arg, snap, held, seen, answer, born, raced>>

\* xray.Read and the closure.  A disable keeps the client it removes.
ReadEdit(r) ==
  /\ pc[r] = "read"
  /\ \E f \in Edit(arg[r], held[r], file) :
       /\ snap' = [snap EXCEPT ![r] = f]
       /\ Goto(r, "backup")
  /\ IF arg[r].op = "disable"
     THEN \E i \in First(file.clients, arg[r].id) :
            held' = [held EXCEPT ![r] = file.clients[i]]
     ELSE UNCHANGED held
  /\ UNCHANGED <<files, writeMu, arg, seen, answer, born, raced>>

\* The closure refuses the edit: nothing is written.
EditRefused(r) ==
  /\ pc[r] = "read"
  /\ Edit(arg[r], held[r], file) = {}
  /\ LET absent == /\ arg[r].op \in {"patch", "disable"}
                   /\ arg[r].id \notin Ids(file.clients)
     IN  Return(r, IF absent THEN "notFound" ELSE "error")
  /\ UNCHANGED <<files, arg, born, raced>>

\* Mutant: .bak receives the new config instead of the one it replaces.
BackupOfNew(r) ==
  /\ pc[r] = "backup"
  /\ bak' = snap[r]
  /\ Goto(r, "rename")
  /\ UNCHANGED <<file, store, xray, writeMu, arg, snap, held, seen, answer, born, raced>>

\* backupIfExists.
Backup(r) ==
  /\ pc[r] = "backup"
  /\ bak' = file
  /\ Goto(r, "rename")
  /\ UNCHANGED <<file, store, xray, writeMu, arg, snap, held, seen, answer, born, raced>>

\* The temporary file is written, synced and renamed over the config.
Commit(r) ==
  /\ pc[r] = "rename"
  /\ file' = snap[r]
  /\ born' = born \cup Ids(file'.clients)
  /\ Goto(r, "test")
  /\ UNCHANGED <<bak, store, xray, writeMu, arg, snap, held, seen, answer, raced>>

\* A read or a write fails before the rename.  os.WriteFile truncates .bak
\* before it fills it.
ConfigIOFails(r) ==
  /\ "io" \in Faults
  /\ pc[r] \in {"read", "backup", "rename"}
  /\ bak' \in IF pc[r] = "backup" THEN {bak, None} ELSE {bak}
  /\ Return(r, "error")
  /\ UNCHANGED <<file, store, xray, arg, born, raced>>

\* Mutant: the verdict of xray -test is ignored.
TestPassesAlways(r) ==
  /\ pc[r] = "test"
  /\ Goto(r, "restart")
  /\ UNCHANGED <<files, writeMu, arg, snap, held, seen, answer, born, raced>>

\* Restart's Validate accepts the file on disk.
TestPasses(r) ==
  /\ pc[r] = "test"
  /\ Accepted(file)
  /\ Goto(r, "restart")
  /\ UNCHANGED <<files, writeMu, arg, snap, held, seen, answer, born, raced>>

\* xray -test rejects the file, or is not run to its end: mutateConfig
\* returns and the new config stays on disk.
TestFails(r) ==
  /\ pc[r] = "test"
  /\ ~Accepted(file) \/ "cancel" \in Faults
  /\ Return(r, "error")
  /\ UNCHANGED <<files, arg, born, raced>>

InitRestart(r) ==
  /\ pc[r] = "restart"
  /\ xray' = Loaded(file)
  /\ Return(r, "ok")
  /\ UNCHANGED <<file, bak, store, arg, born, raced>>

\* Mutant: the error of the init script is dropped.
InitRestartSilent(r) ==
  /\ pc[r] = "restart"
  /\ Faults \cap {"init", "cancel"} # {}
  /\ xray' \in {xray, None, Loaded(file)}
  /\ Return(r, "ok")
  /\ UNCHANGED <<file, bak, store, arg, born, raced>>

\* The init script fails or is killed half-way.
InitRestartFails(r) ==
  /\ pc[r] = "restart"
  /\ Faults \cap {"init", "cancel"} # {}
  /\ xray' \in {xray, None, Loaded(file)}
  /\ Return(r, "error")
  /\ UNCHANGED <<file, bak, store, arg, born, raced>>

-----------------------------------------------------------------------------
(* The disabled store.  Neither Add nor Remove holds a lock.               *)

\* Mutant: the client comes back without its name.
RemovedNameless(clients, i) == [clients[i] EXCEPT !.name = None]

\* The client Remove returns, and the list it writes.
Removed(clients, i) == clients[i]

Rest(clients, i) == RemoveAt(clients, i)

\* Mutant: Add writes the new client only.
AddedAlone(clients, c) == <<c>>

\* The list Add writes.
Added(clients, c) == Append(clients, c)

\* Remove reads the store and looks for the client.
RemoveRead(r) ==
  /\ pc[r] = "removeRead"
  /\ \/ /\ arg[r].id \in Ids(store)
        /\ seen' = [seen EXCEPT ![r] = store]
        /\ Goto(r, "removeWrite")
        /\ UNCHANGED <<snap, held, answer>>
     \/ /\ arg[r].id \notin Ids(store)
        /\ Finish(r, IF arg[r].op = "enable" THEN "notFound" ELSE "ok")
  /\ UNCHANGED <<files, writeMu, arg, born, raced>>

\* Remove writes the list without the client.  A delete is then over; an
\* enable goes on to put the client into the config.
RemoveWrite(r) ==
  /\ pc[r] = "removeWrite"
  /\ \E i \in First(seen[r], arg[r].id) :
       /\ store' = Rest(seen[r], i)
       /\ IF arg[r].op = "enable"
          THEN /\ held' = [held EXCEPT ![r] = Removed(seen[r], i)]
               /\ seen' = [seen EXCEPT ![r] = <<>>]
               /\ Goto(r, "lock")
               /\ UNCHANGED <<snap, answer>>
          ELSE Finish(r, "ok")
  /\ UNCHANGED <<file, bak, xray, writeMu, arg, born, raced>>

\* Add reads the store and refuses a client that is there already.  An enable
\* that rolls back ignores what Add says: its answer is an error in any case.
AddRead(r) ==
  /\ pc[r] = "addRead"
  /\ \/ /\ held[r].id \notin Ids(store)
        /\ seen' = [seen EXCEPT ![r] = store]
        /\ Goto(r, "addWrite")
        /\ UNCHANGED <<snap, held, answer>>
     \/ /\ held[r].id \in Ids(store)
        /\ Finish(r, "error")
  /\ UNCHANGED <<files, writeMu, arg, born, raced>>

AddWrite(r) ==
  /\ pc[r] = "addWrite"
  /\ store' = Added(seen[r], held[r])
  /\ Finish(r, IF arg[r].op = "enable" THEN "error" ELSE "ok")
  /\ UNCHANGED <<file, bak, xray, writeMu, arg, born, raced>>

\* The store cannot be read or written; its file stays as it was.
StoreIOFails(r) ==
  /\ "io" \in Faults
  /\ pc[r] \in {"removeRead", "removeWrite", "addRead", "addWrite"}
  /\ Finish(r, "error")
  /\ UNCHANGED <<files, writeMu, arg, born, raced>>

-----------------------------------------------------------------------------
(* Service control: runServiceAction, outside writeMu.                     *)

ServiceTest(r) ==
  /\ pc[r] = "svcTest"
  /\ \/ /\ Accepted(file)
        /\ Goto(r, "svcAction")
        /\ UNCHANGED <<snap, held, seen, answer>>
     \/ /\ ~Accepted(file) \/ "cancel" \in Faults
        /\ Finish(r, "error")
  /\ UNCHANGED <<files, writeMu, arg, born, raced>>

\* start leaves a running xray alone.
ServiceAction(r) ==
  /\ pc[r] = "svcAction"
  /\ xray' = CASE arg[r].op = "stop"    -> None
               [] arg[r].op = "start"   -> IF xray = None THEN Loaded(file) ELSE xray
               [] arg[r].op = "restart" -> Loaded(file)
  /\ Finish(r, "ok")
  /\ UNCHANGED <<file, bak, store, writeMu, arg, born, raced>>

ServiceActionFails(r) ==
  /\ Faults \cap {"init", "cancel"} # {}
  /\ pc[r] = "svcAction"
  /\ xray' \in {xray, None, Loaded(file)}
  /\ Finish(r, "error")
  /\ UNCHANGED <<file, bak, store, writeMu, arg, born, raced>>

-----------------------------------------------------------------------------
(* The panel process dies with its requests; procd starts it again.  The   *)
(* files stay, the mutex is new, an init script that was running may go on *)
(* or die.                                                                 *)

Crash ==
  /\ "crash" \in Faults
  /\ InFlight # {}
  /\ bak' \in IF \E r \in Req : pc[r] = "backup" THEN {bak, file, None} ELSE {bak}
  /\ xray' \in IF \E r \in Req : pc[r] \in {"restart", "svcAction"}
               THEN {xray, None, Loaded(file)} ELSE {xray}
  /\ writeMu' = None
  /\ pc' = [r \in Req |-> IF r \in InFlight THEN "done" ELSE pc[r]]
  /\ answer' = [r \in Req |-> IF r \in InFlight THEN "cut" ELSE answer[r]]
  /\ snap' = [r \in Req |-> None]
  /\ held' = [r \in Req |-> None]
  /\ seen' = [r \in Req |-> <<>>]
  /\ UNCHANGED <<file, store, arg, born, raced>>

Step(r) ==
  \/ Lock(r) \/ ReadEdit(r) \/ EditRefused(r) \/ Backup(r) \/ Commit(r)
  \/ ConfigIOFails(r) \/ TestPasses(r) \/ TestFails(r)
  \/ InitRestart(r) \/ InitRestartFails(r)
  \/ RemoveRead(r) \/ RemoveWrite(r) \/ AddRead(r) \/ AddWrite(r) \/ StoreIOFails(r)
  \/ ServiceTest(r) \/ ServiceAction(r) \/ ServiceActionFails(r)

\* Every request was answered.
Terminated == (\A r \in Req : pc[r] = "done") /\ UNCHANGED vars

Next ==
  \/ \E r \in Req : Arrive(r) \/ Step(r)
  \/ Crash
  \/ Terminated

Spec == Init /\ [][Next]_vars

\* A goroutine that can run does: the Go scheduler, and shell-outs and file
\* operations that end.
FairSpec == Spec /\ \A r \in Req : WF_vars(Step(r))

-----------------------------------------------------------------------------
(* Properties.                                                             *)

\* No UUID is listed twice in the config or in the disabled store, whatever
\* runs at the same time and whatever fails: enable looks for the UUID before
\* it appends, Add before it adds, and nobody writes a stale config.
IdsUnique == Unique(file.clients) /\ Unique(store)

\* A bad rewrite is recoverable: whenever the config is replaced, .bak
\* holds exactly what was replaced (xray.Write, config.go:311-313), although
\* the backup and the rename are two steps.
BackupIsPrevious == [][file' # file => bak' = file]_vars

\* The config a mutation makes xray load is the one its xray -test accepted,
\* although test and restart are two shell-outs (service.go:92-101).
RestartOnlyTested == \A r \in Req : pc[r] = "restart" => Accepted(file)

\* The running xray differs from the file on disk only while a mutation is
\* between its write and the end of its restart, or after one of them was
\* answered with an error or cut off (mutate.go:10-26).
DivergenceIsReported ==
  xray \notin {None, file} =>
    \E r \in Req :
      /\ arg[r].op \notin ServiceOps
      /\ \/ pc[r] \in {"test", "restart", "addRead", "addWrite"}
         \/ answer[r] \in {"error", "cut"}

\* Names are kept apart by create and patch; only a client that came back
\* from the disabled store can share a live client's name (the closure of
\* enable checks the UUID alone, clients.go:212-217).
NameClashOnlyByEnable ==
  \A i, j \in DOMAIN file.clients :
    i # j /\ file.clients[i].name = file.clients[j].name =>
      \E r \in Req : /\ arg[r].op = "enable"
                     /\ arg[r].id \in {file.clients[i].id, file.clients[j].id}

\* mutateConfig makes every edit of the config atomic (mutate.go:10-14).
Registry == INSTANCE ConfigRegistry WITH file <- file, InitFile <- InitFile
RefinesRegistry == Registry!Spec

Live(id)   == id \in Ids(file.clients)
Stored(id) == id \in Ids(store)
InHand(id) == \E r \in Req : held[r] # None /\ held[r].id = id
DeleteAsked(id) == \E r \in Req : arg[r].op = "delete" /\ arg[r].id = id

\* The key of a client that nobody asked to delete is in the config, in the
\* disabled store or in the hands of a request.
Lost(id) == ~(Live(id) \/ Stored(id) \/ InHand(id) \/ DeleteAsked(id))

\* "enable/disable clients (without losing the key when disabled)"
\* (HANDOFF.md): no client's key is ever lost.
NoKeyLost == \A id \in born : ~Lost(id)

\* A client is either in the config or in the disabled store, never in both,
\* once the requests about it are over.
LiveXorStored ==
  \A id \in born :
    Live(id) /\ Stored(id) =>
      \E r \in InFlight : arg[r].op \in ClientOps /\ arg[r].id = id

\* While requests that use the disabled store come one at a time, a client is
\* in exactly one of its two places, with these exceptions only: it is in none
\* after a disable or an enable of it that was answered with an error or cut
\* off, so nobody is told that all went well; and in both after an enable of it
\* failed, which puts back what the config already holds (clients.go:162-229).
\* Edits of the config and actions on the service may come in between.
KeyHasOnePlace ==
  ~raced =>
    \A id \in born :
      /\ Lost(id) =>
           \E r \in Req : /\ arg[r].op \in {"disable", "enable"}
                          /\ arg[r].id = id
                          /\ answer[r] \in {"error", "cut"}
      /\ Live(id) /\ Stored(id) =>
           \E r \in Req : arg[r].op = "enable" /\ arg[r].id = id /\ answer[r] = "error"

\* "Permanent delete removes from live config AND from the disabled store"
\* (clients.go:138-140): once a delete is answered with success, the client
\* is in neither and stays so, while requests that use the disabled store come
\* one at a time.
DeletedStaysDeleted ==
  \A r \in Req :
    ~raced /\ arg[r].op = "delete" /\ answer[r] = "ok" =>
      ~Live(arg[r].id) /\ ~Stored(arg[r].id)

\* "the whole point is to never kill a working VPN with a broken config"
\* (internal/service/service.go:92-95): a restart asked for by the operator
\* loads a config that was accepted.
ServiceRestartOnlyTested ==
  \A r \in Req : pc[r] = "svcAction" /\ arg[r].op = "restart" => Accepted(file)

\* Every request that was taken up is answered: nobody waits for writeMu for
\* ever, whatever fails.
EveryRequestEnds ==
  \A r \in Req : pc[r] # "new" ~> pc[r] = "done"

=============================================================================
