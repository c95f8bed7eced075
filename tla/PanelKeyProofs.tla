--------------------------- MODULE PanelKeyProofs ---------------------------
(***************************************************************************)
(* Theorems about Panel that relate its two files, the running xray and    *)
(* what requests were answered: where a client's key is, whether a delete  *)
(* is final, who knows when xray runs something else than the file, and    *)
(* who brings two clients of one name together.                            *)
(***************************************************************************)
EXTENDS PanelProofs

\* What a request asks for stays, is about a client that exists or existed,
\* and names the client it has in hand.
Asked ==
  \A r \in Req :
    /\ pc[r] = "new" => arg[r].op = "none"
    /\ answer[r] # "none" => pc[r] = "done"
    /\ arg[r].op \in ClientOps => arg[r].id \in born
    /\ held[r] # None => /\ arg[r].op \in {"disable", "enable"}
                         /\ held[r].id = arg[r].id
                         /\ pc[r] \notin {"new", "done"}
    /\ arg[r].op = "disable" /\ pc[r] \in {"lock", "read"} => held[r] = None
    /\ pc[r] \in {"removeRead", "removeWrite"} => held[r] = None

\* A mutation between its write and its answer, or one that failed.
Reports(r) ==
  /\ arg[r].op \notin ServiceOps
  /\ \/ pc[r] \in {"test", "restart"}
     \/ arg[r].op = "enable" /\ pc[r] \in {"addRead", "addWrite"}
     \/ answer[r] \in {"error", "cut"}

Reported == xray \notin {None, file} => \E r \in Req : Reports(r)

\* One request at a time uses the store, and what it has read is the store.
OneStoreUser ==
  /\ \A q, r \in InFlight : arg[q].op \in StoreOps /\ arg[r].op \in StoreOps => q = r
  /\ \A r \in Req : pc[r] \in {"removeWrite", "addWrite"} => seen[r] = store

\* Where the client is that a request is about.
Placed ==
  \A r \in Req :
    /\ arg[r].op = "enable" /\ pc[r] \in Critical \cup {"lock"} => ~Stored(arg[r].id)
    /\ arg[r].op = "enable" /\ pc[r] \in {"test", "restart"} => Live(arg[r].id)
    /\ arg[r].op = "disable" /\ pc[r] \in {"test", "restart", "addRead", "addWrite"}
         => ~Live(arg[r].id)
    /\ arg[r].op = "delete" /\ pc[r] \in {"test", "restart", "removeRead", "removeWrite"}
         => ~Live(arg[r].id)
    /\ arg[r].op = "delete" /\ answer[r] = "ok" =>
         ~Live(arg[r].id) /\ ~Stored(arg[r].id) /\ ~InHand(arg[r].id)

\* Somebody was told that a disable or an enable of the client went wrong.
LossTold(id) ==
  \E r \in Req : /\ arg[r].op \in {"disable", "enable"}
                 /\ arg[r].id = id
                 /\ answer[r] \in {"error", "cut"}

FailedEnable(id) ==
  \E r \in Req : arg[r].op = "enable" /\ arg[r].id = id /\ answer[r] = "error"

Kept == \A id \in born : /\ Lost(id) => LossTold(id)
                         /\ Live(id) /\ Stored(id) => FailedEnable(id)

KeyInv == Asked /\ (~raced => OneStoreUser /\ Placed /\ Kept)

-----------------------------------------------------------------------------
(* Lists of clients.                                                       *)

\* Removing the client with a UUID removes exactly that UUID.
LEMMA RemoveFirstIds ==
  ASSUME NEW cs \in Seq(Client), Unique(cs), NEW id, NEW i \in First(cs, id)
  PROVE  Ids(RemoveAt(cs, i)) = Ids(cs) \ {id}
<1> DEFINE rest == RemoveAt(cs, i)
<1>1. /\ i \in DOMAIN cs /\ cs[i].id = id /\ Len(cs) \in Nat
      /\ DOMAIN cs = 1..Len(cs)
  BY FirstInDomain
<1>2. /\ rest \in Seq(Client) /\ Len(rest) = Len(cs) - 1
      /\ \A j \in DOMAIN rest : rest[j] = IF j < i THEN cs[j] ELSE cs[j + 1]
  BY <1>1, RemoveAtElements
<1> HIDE DEF rest
<1>3. DOMAIN rest = 1..(Len(cs) - 1)
  BY <1>1, <1>2
<1>4. ASSUME NEW j \in DOMAIN rest
      PROVE  rest[j].id \in Ids(cs) \ {id}
  <2>1. PICK k \in DOMAIN cs : rest[j] = cs[k] /\ k # i
    BY <1>1, <1>2, <1>3
  <2> QED
    BY <1>1, <2>1 DEF Ids, Unique
<1>5. ASSUME NEW k \in DOMAIN cs, cs[k].id # id
      PROVE  cs[k].id \in Ids(rest)
  <2>1. k < i \/ (k > i /\ k - 1 \in 1..(Len(cs) - 1) /\ ~(k - 1 < i) /\ (k - 1) + 1 = k)
    BY <1>1, <1>5
  <2>2. PICK j \in DOMAIN rest : rest[j] = cs[k]
    <3>1. CASE k < i
      BY <1>1, <1>2, <1>3, <3>1
    <3>2. CASE ~(k < i)
      BY <1>2, <1>3, <2>1, <3>2
    <3> QED
      BY <3>1, <3>2
  <2> QED
    BY <2>2 DEF Ids
<1>6. Ids(cs) \ {id} = Ids(rest)
  BY <1>4, <1>5 DEF Ids
<1> QED
  BY <1>6 DEF rest

\* Which UUIDs an edit adds and removes.
LEMMA EditIds ==
  ASSUME NEW a \in EditRequest, NEW c, a.op = "enable" => c \in Client,
         NEW f \in Config, Unique(f.clients), NEW g \in Edit(a, c, f)
  PROVE  Ids(g.clients) =
           CASE a.op = "create"                  -> Ids(f.clients) \cup {a.id}
             [] a.op = "enable"                  -> Ids(f.clients) \cup {c.id}
             [] a.op \in {"delete", "disable"}   -> Ids(f.clients) \ {a.id}
             [] a.op \in {"patch", "reality"}    -> Ids(f.clients)
<1>0. f.clients \in Seq(Client) /\ f.reality \in {"good", "bad"}
  BY DEF Config
<1>1. CASE a.op = "create"
  <2>1. [id |-> a.id, name |-> a.name] \in Client
    BY <1>1 DEF EditRequest, Client
  <2>2. g = [f EXCEPT !.clients = Append(f.clients, [id |-> a.id, name |-> a.name])]
    BY <1>1 DEF Edit, AddClient
  <2> QED
    BY <1>0, <1>1, <2>1, <2>2, AppendIds DEF Config
<1>2. CASE a.op = "patch"
  <2>1. a.name \in Name
    BY <1>2 DEF EditRequest
  <2>2. PICK i \in First(f.clients, a.id) :
           g = [f EXCEPT !.clients[i] = [id |-> a.id, name |-> a.name]]
    BY <1>2 DEF Edit, Rename
  <2>3. i \in DOMAIN f.clients /\ f.clients[i].id = a.id
    BY FirstInDomain
  <2> DEFINE new == [f.clients EXCEPT ![i] = [id |-> f.clients[i].id, name |-> a.name]]
  <2>4. Ids(new) = Ids(f.clients)
    BY <1>0, <2>1, <2>3, RenameIds
  <2>5. g.clients = new
    BY <2>2, <2>3 DEF Config
  <2> QED
    BY <1>2, <2>4, <2>5
<1>3. ASSUME NEW id, g \in RemoveClient(f, id)
      PROVE  Ids(g.clients) = Ids(f.clients) \ {id}
  <2>1. PICK i \in First(f.clients, id) :
           g = [f EXCEPT !.clients = RemoveAt(f.clients, i)]
    BY <1>3 DEF RemoveClient
  <2>2. g.clients = RemoveAt(f.clients, i)
    BY <2>1 DEF Config
  <2> QED
    BY <1>0, <2>2, RemoveFirstIds
<1>4. CASE a.op = "delete"
  <2>1. g \in RemoveClient(f, a.id) \/ (g = f /\ a.id \notin Ids(f.clients))
    BY <1>4 DEF Edit, DeleteClient
  <2> QED
    BY <1>3, <1>4, <2>1
<1>5. CASE a.op = "disable"
  BY <1>3, <1>5 DEF Edit
<1>6. CASE a.op = "enable"
  <2>1. g.clients = Append(f.clients, c)
    BY <1>6 DEF Edit, RestoreClient, Config
  <2> QED
    BY <1>0, <1>6, <2>1, AppendIds
<1>7. CASE a.op = "reality"
  BY <1>7 DEF Edit, PatchReality, Config
<1> QED
  BY <1>1, <1>2, <1>4, <1>5, <1>6, <1>7 DEF EditRequest

-----------------------------------------------------------------------------
(* What a request asks for.                                                *)

\* Every step keeps what requests ask for.
LEMMA AskedStep ==
  ASSUME IInv, Asked, [Next]_vars
  PROVE  Asked'
<1> USE PanelAssumption
<1>0. TypeOK /\ Carry
  BY DEF IInv
<1>1. ASSUME NEW r \in Req, Arrive(r)
      PROVE  Asked'
  BY <1>0, <1>1 DEF Arrive, FirstStep, Asked, TypeOK, Goto, Request, EditRequest,
     ServiceOps, ClientOps, NoRequest
<1>2. ASSUME NEW r \in Req, Lock(r) \/ Backup(r) \/ TestPasses(r)
      PROVE  Asked'
  BY <1>0, <1>2 DEF Lock, Backup, TestPasses, Asked, TypeOK, Goto, files
<1>3. ASSUME NEW r \in Req, ReadEdit(r)
      PROVE  Asked'
  <2>1. arg[r].op = "disable" =>
          \E i \in First(file.clients, arg[r].id) :
            held' = [held EXCEPT ![r] = file.clients[i]] /\ file.clients[i].id = arg[r].id
    BY <1>3, FirstInDomain DEF ReadEdit
  <2>2. /\ arg[r].op # "disable" => held' = held
        /\ pc' = [pc EXCEPT ![r] = "backup"] /\ pc[r] = "read"
        /\ UNCHANGED <<arg, answer, born>>
    BY <1>3 DEF ReadEdit, Goto
  <2> QED
    BY <1>0, <2>1, <2>2 DEF Asked, TypeOK
<1>4. ASSUME NEW r \in Req, Commit(r)
      PROVE  Asked'
  BY <1>0, <1>4 DEF Commit, Asked, TypeOK, Goto
<1>5. ASSUME NEW r \in Req, NEW outcome, Finish(r, outcome), pc[r] \notin {"new", "done"},
             UNCHANGED <<arg, born>>
      PROVE  Asked'
  BY <1>0, <1>5 DEF Finish, Asked, TypeOK, Goto
<1>6. ASSUME NEW r \in Req, NEW outcome, AfterMutate(r, outcome), pc[r] \in Critical,
             UNCHANGED <<arg, born>>
      PROVE  Asked'
  <2>1. CASE Finish(r, outcome)
    BY <1>5, <1>6, <2>1 DEF Critical
  <2>2. CASE ~Finish(r, outcome)
    <3>1. PICK next \in {"addRead", "removeRead"} :
            /\ pc' = [pc EXCEPT ![r] = next]
            /\ next = "removeRead" => arg[r].op = "delete"
            /\ UNCHANGED <<held, answer>>
      BY <1>6, <2>2 DEF AfterMutate, Goto
    <3> QED
      BY <1>0, <1>6, <3>1 DEF Asked, TypeOK, Critical
  <2> QED
    BY <2>1, <2>2
<1>7. ASSUME NEW r \in Req,
             EditRefused(r) \/ ConfigIOFails(r) \/ TestFails(r)
               \/ InitRestart(r) \/ InitRestartFails(r)
      PROVE  Asked'
  <2>1. PICK outcome : AfterMutate(r, outcome) /\ UNCHANGED <<arg, born>> /\ pc[r] \in Critical
    BY <1>7 DEF EditRefused, ConfigIOFails, TestFails, InitRestart, InitRestartFails,
                Return, Critical
  <2> QED
    BY <1>6, <2>1
<1>8. ASSUME NEW r \in Req, RemoveRead(r) \/ AddRead(r) \/ ServiceTest(r) \/ RemoveWrite(r)
               \/ AddWrite(r) \/ StoreIOFails(r) \/ ServiceAction(r) \/ ServiceActionFails(r)
      PROVE  Asked'
  <2>1. UNCHANGED <<arg, born>> /\ pc[r] \notin {"new", "done"}
    BY <1>8 DEF RemoveRead, AddRead, ServiceTest, RemoveWrite, AddWrite, StoreIOFails,
                ServiceAction, ServiceActionFails
  <2>2. CASE \E outcome : Finish(r, outcome)
    BY <1>5, <2>1, <2>2
  <2>3. CASE ~\E outcome : Finish(r, outcome)
    <3>1. \/ \E s \in {"removeWrite", "addWrite", "svcAction"} :
               /\ pc' = [pc EXCEPT ![r] = s] /\ UNCHANGED <<held, answer>>
               /\ s = "removeWrite" => pc[r] = "removeRead"
          \/ \E i \in First(seen[r], arg[r].id) :
               /\ pc' = [pc EXCEPT ![r] = "lock"] /\ UNCHANGED answer
               /\ arg[r].op = "enable"
               /\ held' = [held EXCEPT ![r] = seen[r][i]] /\ seen[r][i].id = arg[r].id
      BY <1>8, <2>3, FirstInDomain DEF RemoveRead, AddRead, ServiceTest, RemoveWrite, AddWrite,
         StoreIOFails, ServiceAction, ServiceActionFails, Goto, Removed
    <3> QED
      BY <1>0, <2>1, <3>1 DEF Asked, TypeOK
  <2> QED
    BY <2>2, <2>3
<1>9. CASE Crash
  BY <1>0, <1>9 DEF Crash, InFlight, Asked, TypeOK
<1>10. CASE UNCHANGED vars
  BY <1>10 DEF vars, Asked
<1> QED
  BY <1>1, <1>2, <1>3, <1>4, <1>7, <1>8, <1>9, <1>10 DEF Next, Step, Terminated

-----------------------------------------------------------------------------
(* Where a client is.                                                      *)

\* Whoever holds a client is served, and uses the store.
LEMMA HolderServed ==
  ASSUME TypeOK, Asked, NEW r \in Req, held[r] # None
  PROVE  /\ r \in InFlight /\ arg[r].op \in StoreOps
         /\ InHand(arg[r].id)
BY DEF Asked, InFlight, StoreOps, InHand

\* While one request at a time uses the store, a client in hand is its own.
LEMMA OnlyHolder ==
  ASSUME TypeOK, Asked, OneStoreUser, NEW r \in InFlight, arg[r].op \in StoreOps,
         NEW q \in Req, held[q] # None
  PROVE  q = r
BY HolderServed DEF OneStoreUser, InFlight

\* A step that only moves r from one step of mutateConfig to the next.
LEMMA InnerKeeps ==
  ASSUME IInv, Asked, OneStoreUser, Placed, Kept, NEW r \in Req, ~raced',
         Lock(r) \/ Backup(r) \/ TestPasses(r)
  PROVE  OneStoreUser' /\ Placed' /\ Kept'
<1>0. TypeOK
  BY DEF IInv
<1>1. /\ UNCHANGED <<file, store, arg, held, seen, answer, born>>
      /\ \/ pc[r] = "lock" /\ pc' = [pc EXCEPT ![r] = "read"]
         \/ pc[r] = "backup" /\ pc' = [pc EXCEPT ![r] = "rename"]
         \/ pc[r] = "test" /\ pc' = [pc EXCEPT ![r] = "restart"]
  BY DEF Lock, Backup, TestPasses, files, Goto
<1>2. OneStoreUser'
  BY <1>0, <1>1 DEF OneStoreUser, InFlight, TypeOK
<1>3. Placed'
  BY <1>0, <1>1 DEF Placed, TypeOK, Live, Stored, InHand, Critical
<1>4. Kept'
  BY <1>1 DEF Kept, Lost, Live, Stored, InHand, DeleteAsked, LossTold, FailedEnable
<1> QED
  BY <1>2, <1>3, <1>4

\* Taking the client in hand: it is where the request looked.
LEMMA ReadEditKeeps ==
  ASSUME IInv, Asked, OneStoreUser, Placed, Kept, NEW r \in Req, ~raced',
         ReadEdit(r)
  PROVE  OneStoreUser' /\ Placed' /\ Kept'
<1>0. TypeOK
  BY DEF IInv
<1>1. /\ UNCHANGED <<file, store, arg, seen, answer, born>>
      /\ pc[r] = "read" /\ pc' = [pc EXCEPT ![r] = "backup"]
      /\ \/ held' = held
         \/ /\ \E c : held' = [held EXCEPT ![r] = c] /\ c.id = arg[r].id /\ c # None
            /\ Live(arg[r].id)
            /\ arg[r].op = "disable"
  <2>1. ASSUME NEW i \in First(file.clients, arg[r].id)
        PROVE  /\ file.clients[i].id = arg[r].id /\ file.clients[i] # None
               /\ Live(arg[r].id)
    <3>1. i \in DOMAIN file.clients /\ file.clients[i].id = arg[r].id
      BY FirstInDomain
    <3>2. file.clients \in Seq(Client)
      BY <1>0 DEF TypeOK, Config
    <3>3. file.clients[i] \in Client
      BY <3>1, <3>2
    <3> QED
      BY <3>1, <3>3, PanelAssumption DEF Live, Ids
  <2> QED
    BY <2>1 DEF ReadEdit, files, Goto
<1>2. OneStoreUser'
  BY <1>0, <1>1 DEF OneStoreUser, InFlight, TypeOK
<1>3. /\ \A id : InHand(id) => InHand(id)'
      /\ \A id : InHand(id)' => InHand(id) \/ Live(id)
  <2>1. arg[r].op = "disable" => held[r] = None
    BY <1>1 DEF Asked
  <2> QED
    BY <1>0, <1>1, <2>1 DEF InHand, TypeOK
<1>4. Placed'
  BY <1>0, <1>1, <1>3 DEF Placed, TypeOK, Live, Stored, Critical
<1>5. Kept'
  BY <1>1, <1>3 DEF Kept, Lost, Live, Stored, DeleteAsked, LossTold, FailedEnable
<1> QED
  BY <1>2, <1>4, <1>5

\* A new request finds the files as the others left them.
LEMMA ArriveKeeps ==
  ASSUME IInv, Asked, ~raced => OneStoreUser /\ Placed /\ Kept, NEW r \in Req, ~raced',
         Arrive(r)
  PROVE  OneStoreUser' /\ Placed' /\ Kept'
<1>0. TypeOK
  BY DEF IInv
<1>1. PICK a \in Request :
        /\ pc[r] = "new" /\ arg' = [arg EXCEPT ![r] = a]
        /\ pc' = [pc EXCEPT ![r] = FirstStep(a.op)]
        /\ UNCHANGED <<file, store, held, seen, answer, born>>
        /\ ~raced /\ ~Races(a.op)
  BY DEF Arrive, files, Goto
<1>2. /\ FirstStep(a.op) \in {"removeRead", "svcTest", "svcAction", "lock"}
      /\ a.op = "enable" <=> FirstStep(a.op) = "removeRead"
  BY DEF FirstStep
<1>3. arg[r].op = "none" /\ held[r] = None /\ answer[r] = "none"
  BY <1>0, <1>1 DEF Asked
<1>4. OneStoreUser'
  <2>1. a.op \in StoreOps => \A q \in InFlight : arg[q].op \notin StoreOps
    BY <1>1 DEF Races
  <2>2. InFlight' = InFlight \cup {r}
    BY <1>0, <1>1, <1>2 DEF InFlight, TypeOK
  <2>3. arg'[r] = a /\ \A q \in Req \ {r} : arg'[q] = arg[q]
    BY <1>0, <1>1 DEF TypeOK
  <2>4. r \notin InFlight
    BY <1>1 DEF InFlight
  <2>5. \A q, s \in InFlight' : arg'[q].op \in StoreOps /\ arg'[s].op \in StoreOps => q = s
    BY <1>1, <2>1, <2>2, <2>3, <2>4 DEF OneStoreUser, InFlight
  <2> QED
    BY <1>0, <1>1, <1>2, <2>5 DEF OneStoreUser, TypeOK
<1>5. Placed'
  <2>1. \A id : InHand(id)' <=> InHand(id)
    BY <1>1 DEF InHand
  <2> SUFFICES ASSUME NEW q \in Req
      PROVE
        /\ arg'[q].op = "enable" /\ pc'[q] \in Critical \cup {"lock"} => ~Stored(arg'[q].id)
        /\ arg'[q].op = "enable" /\ pc'[q] \in {"test", "restart"} => Live(arg'[q].id)
        /\ arg'[q].op = "disable" /\ pc'[q] \in {"test", "restart", "addRead", "addWrite"}
             => ~Live(arg'[q].id)
        /\ arg'[q].op = "delete" /\ pc'[q] \in {"test", "restart", "removeRead", "removeWrite"}
             => ~Live(arg'[q].id)
        /\ arg'[q].op = "delete" /\ answer[q] = "ok" =>
             ~Live(arg'[q].id) /\ ~Stored(arg'[q].id) /\ ~InHand(arg'[q].id)
    BY <1>1, <2>1 DEF Placed, Stored, Live
  <2>2. CASE q = r
    <3>1. arg'[q] = a /\ pc'[q] = FirstStep(a.op) /\ answer[q] = "none"
      BY <1>0, <1>1, <1>3, <2>2 DEF TypeOK
    <3> QED
      BY <1>2, <3>1 DEF Critical
  <2>3. CASE q # r
    <3>1. arg'[q] = arg[q] /\ pc'[q] = pc[q]
      BY <1>0, <1>1, <2>3 DEF TypeOK
    <3> QED
      BY <1>1, <3>1 DEF Placed
  <2> QED
    BY <2>2, <2>3
<1>6. \A q \in Req : arg[q].op # "none" => arg'[q] = arg[q]
  BY <1>0, <1>1, <1>3 DEF TypeOK
<1>7. Kept'
  <2> SUFFICES ASSUME NEW id \in born
               PROVE  /\ Lost(id)' => LossTold(id)'
                      /\ Live(id)' /\ Stored(id)' => FailedEnable(id)'
    BY <1>1 DEF Kept
  <2>1. Lost(id)' => Lost(id)
    BY <1>1, <1>6 DEF Lost, Live, Stored, InHand, DeleteAsked
  <2>2. LossTold(id) => LossTold(id)'
    BY <1>1, <1>6 DEF LossTold
  <2>3. FailedEnable(id) => FailedEnable(id)'
    BY <1>1, <1>6 DEF FailedEnable
  <2> QED
    BY <1>1, <2>1, <2>2, <2>3 DEF Kept, Live, Stored
<1> QED
  BY <1>4, <1>5, <1>7

\* The rename: the one step that changes which clients are live.
LEMMA CommitKeeps ==
  ASSUME IInv, Asked, OneStoreUser, Placed, Kept, NEW r \in Req, ~raced',
         Commit(r)
  PROVE  OneStoreUser' /\ Placed' /\ Kept'
<1>0. TypeOK /\ Carry /\ Locking /\ BornInv /\ UniqueInv
  BY DEF IInv
<1>1. /\ pc[r] = "rename" /\ pc' = [pc EXCEPT ![r] = "test"]
      /\ file' = snap[r] /\ born' = born \cup Ids(file'.clients)
      /\ UNCHANGED <<store, arg, held, seen, answer>>
  BY DEF Commit, Goto
<1>2. OneStoreUser'
  BY <1>0, <1>1 DEF OneStoreUser, InFlight, TypeOK
<1>3. /\ arg[r] \in EditRequest /\ (arg[r].op = "enable" => held[r] \in Client)
      /\ arg[r].op = "disable" => held[r] \in Client
      /\ snap[r] \in Edit(arg[r], held[r], file)
      /\ file \in Config /\ Unique(file.clients)
  BY <1>0, <1>1 DEF Carry, Locking, SnapCurrent, TypeOK, UniqueInv, IdsUnique
<1>4. /\ arg[r].op = "create" => /\ Ids(file'.clients) = Ids(file.clients) \cup {arg[r].id}
                                 /\ arg[r].id \notin born
      /\ arg[r].op = "enable" => Ids(file'.clients) = Ids(file.clients) \cup {arg[r].id}
      /\ arg[r].op \in {"delete", "disable"} => Ids(file'.clients) = Ids(file.clients) \ {arg[r].id}
      /\ arg[r].op \in {"patch", "reality"} => file'.clients = file'.clients /\ Ids(file'.clients) = Ids(file.clients)
      /\ arg[r].op \in {"create", "enable", "delete", "disable", "patch", "reality"}
  <2>1. Ids(file'.clients) =
          CASE arg[r].op = "create"                  -> Ids(file.clients) \cup {arg[r].id}
            [] arg[r].op = "enable"                  -> Ids(file.clients) \cup {held[r].id}
            [] arg[r].op \in {"delete", "disable"}   -> Ids(file.clients) \ {arg[r].id}
            [] arg[r].op \in {"patch", "reality"}    -> Ids(file.clients)
    BY <1>1, <1>3, EditIds
  <2>2. arg[r].op = "enable" => held[r].id = arg[r].id
    BY <1>3, PanelAssumption DEF Asked
  <2>3. arg[r].op = "create" => arg[r].id \notin born
    BY <1>0, <1>1 DEF BornInv
  <2>4. arg[r].op \in {"create", "enable", "delete", "disable", "patch", "reality"}
    BY <1>3 DEF EditRequest
  <2> QED
    BY <2>1, <2>2, <2>3, <2>4
<1>5. \A q \in Req \ {r} : pc[q] \notin {"test", "restart"}
  BY <1>0, <1>1, Alone DEF Locking, Critical
<1>6. r \in InFlight /\ \A q \in InFlight : arg[r].op \in StoreOps /\ arg[q].op \in StoreOps => q = r
  BY <1>1 DEF OneStoreUser, InFlight
<1>7. \A id : InHand(id)' <=> InHand(id)
  BY <1>1 DEF InHand
<1>8. arg[r].op \in {"disable", "enable"} => InHand(arg[r].id)
  BY <1>3, PanelAssumption DEF InHand, Asked
<1>9. Placed'
  <2> SUFFICES ASSUME NEW q \in Req
      PROVE
        /\ arg[q].op = "enable" /\ pc'[q] \in Critical \cup {"lock"} => ~Stored(arg[q].id)
        /\ arg[q].op = "enable" /\ pc'[q] \in {"test", "restart"} => Live(arg[q].id)'
        /\ arg[q].op = "disable" /\ pc'[q] \in {"test", "restart", "addRead", "addWrite"}
             => ~Live(arg[q].id)'
        /\ arg[q].op = "delete" /\ pc'[q] \in {"test", "restart", "removeRead", "removeWrite"}
             => ~Live(arg[q].id)'
        /\ arg[q].op = "delete" /\ answer[q] = "ok" =>
             ~Live(arg[q].id)' /\ ~Stored(arg[q].id) /\ ~InHand(arg[q].id)
    BY <1>1, <1>7 DEF Placed, Stored, Live
  <2>1. CASE q = r
    <3>1. pc'[r] = "test" /\ answer[r] = "none"
      BY <1>0, <1>1 DEF TypeOK, Asked
    <3> QED
      BY <1>1, <1>4, <2>1, <3>1 DEF Placed, Live, Critical
  <2>2. CASE q # r
    <3>1. pc'[q] = pc[q]
      BY <1>0, <1>1, <2>2 DEF TypeOK
    <3>2. arg[q].op \in {"disable", "delete"} => arg[q].id \in born
      BY DEF Asked, ClientOps
    <3>3. arg[q].op \in {"disable", "delete"} /\ pc[q] \in {"addRead", "addWrite", "removeRead", "removeWrite"}
            => arg[r].op # "enable"
      BY <1>6, <2>2 DEF InFlight, StoreOps
    <3>4. arg[r].op = "enable" => InHand(arg[r].id)
      BY <1>8
    <3>5. ASSUME arg[q].op \in {"disable", "delete"}, ~Live(arg[q].id),
                 arg[r].op # "enable" \/ ~InHand(arg[q].id)
          PROVE  ~Live(arg[q].id)'
      BY <1>1, <1>4, <3>2, <3>4, <3>5 DEF Live
    <3>6. pc'[q] \notin {"test", "restart"}
      BY <1>5, <2>2, <3>1
    <3>7. arg[q].op = "delete" /\ answer[q] = "ok" =>
             ~Live(arg[q].id)' /\ ~Stored(arg[q].id) /\ ~InHand(arg[q].id)
      BY <3>5 DEF Placed
    <3>8. /\ arg[q].op = "disable" /\ pc'[q] \in {"addRead", "addWrite"} => ~Live(arg[q].id)'
          /\ arg[q].op = "delete" /\ pc'[q] \in {"removeRead", "removeWrite"} => ~Live(arg[q].id)'
      BY <3>1, <3>3, <3>5 DEF Placed
    <3> QED
      BY <3>1, <3>6, <3>7, <3>8 DEF Placed
  <2> QED
    BY <2>1, <2>2
<1>10. Kept'
  <2>1. ASSUME NEW id \in born
        PROVE  /\ Lost(id)' => LossTold(id)'
               /\ Live(id)' /\ Stored(id)' => FailedEnable(id)'
    <3>1. Live(id) /\ ~Live(id)' => InHand(id) \/ DeleteAsked(id)
      BY <1>4, <1>8 DEF Live, DeleteAsked
    <3>2. Live(id)' /\ ~Live(id) => ~Stored(id)
      BY <1>1, <1>4 DEF Live, Placed, Critical
    <3>3. /\ Stored(id)' <=> Stored(id)
          /\ LossTold(id)' <=> LossTold(id)
          /\ FailedEnable(id)' <=> FailedEnable(id)
          /\ DeleteAsked(id)' <=> DeleteAsked(id)
      BY <1>1 DEF Stored, LossTold, FailedEnable, DeleteAsked
    <3>4. Lost(id)' => Lost(id)
      BY <1>7, <3>1, <3>3 DEF Lost
    <3> QED
      BY <3>2, <3>3, <3>4 DEF Kept
  <2>2. ASSUME NEW id \in born' \ born
        PROVE  Live(id)' /\ ~Stored(id)'
    BY <1>0, <1>1, <2>2 DEF Live, Stored, BornInv
  <2> QED
    BY <1>1, <2>1, <2>2 DEF Kept, Lost
<1> QED
  BY <1>2, <1>9, <1>10

\* A request that ends: what it has in hand is not lost without a word, and a
\* delete that succeeds is one.
LEMMA FinishKeeps ==
  ASSUME TypeOK, Asked, OneStoreUser, Placed, Kept, NEW r \in Req, NEW outcome \in Answers,
         pc[r] \notin {"new", "done"}, Finish(r, outcome),
         UNCHANGED <<file, store, arg, born>>,
         held[r] # None =>
           \/ outcome \in {"error", "cut"}
           \/ Live(arg[r].id) \/ Stored(arg[r].id),
         arg[r].op = "delete" /\ outcome = "ok" => ~Live(arg[r].id) /\ ~Stored(arg[r].id)
  PROVE  OneStoreUser' /\ Placed' /\ Kept'
<1>1. /\ pc' = [pc EXCEPT ![r] = "done"]
      /\ answer' = [answer EXCEPT ![r] = outcome]
      /\ held' = [held EXCEPT ![r] = None]
      /\ seen' = [seen EXCEPT ![r] = <<>>]
      /\ answer[r] = "none"
  BY DEF Finish, Goto, Asked
<1>2. OneStoreUser'
  BY <1>1 DEF OneStoreUser, InFlight, TypeOK
<1>3. /\ \A id : InHand(id)' => InHand(id)
      /\ \A id : InHand(id) /\ ~InHand(id)' => held[r] # None /\ id = arg[r].id
  BY <1>1 DEF InHand, TypeOK, Asked
<1>4. Placed'
  <2> SUFFICES ASSUME NEW q \in Req
      PROVE
        /\ arg[q].op = "enable" /\ pc'[q] \in Critical \cup {"lock"} => ~Stored(arg[q].id)
        /\ arg[q].op = "enable" /\ pc'[q] \in {"test", "restart"} => Live(arg[q].id)
        /\ arg[q].op = "disable" /\ pc'[q] \in {"test", "restart", "addRead", "addWrite"}
             => ~Live(arg[q].id)
        /\ arg[q].op = "delete" /\ pc'[q] \in {"test", "restart", "removeRead", "removeWrite"}
             => ~Live(arg[q].id)
        /\ arg[q].op = "delete" /\ answer'[q] = "ok" =>
             ~Live(arg[q].id) /\ ~Stored(arg[q].id) /\ ~InHand(arg[q].id)'
    BY DEF Placed, Stored, Live
  <2>1. CASE q = r
    <3>1. pc'[q] = "done" /\ answer'[q] = outcome
      BY <1>1, <2>1 DEF TypeOK
    <3>2. arg[r].op = "delete" => ~InHand(arg[r].id)'
      <4> SUFFICES ASSUME arg[r].op = "delete", NEW s \in Req, held[s] # None PROVE FALSE
        BY <1>3 DEF InHand
      <4>1. s = r
        BY OnlyHolder DEF InFlight, StoreOps
      <4> QED
        BY <4>1 DEF Asked
    <3> QED
      BY <2>1, <3>1, <3>2 DEF Critical
  <2>2. CASE q # r
    <3>1. pc'[q] = pc[q] /\ answer'[q] = answer[q]
      BY <1>1, <2>2 DEF TypeOK
    <3>2. InHand(arg[q].id)' => InHand(arg[q].id)
      BY <1>3
    <3> QED
      BY <3>1, <3>2 DEF Placed
  <2> QED
    BY <2>1, <2>2
<1>5. Kept'
  <2> SUFFICES ASSUME NEW id \in born
               PROVE  /\ Lost(id)' => LossTold(id)'
                      /\ Live(id)' /\ Stored(id)' => FailedEnable(id)'
    BY DEF Kept
  <2>1. \A q \in Req : answer[q] # "none" => answer'[q] = answer[q]
    BY <1>1 DEF TypeOK
  <2>2. /\ LossTold(id) => LossTold(id)'
        /\ FailedEnable(id) => FailedEnable(id)'
    BY <2>1 DEF LossTold, FailedEnable
  <2>3. /\ Live(id)' <=> Live(id)
        /\ Stored(id)' <=> Stored(id)
        /\ DeleteAsked(id)' <=> DeleteAsked(id)
    BY DEF Live, Stored, DeleteAsked
  <2>4. ASSUME InHand(id), ~InHand(id)', ~Live(id), ~Stored(id)
        PROVE  LossTold(id)'
    <3>1. held[r] # None /\ id = arg[r].id
      BY <1>3, <2>4
    <3>2. answer'[r] \in {"error", "cut"}
      BY <1>1, <2>4, <3>1 DEF TypeOK
    <3>3. arg[r].op \in {"disable", "enable"}
      BY <3>1 DEF Asked
    <3> QED
      BY <3>1, <3>2, <3>3 DEF LossTold
  <2> QED
    BY <2>2, <2>3, <2>4 DEF Kept, Lost
<1> QED
  BY <1>2, <1>4, <1>5

\* mutateConfig returns, and the handler goes on or ends.
LEMMA ReturnKeeps ==
  ASSUME IInv, Asked, OneStoreUser, Placed, Kept, NEW r \in Req, ~raced',
         EditRefused(r) \/ ConfigIOFails(r) \/ TestFails(r)
           \/ InitRestart(r) \/ InitRestartFails(r)
  PROVE  OneStoreUser' /\ Placed' /\ Kept'
<1>0. TypeOK /\ Carry
  BY DEF IInv
<1>1. PICK outcome \in Answers :
        /\ AfterMutate(r, outcome) /\ UNCHANGED <<file, store, arg, born>>
        /\ pc[r] \in Critical
        /\ outcome = "ok" => pc[r] = "restart"
        /\ outcome = "notFound" => pc[r] = "read" /\ arg[r].op \in {"patch", "disable"}
        /\ outcome \in {"ok", "notFound", "error"}
  BY DEF EditRefused, ConfigIOFails, TestFails, InitRestart, InitRestartFails, Return,
         Critical, Answers, files
<1>2. CASE Finish(r, outcome) /\ arg[r].op # "delete"
  <2>1. arg[r].op = "disable" /\ outcome = "notFound" => held[r] = None
    BY <1>1 DEF Asked
  <2>2. arg[r].op = "disable" => outcome # "ok"
    <3> SUFFICES ASSUME arg[r].op = "disable", outcome = "ok" PROVE FALSE
      OBVIOUS
    <3>1. pc' = [pc EXCEPT ![r] = "addRead"]
      BY <1>1 DEF AfterMutate, Goto
    <3> QED
      BY <1>0, <1>2, <3>1 DEF Finish, Goto, TypeOK
  <2>3. arg[r].op = "enable" /\ outcome = "ok" => Live(arg[r].id)
    BY <1>1 DEF Placed
  <2>4. arg[r].op = "enable" => outcome # "notFound"
    BY <1>1
  <2>5. held[r] # None => arg[r].op \in {"disable", "enable"}
    BY DEF Asked
  <2> QED
    BY <1>0, <1>1, <1>2, <2>1, <2>2, <2>3, <2>4, <2>5, FinishKeeps DEF Critical
<1>3. CASE Finish(r, outcome) /\ arg[r].op = "delete"
  <2>1. outcome # "ok"
    <3> SUFFICES ASSUME outcome = "ok" PROVE FALSE
      OBVIOUS
    <3>1. pc' = [pc EXCEPT ![r] = "removeRead"]
      BY <1>1, <1>3 DEF AfterMutate, Goto
    <3> QED
      BY <1>0, <1>3, <3>1 DEF Finish, Goto, TypeOK
  <2>2. held[r] = None
    BY <1>3 DEF Asked
  <2> QED
    BY <1>0, <1>1, <1>3, <2>1, <2>2, FinishKeeps DEF Critical
<1>4. CASE ~Finish(r, outcome)
  <2>1. PICK next \in {"addRead", "removeRead"} :
          /\ pc' = [pc EXCEPT ![r] = next]
          /\ UNCHANGED <<held, seen, answer>>
          /\ \/ next = "addRead" /\ arg[r].op = "disable" /\ outcome = "ok"
             \/ next = "removeRead" /\ arg[r].op = "delete" /\ outcome = "ok"
             \/ next = "addRead" /\ arg[r].op = "enable"
    BY <1>1, <1>4 DEF AfterMutate, Goto
  <2>2. OneStoreUser'
    BY <1>0, <1>1, <2>1 DEF OneStoreUser, InFlight, TypeOK, Critical
  <2>3. Placed'
    BY <1>0, <1>1, <2>1 DEF Placed, TypeOK, Live, Stored, InHand, Critical
  <2>4. Kept'
    BY <1>1, <2>1 DEF Kept, Lost, Live, Stored, InHand, DeleteAsked, LossTold, FailedEnable
  <2> QED
    BY <2>2, <2>3, <2>4
<1> QED
  BY <1>2, <1>3, <1>4

\* Remove reads the store, or finds nothing there.
LEMMA RemoveReadKeeps ==
  ASSUME IInv, Asked, OneStoreUser, Placed, Kept, NEW r \in Req, ~raced',
         RemoveRead(r)
  PROVE  OneStoreUser' /\ Placed' /\ Kept'
<1>0. TypeOK /\ Carry
  BY DEF IInv
<1>1. /\ pc[r] = "removeRead" /\ held[r] = None
      /\ arg[r].op \in {"delete", "enable"}
      /\ UNCHANGED <<file, store, arg, born>>
  BY <1>0 DEF RemoveRead, files, Asked, Carry
<1>2. CASE \E outcome \in {"notFound", "ok"} : Finish(r, outcome) /\ arg[r].id \notin Ids(store)
  <2>1. arg[r].op = "delete" => ~Live(arg[r].id) /\ ~Stored(arg[r].id)
    BY <1>1, <1>2 DEF Placed, Stored
  <2>2. {"notFound", "ok"} \subseteq Answers
    BY DEF Answers
  <2> QED
    BY <1>0, <1>1, <1>2, <2>1, <2>2, FinishKeeps
<1>3. CASE /\ seen' = [seen EXCEPT ![r] = store]
           /\ pc' = [pc EXCEPT ![r] = "removeWrite"]
           /\ UNCHANGED <<snap, held, answer>>
  <2>1. OneStoreUser'
    BY <1>0, <1>1, <1>3 DEF OneStoreUser, InFlight, TypeOK
  <2>2. Placed'
    BY <1>0, <1>1, <1>3 DEF Placed, TypeOK, Live, Stored, InHand, Critical
  <2>3. Kept'
    BY <1>1, <1>3 DEF Kept, Lost, Live, Stored, InHand, DeleteAsked, LossTold, FailedEnable
  <2> QED
    BY <2>1, <2>2, <2>3
<1> QED
  BY <1>2, <1>3 DEF RemoveRead, Goto

\* Remove writes the store without the client.
LEMMA RemoveWriteKeeps ==
  ASSUME IInv, Asked, OneStoreUser, Placed, Kept, NEW r \in Req, ~raced',
         RemoveWrite(r)
  PROVE  OneStoreUser' /\ Placed' /\ Kept'
<1>0. TypeOK /\ Carry /\ UniqueInv
  BY DEF IInv
<1>1. /\ pc[r] = "removeWrite" /\ held[r] = None /\ answer[r] = "none"
      /\ arg[r].op \in {"delete", "enable"}
      /\ UNCHANGED <<file, arg, born>>
      /\ seen[r] = store /\ store \in Seq(Client) /\ Unique(store)
  BY <1>0 DEF RemoveWrite, Asked, Carry, OneStoreUser, TypeOK, UniqueInv, IdsUnique
<1>2. PICK i \in First(store, arg[r].id) :
        /\ store' = RemoveAt(store, i)
        /\ IF arg[r].op = "enable"
           THEN /\ held' = [held EXCEPT ![r] = store[i]]
                /\ seen' = [seen EXCEPT ![r] = <<>>]
                /\ pc' = [pc EXCEPT ![r] = "lock"]
                /\ UNCHANGED <<snap, answer>>
           ELSE Finish(r, "ok")
  BY <1>1 DEF RemoveWrite, Rest, Removed, Goto
<1>3. /\ Ids(store') = Ids(store) \ {arg[r].id}
      /\ Stored(arg[r].id)
      /\ store[i].id = arg[r].id /\ store[i] # None
  <2>1. i \in DOMAIN store /\ store[i].id = arg[r].id
    BY FirstInDomain
  <2>2. store[i] \in Client
    BY <1>1, <2>1
  <2>3. Ids(store') = Ids(store) \ {arg[r].id}
    BY <1>1, <1>2, RemoveFirstIds
  <2>4. Stored(arg[r].id)
    BY <2>1 DEF Stored, Ids
  <2> QED
    BY <2>1, <2>2, <2>3, <2>4, PanelAssumption
<1>4. r \in InFlight /\ arg[r].op \in StoreOps
  BY <1>1 DEF InFlight, StoreOps
<1>5. \A q \in Req \ {r} : held[q] = None
  BY <1>0, <1>4, OnlyHolder
<1>6. /\ \A q \in Req \ {r} : pc'[q] = pc[q] /\ held'[q] = held[q] /\ answer'[q] = answer[q]
                              /\ seen'[q] = seen[q]
      /\ arg[r].op = "enable" =>
           pc'[r] = "lock" /\ held'[r] = store[i] /\ answer'[r] = "none"
      /\ arg[r].op = "delete" =>
           pc'[r] = "done" /\ held'[r] = None /\ answer'[r] = "ok"
  BY <1>0, <1>1, <1>2 DEF Finish, Goto, TypeOK
<1>7. \A id : InHand(id)' <=> arg[r].op = "enable" /\ id = arg[r].id
  BY <1>1, <1>3, <1>5, <1>6 DEF InHand
<1>8. \A q \in Req \ {r} : pc[q] \notin {"removeWrite", "addWrite"}
  <2> SUFFICES ASSUME NEW q \in Req \ {r}, pc[q] \in {"removeWrite", "addWrite"} PROVE FALSE
    OBVIOUS
  <2>1. pc[q] = "removeWrite"
    BY <1>0, <1>5, PanelAssumption DEF Carry
  <2>2. arg[q].op \in StoreOps /\ q \in InFlight
    BY <1>0, <2>1 DEF Carry, StoreOps, InFlight
  <2> QED
    BY <1>4, <2>2 DEF OneStoreUser
<1>9. OneStoreUser'
  <2>1. InFlight' \subseteq InFlight
    BY <1>1, <1>4, <1>6 DEF InFlight
  <2>2. \A q \in Req : pc'[q] \notin {"removeWrite", "addWrite"}
    BY <1>1, <1>6, <1>8
  <2> QED
    BY <1>1, <2>1, <2>2 DEF OneStoreUser
<1>10. Placed'
  <2> SUFFICES ASSUME NEW q \in Req
      PROVE
        /\ arg[q].op = "enable" /\ pc'[q] \in Critical \cup {"lock"} => arg[q].id \notin Ids(store')
        /\ arg[q].op = "enable" /\ pc'[q] \in {"test", "restart"} => Live(arg[q].id)
        /\ arg[q].op = "disable" /\ pc'[q] \in {"test", "restart", "addRead", "addWrite"}
             => ~Live(arg[q].id)
        /\ arg[q].op = "delete" /\ pc'[q] \in {"test", "restart", "removeRead", "removeWrite"}
             => ~Live(arg[q].id)
        /\ arg[q].op = "delete" /\ answer'[q] = "ok" =>
             ~Live(arg[q].id) /\ arg[q].id \notin Ids(store') /\ ~InHand(arg[q].id)'
    BY <1>1 DEF Placed, Stored, Live
  <2>1. CASE q = r
    BY <1>1, <1>3, <1>6, <1>7, <2>1 DEF Critical, Placed
  <2>2. CASE q # r
    BY <1>1, <1>3, <1>6, <1>7, <2>2 DEF Placed, Stored
  <2> QED
    BY <2>1, <2>2
<1>11. Kept'
  <2> SUFFICES ASSUME NEW id \in born
               PROVE  /\ Lost(id)' => LossTold(id)'
                      /\ Live(id)' /\ Stored(id)' => FailedEnable(id)'
    BY <1>1 DEF Kept
  <2>1. \A q \in Req : answer[q] # "none" => answer'[q] = answer[q]
    BY <1>1, <1>6
  <2>2. /\ LossTold(id) => LossTold(id)'
        /\ FailedEnable(id) => FailedEnable(id)'
    BY <1>1, <2>1 DEF LossTold, FailedEnable
  <2>3. /\ Live(id)' <=> Live(id)
        /\ Stored(id)' <=> Stored(id) /\ id # arg[r].id
        /\ DeleteAsked(id)' <=> DeleteAsked(id)
        /\ id = arg[r].id /\ arg[r].op = "delete" => DeleteAsked(id)
    BY <1>1, <1>3 DEF Live, Stored, DeleteAsked
  <2>4. ~InHand(id)
    BY <1>1, <1>5 DEF InHand
  <2> QED
    BY <1>1, <1>7, <2>2, <2>3, <2>4 DEF Kept, Lost
<1> QED
  BY <1>9, <1>10, <1>11

\* Add reads the store, or finds the client there.
LEMMA AddReadKeeps ==
  ASSUME IInv, Asked, OneStoreUser, Placed, Kept, NEW r \in Req, ~raced',
         AddRead(r)
  PROVE  OneStoreUser' /\ Placed' /\ Kept'
<1>0. TypeOK /\ Carry
  BY DEF IInv
<1>1. /\ pc[r] = "addRead" /\ held[r] # None
      /\ arg[r].op \in {"disable", "enable"}
      /\ UNCHANGED <<file, store, arg, born>>
  BY <1>0, PanelAssumption DEF AddRead, files, Asked, Carry
<1>2. CASE Finish(r, "error")
  BY <1>0, <1>1, <1>2, FinishKeeps DEF Answers
<1>3. CASE /\ seen' = [seen EXCEPT ![r] = store]
           /\ pc' = [pc EXCEPT ![r] = "addWrite"]
           /\ UNCHANGED <<snap, held, answer>>
  <2>1. OneStoreUser'
    BY <1>0, <1>1, <1>3 DEF OneStoreUser, InFlight, TypeOK
  <2>2. Placed'
    BY <1>0, <1>1, <1>3 DEF Placed, TypeOK, Live, Stored, InHand, Critical
  <2>3. Kept'
    BY <1>1, <1>3 DEF Kept, Lost, Live, Stored, InHand, DeleteAsked, LossTold, FailedEnable
  <2> QED
    BY <2>1, <2>2, <2>3
<1> QED
  BY <1>2, <1>3 DEF AddRead, Goto

\* Add writes the store with the client.
LEMMA AddWriteKeeps ==
  ASSUME IInv, Asked, OneStoreUser, Placed, Kept, NEW r \in Req, ~raced',
         AddWrite(r)
  PROVE  OneStoreUser' /\ Placed' /\ Kept'
<1>0. TypeOK /\ Carry
  BY DEF IInv
<1>1. /\ pc[r] = "addWrite" /\ held[r] \in Client /\ held[r] # None /\ answer[r] = "none"
      /\ arg[r].op \in {"disable", "enable"} /\ held[r].id = arg[r].id
      /\ UNCHANGED <<file, arg, born>>
      /\ seen[r] = store /\ store \in Seq(Client)
  BY <1>0, PanelAssumption DEF AddWrite, Asked, Carry, OneStoreUser, TypeOK
<1>2. Ids(store') = Ids(store) \cup {arg[r].id}
  BY <1>1, AppendIds DEF AddWrite, Added
<1>3. r \in InFlight /\ arg[r].op \in StoreOps
  BY <1>1 DEF InFlight, StoreOps
<1>4. \A q \in Req \ {r} : held[q] = None
  BY <1>0, <1>3, OnlyHolder
<1>5. /\ \A q \in Req \ {r} : pc'[q] = pc[q] /\ held'[q] = held[q] /\ answer'[q] = answer[q]
      /\ pc'[r] = "done" /\ held'[r] = None
      /\ answer'[r] = IF arg[r].op = "enable" THEN "error" ELSE "ok"
  BY <1>0, <1>1 DEF AddWrite, Finish, Goto, TypeOK
<1>6. /\ \A id : ~InHand(id)'
      /\ \A id : InHand(id) <=> id = arg[r].id
  BY <1>1, <1>4, <1>5 DEF InHand
<1>7. \A q \in Req \ {r} : pc[q] \notin {"removeWrite", "addWrite"}
  <2> SUFFICES ASSUME NEW q \in Req \ {r}, pc[q] \in {"removeWrite", "addWrite"} PROVE FALSE
    OBVIOUS
  <2>1. pc[q] = "removeWrite"
    BY <1>0, <1>4, PanelAssumption DEF Carry
  <2>2. arg[q].op \in StoreOps /\ q \in InFlight
    BY <1>0, <2>1 DEF Carry, StoreOps, InFlight
  <2> QED
    BY <1>3, <2>2 DEF OneStoreUser
<1>8. OneStoreUser'
  <2>1. InFlight' \subseteq InFlight
    BY <1>1, <1>3, <1>5 DEF InFlight
  <2>2. \A q \in Req : pc'[q] \notin {"removeWrite", "addWrite"}
    BY <1>1, <1>5, <1>7
  <2> QED
    BY <1>1, <2>1, <2>2 DEF OneStoreUser
<1>9. Placed'
  <2> SUFFICES ASSUME NEW q \in Req
      PROVE
        /\ arg[q].op = "enable" /\ pc'[q] \in Critical \cup {"lock"} => arg[q].id \notin Ids(store')
        /\ arg[q].op = "enable" /\ pc'[q] \in {"test", "restart"} => Live(arg[q].id)
        /\ arg[q].op = "disable" /\ pc'[q] \in {"test", "restart", "addRead", "addWrite"}
             => ~Live(arg[q].id)
        /\ arg[q].op = "delete" /\ pc'[q] \in {"test", "restart", "removeRead", "removeWrite"}
             => ~Live(arg[q].id)
        /\ arg[q].op = "delete" /\ answer'[q] = "ok" =>
             ~Live(arg[q].id) /\ arg[q].id \notin Ids(store')
    BY <1>1, <1>6 DEF Placed, Stored, Live
  <2>1. CASE q = r
    BY <1>1, <1>5, <2>1 DEF Critical
  <2>2. CASE q # r
    <3>1. arg[q].op = "enable" => pc[q] \notin Critical \cup {"lock"}
      BY <1>3, <2>2 DEF OneStoreUser, InFlight, StoreOps, Critical
    <3> QED
      BY <1>2, <1>5, <1>6, <2>2, <3>1 DEF Placed, Stored, Critical
  <2> QED
    BY <2>1, <2>2
<1>10. Kept'
  <2> SUFFICES ASSUME NEW id \in born
               PROVE  /\ Lost(id)' => LossTold(id)'
                      /\ Live(id)' /\ Stored(id)' => FailedEnable(id)'
    BY <1>1 DEF Kept
  <2>1. \A q \in Req : answer[q] # "none" => answer'[q] = answer[q]
    BY <1>1, <1>5
  <2>2. /\ LossTold(id) => LossTold(id)'
        /\ FailedEnable(id) => FailedEnable(id)'
    BY <1>1, <2>1 DEF LossTold, FailedEnable
  <2>3. /\ Live(id)' <=> Live(id)
        /\ Stored(id)' <=> Stored(id) \/ id = arg[r].id
        /\ DeleteAsked(id)' <=> DeleteAsked(id)
    BY <1>1, <1>2 DEF Live, Stored, DeleteAsked
  <2>4. id = arg[r].id /\ Live(id) => FailedEnable(id)'
    BY <1>1, <1>5 DEF Placed, FailedEnable
  <2> QED
    BY <1>6, <2>2, <2>3, <2>4 DEF Kept, Lost
<1> QED
  BY <1>8, <1>9, <1>10

\* The store cannot be used, and what is done to xray.
LEMMA OtherKeeps ==
  ASSUME IInv, Asked, OneStoreUser, Placed, Kept, NEW r \in Req, ~raced',
         StoreIOFails(r) \/ ServiceTest(r) \/ ServiceAction(r) \/ ServiceActionFails(r)
  PROVE  OneStoreUser' /\ Placed' /\ Kept'
<1>0. TypeOK /\ Carry
  BY DEF IInv
<1>1. /\ UNCHANGED <<file, store, arg, born>> /\ pc[r] \notin {"new", "done"}
      /\ pc[r] \in {"svcTest", "svcAction"} \/ Finish(r, "error")
  BY DEF StoreIOFails, ServiceTest, ServiceAction, ServiceActionFails, files
<1>2. CASE Finish(r, "error")
  BY <1>0, <1>1, <1>2, FinishKeeps DEF Answers
<1>3. CASE Finish(r, "ok") /\ pc[r] \in {"svcTest", "svcAction"}
  <2>1. held[r] = None /\ arg[r].op # "delete"
    BY <1>0, <1>3 DEF Carry, Asked, ServiceOps
  <2> QED
    BY <1>0, <1>1, <1>3, <2>1, FinishKeeps DEF Answers
<1>4. CASE /\ pc' = [pc EXCEPT ![r] = "svcAction"]
           /\ UNCHANGED <<snap, held, seen, answer>>
  <2>1. OneStoreUser'
    BY <1>0, <1>1, <1>4 DEF OneStoreUser, InFlight, TypeOK
  <2>2. Placed'
    BY <1>0, <1>1, <1>4 DEF Placed, TypeOK, Live, Stored, InHand, Critical
  <2>3. Kept'
    BY <1>1, <1>4 DEF Kept, Lost, Live, Stored, InHand, DeleteAsked, LossTold, FailedEnable
  <2> QED
    BY <2>1, <2>2, <2>3
<1> QED
  BY <1>2, <1>3, <1>4 DEF StoreIOFails, ServiceTest, ServiceAction, ServiceActionFails, Goto

\* A crash cuts off whoever has a client in hand.
LEMMA CrashKeeps ==
  ASSUME IInv, Asked, OneStoreUser, Placed, Kept, ~raced', Crash
  PROVE  OneStoreUser' /\ Placed' /\ Kept'
<1>0. TypeOK
  BY DEF IInv
<1>1. /\ UNCHANGED <<file, store, arg, born>>
      /\ \A q \in Req : /\ pc'[q] \in {"new", "done"} /\ held'[q] = None
                        /\ q \in InFlight => answer'[q] = "cut"
                        /\ q \notin InFlight => answer'[q] = answer[q]
  BY <1>0 DEF Crash, InFlight, TypeOK
<1>2. \A id : ~InHand(id)'
  BY <1>1 DEF InHand
<1>3. OneStoreUser'
  BY <1>1 DEF OneStoreUser, InFlight
<1>4. Placed'
  BY <1>1, <1>2 DEF Placed, Live, Stored, Critical
<1>5. Kept'
  <2> SUFFICES ASSUME NEW id \in born
               PROVE  /\ Lost(id)' => LossTold(id)'
                      /\ Live(id)' /\ Stored(id)' => FailedEnable(id)'
    BY <1>1 DEF Kept
  <2>1. \A q \in Req : answer[q] # "none" => answer'[q] = answer[q]
    BY <1>1 DEF Asked, InFlight
  <2>2. /\ LossTold(id) => LossTold(id)'
        /\ FailedEnable(id) => FailedEnable(id)'
    BY <1>1, <2>1 DEF LossTold, FailedEnable
  <2>3. /\ Live(id)' <=> Live(id)
        /\ Stored(id)' <=> Stored(id)
        /\ DeleteAsked(id)' <=> DeleteAsked(id)
    BY <1>1 DEF Live, Stored, DeleteAsked
  <2>4. InHand(id) => LossTold(id)'
    BY <1>0, <1>1, HolderServed DEF InHand, LossTold, Asked
  <2> QED
    BY <2>2, <2>3, <2>4 DEF Kept, Lost
<1> QED
  BY <1>3, <1>4, <1>5

\* Every step keeps track of every client.
LEMMA KeyStep ==
  ASSUME IInv, KeyInv, [Next]_vars
  PROVE  KeyInv'
<1>1. Asked'
  BY AskedStep DEF KeyInv
<1>2. ASSUME NEW r \in Req, Arrive(r), ~raced'
      PROVE  OneStoreUser' /\ Placed' /\ Kept'
  BY <1>2, ArriveKeeps DEF KeyInv
<1>3. ASSUME NEW r \in Req, Step(r), ~raced'
      PROVE  OneStoreUser' /\ Placed' /\ Kept'
  <2>1. raced' = raced
    BY <1>3 DEF Step, Lock, ReadEdit, EditRefused, Backup, Commit, ConfigIOFails, TestPasses,
       TestFails, InitRestart, InitRestartFails, RemoveRead, RemoveWrite, AddRead, AddWrite,
       StoreIOFails, ServiceTest, ServiceAction, ServiceActionFails
  <2>2. Asked /\ OneStoreUser /\ Placed /\ Kept
    BY <1>3, <2>1 DEF KeyInv
  <2> QED
    BY <1>3, <2>2, InnerKeeps, ReadEditKeeps, CommitKeeps, ReturnKeeps, RemoveReadKeeps,
       RemoveWriteKeeps, AddReadKeeps, AddWriteKeeps, OtherKeeps DEF Step
<1>4. ASSUME Crash, ~raced'
      PROVE  OneStoreUser' /\ Placed' /\ Kept'
  <2>1. raced' = raced
    BY <1>4 DEF Crash
  <2> QED
    BY <1>4, <2>1, CrashKeeps DEF KeyInv
<1>5. ASSUME UNCHANGED vars, ~raced'
      PROVE  OneStoreUser' /\ Placed' /\ Kept'
  BY <1>5 DEF vars, KeyInv, OneStoreUser, InFlight, Placed, Kept, Lost, Live, Stored, InHand,
              DeleteAsked, LossTold, FailedEnable
<1> QED
  BY <1>1, <1>2, <1>3, <1>4, <1>5 DEF KeyInv, Next, Terminated

\* At the start every client is in one of the two files.
LEMMA KeyInit == Init => KeyInv
<1> SUFFICES ASSUME Init PROVE KeyInv
  OBVIOUS
<1> USE PanelAssumption DEF Init
<1>1. Asked
  BY DEF Asked, NoRequest, ClientOps
<1>2. OneStoreUser
  BY DEF OneStoreUser, InFlight
<1>3. Placed
  BY DEF Placed, NoRequest
<1>4. \A id : ~(Live(id) /\ Stored(id))
  <2> DEFINE f == InitFile.clients
             both == f \o InitStore
  <2>1. /\ f \in Seq(Client) /\ InitStore \in Seq(Client)
        /\ DOMAIN f = 1..Len(f) /\ DOMAIN InitStore = 1..Len(InitStore)
        /\ Len(f) \in Nat /\ Len(InitStore) \in Nat
    BY DEF Config
  <2>2. /\ both \in Seq(Client) /\ Len(both) = Len(f) + Len(InitStore)
        /\ \A i \in 1..(Len(f) + Len(InitStore)) :
             both[i] = IF i <= Len(f) THEN f[i] ELSE InitStore[i - Len(f)]
    BY <2>1, ConcatProperties
  <2>3. DOMAIN both = 1..(Len(f) + Len(InitStore))
    BY <2>2
  <2>4. Unique(both)
    OBVIOUS
  <2> HIDE DEF both, f
  <2>5. ASSUME NEW i \in DOMAIN f, NEW j \in DOMAIN InitStore PROVE f[i].id # InitStore[j].id
    <3>1. /\ both[i] = f[i] /\ both[j + Len(f)] = InitStore[j]
          /\ i \in DOMAIN both /\ j + Len(f) \in DOMAIN both /\ i # j + Len(f)
      BY <2>1, <2>2, <2>3
    <3> QED
      BY <2>4, <3>1 DEF Unique
  <2>6. file.clients = f /\ store = InitStore
    BY DEF f
  <2> QED
    BY <2>5, <2>6 DEF Live, Stored, Ids
<1>5. \A id \in born : Live(id) \/ Stored(id)
  BY DEF Live, Stored
<1> QED
  BY <1>1, <1>2, <1>3, <1>4, <1>5 DEF KeyInv, Kept, Lost

\* Asked always holds, and as long as no two requests that use the disabled
\* store overlapped a key is in its place or somebody was told (clients.go,
\* mutate.go:59-131).
THEOREM KeyInvariant == Spec => []KeyInv
BY KeyInit, KeyStep, Invariant, PTL DEF Spec

\* As long as requests that use the disabled store come one at a time, a key is
\* lost only after a disable or an enable of its client that was answered with
\* an error or cut off, and is in both files only after an enable that failed.
THEOREM KeysHaveOnePlace == Spec => []KeyHasOnePlace
<1>1. KeyInv => KeyHasOnePlace
  BY DEF KeyInv, Kept, KeyHasOnePlace, LossTold, FailedEnable
<1> QED
  BY <1>1, KeyInvariant, PTL

\* As long as requests that use the disabled store come one at a time, a delete
\* that was answered with success is final.
THEOREM DeletesAreFinal == Spec => []DeletedStaysDeleted
<1>1. KeyInv => DeletedStaysDeleted
  BY DEF KeyInv, Placed, DeletedStaysDeleted
<1> QED
  BY <1>1, KeyInvariant, PTL

-----------------------------------------------------------------------------
(* What xray runs.                                                         *)

\* A mutation that has written keeps reporting, until xray runs the file.
LEMMA ReportedStep ==
  ASSUME IInv, Asked, Reported, [Next]_vars
  PROVE  Reported'
<1>0. TypeOK /\ Carry
  BY DEF IInv
<1>1. ASSUME NEW r \in Req, Arrive(r)
      PROVE  Reported'
  <2>1. /\ UNCHANGED <<xray, file, answer>> /\ pc[r] = "new" /\ answer[r] = "none"
        /\ \A q \in Req \ {r} : arg'[q] = arg[q] /\ pc'[q] = pc[q]
    BY <1>0, <1>1 DEF Arrive, files, Goto, TypeOK, Asked
  <2>2. \A q \in Req : Reports(q) => q # r /\ Reports(q)'
    BY <2>1 DEF Reports
  <2> QED
    BY <2>1, <2>2 DEF Reported
<1>2. ASSUME NEW r \in Req, Commit(r)
      PROVE  Reported'
  <2>1. pc'[r] = "test" /\ arg'[r] = arg[r] /\ arg[r].op \notin ServiceOps
    BY <1>0, <1>2 DEF Commit, Goto, TypeOK, Carry, EditRequest, ServiceOps
  <2> QED
    BY <2>1 DEF Reported, Reports
<1>3. ASSUME NEW r \in Req, UNCHANGED <<xray, file, arg>>, ~Reports(r) \/ Reports(r)',
             \A q \in Req \ {r} : pc'[q] = pc[q] /\ answer'[q] = answer[q]
      PROVE  Reported'
  <2>1. \A q \in Req : Reports(q) => Reports(q)'
    BY <1>3 DEF Reports
  <2> QED
    BY <1>3, <2>1 DEF Reported
<1>4. ASSUME NEW r \in Req, Lock(r) \/ ReadEdit(r) \/ Backup(r) \/ TestPasses(r)
      PROVE  Reported'
  <2>1. UNCHANGED <<xray, file, arg, answer>>
    BY <1>4 DEF Lock, ReadEdit, Backup, TestPasses, files
  <2>2. \E s \in {"read", "backup", "rename", "restart"} :
          /\ pc' = [pc EXCEPT ![r] = s]
          /\ pc[r] = "test" => s = "restart"
          /\ pc[r] \in {"lock", "read", "backup", "test"}
    BY <1>4 DEF Lock, ReadEdit, Backup, TestPasses, Goto
  <2>3. ~Reports(r) \/ Reports(r)'
    BY <1>0, <2>1, <2>2 DEF Reports, TypeOK
  <2> QED
    BY <1>0, <1>3, <2>1, <2>2, <2>3 DEF TypeOK
<1>5. ASSUME NEW r \in Req, EditRefused(r) \/ ConfigIOFails(r) \/ TestFails(r) \/ InitRestart(r)
               \/ InitRestartFails(r)
      PROVE  Reported'
  <2>1. PICK outcome \in Answers :
          /\ AfterMutate(r, outcome) /\ UNCHANGED <<file, arg>> /\ pc[r] \in Critical
          /\ \/ pc[r] = "restart" /\ outcome = "ok" /\ xray' = Loaded(file)
             \/ pc[r] \in {"read", "backup", "rename"} /\ xray' = xray
             \/ pc[r] \in {"test", "restart"} /\ outcome = "error"
    BY <1>5 DEF EditRefused, ConfigIOFails, TestFails, InitRestart, InitRestartFails, Return,
         Critical, Answers, files
  <2>2. /\ \A q \in Req \ {r} : pc'[q] = pc[q] /\ answer'[q] = answer[q]
        /\ outcome = "error" => \/ answer'[r] = "error"
                                \/ arg[r].op = "enable" /\ pc'[r] = "addRead"
    BY <1>0, <2>1 DEF AfterMutate, Finish, Goto, TypeOK
  <2>3. CASE xray' = Loaded(file)
    BY <2>1, <2>3 DEF Reported, Loaded
  <2>4. CASE pc[r] \in {"read", "backup", "rename"} /\ xray' = xray
    <3>1. ~Reports(r)
      BY <2>4 DEF Reports, Asked
    <3> QED
      BY <1>3, <2>1, <2>2, <2>4, <3>1
  <2>5. CASE outcome = "error" /\ pc[r] \in {"test", "restart"}
    <3>1. arg[r].op \notin ServiceOps
      BY <1>0, <2>5 DEF Carry, EditRequest, ServiceOps
    <3>2. Reports(r)'
      BY <2>1, <2>2, <2>5, <3>1 DEF Reports
    <3> QED
      BY <3>2 DEF Reported
  <2> QED
    BY <2>1, <2>3, <2>4, <2>5
<1>6. ASSUME NEW r \in Req, RemoveRead(r) \/ RemoveWrite(r) \/ AddRead(r) \/ AddWrite(r)
               \/ StoreIOFails(r)
      PROVE  Reported'
  <2>1. UNCHANGED <<xray, file, arg>>
    BY <1>6 DEF RemoveRead, RemoveWrite, AddRead, AddWrite, StoreIOFails, files
  <2>2. \A q \in Req \ {r} : pc'[q] = pc[q] /\ answer'[q] = answer[q]
    BY <1>0, <1>6 DEF RemoveRead, RemoveWrite, AddRead, AddWrite, StoreIOFails, Finish, Goto, TypeOK
  <2>3. CASE Reports(r)
    <3>1. arg[r].op = "enable" /\ pc[r] \in {"addRead", "addWrite"} /\ arg[r].op \notin ServiceOps
      BY <1>6, <2>3 DEF RemoveRead, RemoveWrite, AddRead, AddWrite, StoreIOFails, Reports, Asked
    <3>2. answer'[r] = "error" \/ pc'[r] = "addWrite"
      BY <1>0, <1>6, <3>1 DEF RemoveRead, RemoveWrite, AddRead, AddWrite, StoreIOFails, Finish, Goto, TypeOK
    <3>3. Reports(r)'
      BY <2>1, <3>1, <3>2 DEF Reports
    <3> QED
      BY <1>3, <2>1, <2>2, <3>3
  <2> QED
    BY <1>3, <2>1, <2>2, <2>3
<1>7. ASSUME NEW r \in Req, ServiceTest(r) \/ ServiceAction(r) \/ ServiceActionFails(r)
      PROVE  Reported'
  <2>1. /\ UNCHANGED <<file, arg>> /\ ~Reports(r)
        /\ xray' \in {xray, None, Loaded(file)}
        /\ \A q \in Req \ {r} : pc'[q] = pc[q] /\ answer'[q] = answer[q]
    BY <1>0, <1>7 DEF ServiceTest, ServiceAction, ServiceActionFails, Finish, Goto, TypeOK,
       Carry, ServiceOps, Reports, files
  <2>2. CASE xray' = xray
    BY <1>3, <2>1, <2>2
  <2>3. CASE xray' \in {None, Loaded(file)}
    BY <2>1, <2>3 DEF Reported, Loaded
  <2> QED
    BY <2>1, <2>2, <2>3
<1>8. CASE Crash
  <2>1. /\ UNCHANGED <<file, arg>> /\ xray' \in {xray, None, Loaded(file)}
    BY <1>8 DEF Crash
  <2>2. \A q \in Req : Reports(q) => Reports(q)'
    BY <1>0, <1>8 DEF Crash, Reports, InFlight, Asked, TypeOK
  <2> QED
    BY <2>1, <2>2 DEF Reported, Loaded
<1>9. CASE UNCHANGED vars
  BY <1>9 DEF vars, Reported, Reports
<1> QED
  BY <1>1, <1>2, <1>4, <1>5, <1>6, <1>7, <1>8, <1>9 DEF Next, Step, Terminated

\* When xray runs something else than the file, a mutation is under way or one
\* was answered with an error or cut off.
THEOREM DivergencesAreReported == Spec => []DivergenceIsReported
<1>1. Init => Reported
  BY DEF Init, Reported
<1>2. KeyInv => Asked
  BY DEF KeyInv
<1>3. Reported => DivergenceIsReported
  BY DEF Reported, Reports, DivergenceIsReported
<1> QED
  BY <1>1, <1>2, <1>3, ReportedStep, Invariant, KeyInvariant, PTL DEF Spec

-----------------------------------------------------------------------------
(* Names.                                                                  *)

\* Two clients of one name: one of them has a UUID in E.
ClashIn(cs, E) ==
  \A i, j \in DOMAIN cs : i # j /\ cs[i].name = cs[j].name => cs[i].id \in E \/ cs[j].id \in E

\* A list one client shorter has no other clashes.
LEMMA RemoveClash ==
  ASSUME NEW cs \in Seq(Client), NEW i \in DOMAIN cs, NEW E, ClashIn(cs, E)
  PROVE  ClashIn(RemoveAt(cs, i), E)
<1> DEFINE rest == RemoveAt(cs, i)
<1>1. i \in Nat /\ DOMAIN cs = 1..Len(cs) /\ Len(cs) \in Nat
  OBVIOUS
<1>r. \A j \in DOMAIN rest :
        j \in 1..(Len(cs) - 1) /\ rest[j] = IF j < i THEN cs[j] ELSE cs[j + 1]
  BY RemoveAtElements
<1> HIDE DEF rest
<1>2. \A j \in DOMAIN rest :
        /\ j \in Nat
        /\ \E k \in DOMAIN cs : rest[j] = cs[k] /\ k = IF j < i THEN j ELSE j + 1
  BY <1>1, <1>r
<1>3. ASSUME NEW j \in DOMAIN rest, NEW k \in DOMAIN rest, j # k, rest[j].name = rest[k].name
      PROVE  rest[j].id \in E \/ rest[k].id \in E
  <2>1. PICK m \in DOMAIN cs : rest[j] = cs[m] /\ m = IF j < i THEN j ELSE j + 1
    BY <1>2
  <2>2. PICK n \in DOMAIN cs : rest[k] = cs[n] /\ n = IF k < i THEN k ELSE k + 1
    BY <1>2
  <2>3. m # n
    BY <1>1, <1>2, <1>3, <2>1, <2>2
  <2> QED
    BY <1>3, <2>1, <2>2, <2>3 DEF ClashIn
<1>4. ClashIn(rest, E)
  BY <1>3 DEF ClashIn
<1> QED
  BY <1>4 DEF rest

\* Nor has one with a client more whose name was free, or who may clash.
LEMMA AppendClash ==
  ASSUME NEW cs \in Seq(Client), NEW c \in Client, NEW E, ClashIn(cs, E),
         c.id \in E \/ \A i \in DOMAIN cs : cs[i].name # c.name
  PROVE  ClashIn(Append(cs, c), E)
<1> DEFINE more == Append(cs, c)
<1>1. /\ DOMAIN more = 1..(Len(cs) + 1)
      /\ \A j \in 1..Len(cs) : more[j] = cs[j]
      /\ more[Len(cs) + 1] = c
      /\ DOMAIN cs = 1..Len(cs) /\ Len(cs) \in Nat
  OBVIOUS
<1> HIDE DEF more
<1>2. \A j \in DOMAIN more : (j \in DOMAIN cs /\ more[j] = cs[j]) \/ (j = Len(cs) + 1 /\ more[j] = c)
  BY <1>1
<1>3. ClashIn(more, E)
  BY <1>2 DEF ClashIn
<1> QED
  BY <1>3 DEF more

\* Nor has one in which a client took a free name.
LEMMA RenameClash ==
  ASSUME NEW cs \in Seq(Client), Unique(cs), NEW i \in DOMAIN cs, NEW name \in Name,
         NEW E, ClashIn(cs, E), ~NameTaken(cs, cs[i].id, name)
  PROVE  ClashIn([cs EXCEPT ![i] = [id |-> cs[i].id, name |-> name]], E)
<1> DEFINE client == [id |-> cs[i].id, name |-> name]
           new    == [cs EXCEPT ![i] = client]
<1>1. client.id = cs[i].id /\ client.name = name
  OBVIOUS
<1> HIDE DEF client
<1>2. /\ DOMAIN new = DOMAIN cs
      /\ \A j \in DOMAIN cs : new[j] = IF j = i THEN client ELSE cs[j]
  OBVIOUS
<1> HIDE DEF new
<1>3. \A j \in DOMAIN cs \ {i} : cs[j].name # name
  BY DEF NameTaken, Unique
<1>4. ClashIn(new, E)
  BY <1>1, <1>2, <1>3 DEF ClashIn
<1> QED
  BY <1>4 DEF new, client

\* An edit brings two clients of one name together only when it restores one.
LEMMA EditClash ==
  ASSUME NEW a \in EditRequest, NEW c, NEW E, a.op = "enable" => c \in Client /\ c.id \in E,
         NEW f \in Config, Unique(f.clients), ClashIn(f.clients, E), NEW g \in Edit(a, c, f)
  PROVE  ClashIn(g.clients, E)
<1>0. f.clients \in Seq(Client)
  BY DEF Config
<1>1. CASE a.op = "create"
  <2> DEFINE new == [id |-> a.id, name |-> a.name]
  <2>1. new \in Client /\ new.name = a.name
    BY <1>1 DEF EditRequest, Client
  <2>2. /\ g.clients = Append(f.clients, new)
        /\ \A i \in DOMAIN f.clients : f.clients[i].name # a.name
    BY <1>1 DEF Edit, AddClient, Config
  <2> HIDE DEF new
  <2> QED
    BY <1>0, <2>1, <2>2, AppendClash
<1>2. CASE a.op = "patch"
  <2>1. a.name \in Name
    BY <1>2 DEF EditRequest
  <2>2. PICK i \in First(f.clients, a.id) :
           /\ g = [f EXCEPT !.clients[i] = [id |-> a.id, name |-> a.name]]
           /\ ~NameTaken(f.clients, a.id, a.name)
    BY <1>2 DEF Edit, Rename
  <2>3. i \in DOMAIN f.clients /\ f.clients[i].id = a.id
    BY FirstInDomain
  <2>4. g.clients = [f.clients EXCEPT ![i] = [id |-> f.clients[i].id, name |-> a.name]]
    BY <2>2, <2>3 DEF Config
  <2> QED
    BY <1>0, <2>1, <2>2, <2>3, <2>4, RenameClash
<1>3. ASSUME NEW id, g \in RemoveClient(f, id)
      PROVE  ClashIn(g.clients, E)
  <2>1. PICK i \in First(f.clients, id) :
           g = [f EXCEPT !.clients = RemoveAt(f.clients, i)]
    BY <1>3 DEF RemoveClient
  <2>2. g.clients = RemoveAt(f.clients, i) /\ i \in DOMAIN f.clients
    BY <2>1, FirstInDomain DEF Config
  <2> QED
    BY <1>0, <2>2, RemoveClash
<1>4. CASE a.op = "delete"
  <2>1. g \in RemoveClient(f, a.id) \/ g = f
    BY <1>4 DEF Edit, DeleteClient
  <2> QED
    BY <1>3, <2>1
<1>5. CASE a.op = "disable"
  BY <1>3, <1>5 DEF Edit
<1>6. CASE a.op = "enable"
  <2>1. g.clients = Append(f.clients, c)
    BY <1>6 DEF Edit, RestoreClient, Config
  <2> QED
    BY <1>0, <1>6, <2>1, AppendClash
<1>7. CASE a.op = "reality"
  BY <1>7 DEF Edit, PatchReality, Config
<1> QED
  BY <1>1, <1>2, <1>4, <1>5, <1>6, <1>7 DEF EditRequest

\* The UUIDs somebody asked to enable.
EnableAsked == {id \in Id : \E r \in Req : arg[r].op = "enable" /\ arg[r].id = id}

Clash == ClashIn(file.clients, EnableAsked)

\* Only an enable brings two clients of one name together.
LEMMA ClashStep ==
  ASSUME IInv, Asked, Clash, [Next]_vars
  PROVE  Clash'
<1>0. TypeOK /\ Carry /\ Locking /\ UniqueInv
  BY DEF IInv
<1>1. EnableAsked \subseteq EnableAsked'
  <2>1. ASSUME NEW r \in Req PROVE arg[r].op # "none" => arg'[r] = arg[r]
    <3>1. CASE arg' = arg
      BY <3>1
    <3>2. CASE \E q \in Req : Arrive(q)
      <4>1. PICK q \in Req, a \in Request : pc[q] = "new" /\ arg' = [arg EXCEPT ![q] = a]
        BY <3>2 DEF Arrive
      <4> QED
        BY <1>0, <4>1 DEF Asked, TypeOK
    <3> QED
      BY <3>1, <3>2 DEF Next, Step, Terminated, vars, Lock, ReadEdit, EditRefused, Backup,
         Commit, ConfigIOFails, TestPasses, TestFails, InitRestart, InitRestartFails, RemoveRead,
         RemoveWrite, AddRead, AddWrite, StoreIOFails, ServiceTest, ServiceAction,
         ServiceActionFails, Crash
  <2> QED
    BY <2>1 DEF EnableAsked
<1>2. CASE file' = file
  BY <1>1, <1>2 DEF Clash, ClashIn
<1>3. CASE file' # file
  <2>1. PICK r \in Req : Commit(r)
    BY <1>3, FileChange
  <2>2. /\ arg[r] \in EditRequest /\ (arg[r].op = "enable" => held[r] \in Client)
        /\ file' \in Edit(arg[r], held[r], file)
        /\ file \in Config /\ Unique(file.clients)
    BY <1>0, <2>1 DEF Commit, Carry, Locking, SnapCurrent, TypeOK, UniqueInv, IdsUnique
  <2>3. arg[r].op = "enable" => held[r].id \in EnableAsked
    BY <2>2, PanelAssumption DEF Asked, EnableAsked, Client
  <2>4. ClashIn(file'.clients, EnableAsked)
    BY <2>2, <2>3, EditClash DEF Clash
  <2> QED
    BY <1>1, <2>4 DEF Clash, ClashIn
<1> QED
  BY <1>2, <1>3

\* From a config in which names differ: whatever runs at once, two live clients
\* share a name only when somebody asked to enable one of them.
THEOREM NamesClashOnlyByEnable ==
  ASSUME \A i, j \in DOMAIN InitFile.clients :
           i # j => InitFile.clients[i].name # InitFile.clients[j].name
  PROVE  Spec => []NameClashOnlyByEnable
<1>1. Init => Clash
  BY DEF Init, Clash, ClashIn
<1>2. KeyInv => Asked
  BY DEF KeyInv
<1>3. Clash => NameClashOnlyByEnable
  BY DEF Clash, ClashIn, EnableAsked, NameClashOnlyByEnable
<1> QED
  BY <1>1, <1>2, <1>3, ClashStep, Invariant, KeyInvariant, PTL DEF Spec

=============================================================================
