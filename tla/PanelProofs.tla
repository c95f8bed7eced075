----------------------------- MODULE PanelProofs -----------------------------
(***************************************************************************)
(* Theorems about Panel, for any set of requests, of clients and of        *)
(* faults.  The argument: writeMu makes a request the only one between its *)
(* read of the config and the end of its restart (Mutex), so what it is    *)
(* about to write is an edit of what the file holds (SnapCurrent), .bak is *)
(* the file (BackupHeld) and a test that passed still holds (Tested).      *)
(* UUIDs stay apart because the one a create drew is in no file until it   *)
(* is written (BornInv) and every list is checked before it is extended    *)
(* (UniqueInv).                                                            *)
(***************************************************************************)
EXTENDS Panel, SequenceTheorems, TLAPS

-----------------------------------------------------------------------------
(* The edits of XrayConfig: they yield configs, bring in no UUID but their *)
(* own, and keep UUIDs apart.  Lists of clients first.                     *)

\* The position the search of a client list stops at is a position of it.
LEMMA FirstInDomain ==
  ASSUME NEW cs, NEW id, NEW i \in First(cs, id)
  PROVE  i \in DOMAIN cs /\ cs[i].id = id
BY DEF First

\* Cutting one element out of a list: what the result's elements are.
LEMMA RemoveAtElements ==
  ASSUME NEW cs \in Seq(Client), NEW i \in DOMAIN cs
  PROVE  /\ RemoveAt(cs, i) \in Seq(Client)
         /\ Len(RemoveAt(cs, i)) = Len(cs) - 1
         /\ \A j \in DOMAIN RemoveAt(cs, i) :
              /\ j \in 1..(Len(cs) - 1)
              /\ RemoveAt(cs, i)[j] = IF j < i THEN cs[j] ELSE cs[j + 1]
<1> DEFINE left  == SubSeq(cs, 1, i - 1)
           right == SubSeq(cs, i + 1, Len(cs))
<1>1. i \in 1..Len(cs) /\ Len(cs) \in Nat
  OBVIOUS
<1>2. /\ left \in Seq(Client)
      /\ Len(left) = i - 1
      /\ \A j \in 1..(i - 1) : left[j] = cs[j]
  BY <1>1
<1>3. /\ right \in Seq(Client)
      /\ Len(right) = Len(cs) - i
      /\ \A j \in 1..(Len(cs) - i) : right[j] = cs[i + j]
  BY <1>1
<1>r. RemoveAt(cs, i) = left \o right
  BY DEF RemoveAt
<1> HIDE DEF left, right
<1>4. /\ left \o right \in Seq(Client)
      /\ Len(left \o right) = Len(left) + Len(right)
      /\ \A j \in 1..(Len(left) + Len(right)) :
           (left \o right)[j] = IF j <= Len(left) THEN left[j] ELSE right[j - Len(left)]
  BY <1>2, <1>3, ConcatProperties
<1>5. /\ Len(left) + Len(right) = Len(cs) - 1
      /\ Len(left) = i - 1
  BY <1>1, <1>2, <1>3
<1>6. ASSUME NEW j \in 1..(Len(cs) - 1)
      PROVE  (left \o right)[j] = IF j < i THEN cs[j] ELSE cs[j + 1]
  <2>1. CASE j < i
    <3>1. j \in 1..(i - 1)
      BY <1>1, <1>6, <2>1
    <3>2. (left \o right)[j] = left[j] /\ left[j] = cs[j]
      BY <1>2, <1>4, <1>5, <3>1, <1>6, <1>1
    <3> QED
      BY <2>1, <3>2
  <2>2. CASE ~(j < i)
    <3>1. j - (i - 1) \in 1..(Len(cs) - i) /\ i + (j - (i - 1)) = j + 1
      BY <1>1, <1>6, <2>2
    <3>2. (left \o right)[j] = right[j - (i - 1)]
      <4>1. ~(j <= Len(left)) /\ j \in 1..(Len(left) + Len(right))
        BY <1>1, <1>2, <1>5, <1>6, <2>2
      <4> QED
        BY <4>1, <1>2, <1>4
    <3>3. right[j - (i - 1)] = cs[i + (j - (i - 1))]
      BY <1>3, <3>1
    <3> QED
      BY <2>2, <3>1, <3>2, <3>3
  <2> QED
    BY <2>1, <2>2
<1>7. DOMAIN (left \o right) = 1..(Len(cs) - 1)
  <2>1. DOMAIN (left \o right) = 1..Len(left \o right)
    BY <1>4
  <2> QED
    BY <2>1, <1>4, <1>5
<1> QED
  BY <1>r, <1>4, <1>5, <1>6, <1>7

\* Removing a client brings in no UUID and keeps UUIDs apart.
LEMMA RemoveAtIds ==
  ASSUME NEW cs \in Seq(Client), NEW i \in DOMAIN cs
  PROVE  /\ Ids(RemoveAt(cs, i)) \subseteq Ids(cs)
         /\ Unique(cs) => Unique(RemoveAt(cs, i))
<1> DEFINE rest == RemoveAt(cs, i)
<1>1. \A j \in DOMAIN rest :
        \E k \in DOMAIN cs : rest[j] = cs[k] /\ k = IF j < i THEN j ELSE j + 1
  BY RemoveAtElements
<1>2. Ids(rest) \subseteq Ids(cs)
  BY <1>1 DEF Ids
<1>3. ASSUME Unique(cs), NEW j \in DOMAIN rest, NEW k \in DOMAIN rest,
             rest[j].id = rest[k].id
      PROVE  j = k
  <2>1. PICK m \in DOMAIN cs : rest[j] = cs[m] /\ m = IF j < i THEN j ELSE j + 1
    BY <1>1
  <2>2. PICK n \in DOMAIN cs : rest[k] = cs[n] /\ n = IF k < i THEN k ELSE k + 1
    BY <1>1
  <2>3. m = n
    BY <1>3, <2>1, <2>2 DEF Unique
  <2>4. j \in Nat /\ k \in Nat /\ i \in Nat
    <3>1. rest \in Seq(Client)
      BY RemoveAtElements
    <3> HIDE DEF rest
    <3>2. DOMAIN rest = 1..Len(rest) /\ DOMAIN cs = 1..Len(cs)
      BY <3>1
    <3> QED
      BY <3>2, <1>3
  <2> QED
    BY <2>1, <2>2, <2>3, <2>4
<1> QED
  BY <1>2, <1>3 DEF Unique

\* Adding a client adds its UUID, and keeps UUIDs apart if it is a new one.
LEMMA AppendIds ==
  ASSUME NEW cs \in Seq(Client), NEW c \in Client
  PROVE  /\ Append(cs, c) \in Seq(Client)
         /\ Ids(Append(cs, c)) = Ids(cs) \cup {c.id}
         /\ Unique(cs) /\ c.id \notin Ids(cs) => Unique(Append(cs, c))
<1> DEFINE more == Append(cs, c)
<1>1. /\ more \in Seq(Client)
      /\ DOMAIN more = 1..(Len(cs) + 1)
      /\ \A j \in 1..Len(cs) : more[j] = cs[j]
      /\ more[Len(cs) + 1] = c
      /\ DOMAIN cs = 1..Len(cs) /\ Len(cs) \in Nat
  OBVIOUS
<1>2. Ids(more) = Ids(cs) \cup {c.id}
  BY <1>1 DEF Ids
<1>3. Unique(cs) /\ c.id \notin Ids(cs) => Unique(more)
  BY <1>1 DEF Ids, Unique
<1> QED
  BY <1>1, <1>2, <1>3

\* Renaming a client touches no UUID.
LEMMA RenameIds ==
  ASSUME NEW cs \in Seq(Client), NEW i \in DOMAIN cs, NEW name \in Name
  PROVE  LET new == [cs EXCEPT ![i] = [id |-> cs[i].id, name |-> name]]
         IN  /\ new \in Seq(Client)
             /\ Ids(new) = Ids(cs)
             /\ Unique(cs) => Unique(new)
<1> DEFINE client == [id |-> cs[i].id, name |-> name]
           new    == [cs EXCEPT ![i] = client]
<1>1. cs[i] \in Client
  OBVIOUS
<1>2. client \in Client /\ client.id = cs[i].id
  BY <1>1 DEF Client
<1> HIDE DEF client
<1>3. /\ new \in Seq(Client)
      /\ DOMAIN new = DOMAIN cs
      /\ \A j \in DOMAIN cs : new[j] = IF j = i THEN client ELSE cs[j]
  BY <1>2
<1>4. \A j \in DOMAIN cs : new[j].id = cs[j].id
  BY <1>2, <1>3
<1>5. Ids(new) = Ids(cs) /\ (Unique(cs) => Unique(new))
  BY <1>3, <1>4 DEF Ids, Unique
<1> QED
  BY <1>3, <1>5 DEF client

-----------------------------------------------------------------------------
(* Configs.                                                                *)

\* An edit's result is a config; it holds no UUIDs but those of the config it
\* was applied to, the one a create drew or the one an enable restores; and
\* it keeps UUIDs apart when the create's UUID is new.
LEMMA EditResult ==
  ASSUME NEW a \in EditRequest, NEW c, a.op = "enable" => c \in Client,
         NEW f \in Config, NEW g \in Edit(a, c, f)
  PROVE  /\ g \in Config
         /\ Ids(g.clients) \subseteq
              Ids(f.clients) \cup (IF a.op = "create" THEN {a.id} ELSE {})
                             \cup (IF a.op = "enable" THEN {c.id} ELSE {})
         /\ /\ Unique(f.clients)
            /\ a.op = "create" => a.id \notin Ids(f.clients)
            => Unique(g.clients)
<1>0. f.clients \in Seq(Client) /\ f.reality \in {"good", "bad"}
  BY DEF Config
<1>1. CASE a.op = "create"
  <2>1. a.id \in Id /\ a.name \in Name
    BY <1>1 DEF EditRequest
  <2>2. g = [f EXCEPT !.clients = Append(f.clients, [id |-> a.id, name |-> a.name])]
    BY <1>1 DEF Edit, AddClient
  <2>3. [id |-> a.id, name |-> a.name] \in Client
    BY <2>1 DEF Client
  <2> QED
    BY <1>0, <1>1, <2>2, <2>3, AppendIds DEF Config
<1>2. CASE a.op = "patch"
  <2>1. a.name \in Name
    BY <1>2 DEF EditRequest
  <2>2. PICK i \in First(f.clients, a.id) :
           g = [f EXCEPT !.clients[i] = [id |-> a.id, name |-> a.name]]
    BY <1>2 DEF Edit, Rename
  <2>3. i \in DOMAIN f.clients /\ f.clients[i].id = a.id
    BY FirstInDomain
  <2>4. g = [f EXCEPT !.clients =
               [f.clients EXCEPT ![i] = [id |-> f.clients[i].id, name |-> a.name]]]
    BY <2>2, <2>3
  <2> DEFINE new == [f.clients EXCEPT ![i] = [id |-> f.clients[i].id, name |-> a.name]]
  <2>5. /\ new \in Seq(Client)
        /\ Ids(new) = Ids(f.clients)
        /\ Unique(f.clients) => Unique(new)
    BY <1>0, <2>1, <2>3, RenameIds
  <2> HIDE DEF new
  <2>6. g = [f EXCEPT !.clients = new]
    BY <2>4 DEF new
  <2> QED
    BY <1>0, <1>2, <2>5, <2>6 DEF Config
<1>3. ASSUME NEW id, g \in RemoveClient(f, id)
      PROVE  /\ g \in Config
             /\ Ids(g.clients) \subseteq Ids(f.clients)
             /\ Unique(f.clients) => Unique(g.clients)
  <2>1. PICK i \in First(f.clients, id) :
           g = [f EXCEPT !.clients = RemoveAt(f.clients, i)]
    BY <1>3 DEF RemoveClient
  <2>2. i \in DOMAIN f.clients
    BY FirstInDomain
  <2> QED
    BY <1>0, <2>1, <2>2, RemoveAtElements, RemoveAtIds DEF Config
<1>4. CASE a.op = "delete"
  <2>1. g \in RemoveClient(f, a.id) \/ g = f
    BY <1>4 DEF Edit, DeleteClient
  <2> QED
    BY <1>3, <1>4, <2>1
<1>5. CASE a.op = "disable"
  <2>1. g \in RemoveClient(f, a.id)
    BY <1>5 DEF Edit
  <2> QED
    BY <1>3, <1>5, <2>1
<1>6. CASE a.op = "enable"
  <2>1. /\ c.id \notin Ids(f.clients)
        /\ g = [f EXCEPT !.clients = Append(f.clients, c)]
    BY <1>6 DEF Edit, RestoreClient
  <2> QED
    BY <1>0, <1>6, <2>1, AppendIds DEF Config
<1>7. CASE a.op = "reality"
  <2>1. a.block \in {"good", "bad"} /\ g = [f EXCEPT !.reality = a.block]
    BY <1>7 DEF Edit, PatchReality, EditRequest
  <2> QED
    BY <1>0, <1>7, <2>1 DEF Config
<1> QED
  BY <1>1, <1>2, <1>4, <1>5, <1>6, <1>7 DEF EditRequest

-----------------------------------------------------------------------------
(* The inductive invariant.                                                *)

\* What a request carries fits the step it is about to take.
Carry ==
  \A r \in Req :
    /\ pc[r] \in {"lock", "read", "backup", "rename", "test", "restart",
                  "removeRead", "removeWrite", "addRead", "addWrite"}
         => arg[r] \in EditRequest
    /\ pc[r] \in {"removeRead", "removeWrite"} => arg[r].op \in {"delete", "enable"}
    /\ pc[r] \in {"lock", "read", "backup", "rename", "test", "restart"}
         /\ arg[r].op = "enable" => held[r] \in Client
    /\ pc[r] \in {"backup", "rename", "test", "restart"}
         /\ arg[r].op = "disable" => held[r] \in Client
    /\ pc[r] \in {"addRead", "addWrite"} => held[r] \in Client
    /\ pc[r] \in {"backup", "rename"} => snap[r] \in Config
    /\ pc[r] \in {"svcTest", "svcAction"} => arg[r].op \in ServiceOps

\* The part of TypeOK about what a request carries.
LocalsOK ==
  /\ pc \in [Req -> Steps]
  /\ snap \in [Req -> Config \cup {None}]
  /\ held \in [Req -> Client \cup {None}]
  /\ seen \in [Req -> Seq(Client)]
  /\ answer \in [Req -> Answers]

\* Whoever is between Lock and Return holds writeMu.
Mutex == \A r \in Req : pc[r] \in Critical <=> writeMu = r

\* The config about to be written is an edit of the one on disk.
SnapCurrent ==
  \A r \in Req :
    pc[r] \in {"backup", "rename"} => snap[r] \in Edit(arg[r], held[r], file)

BackupHeld == \A r \in Req : pc[r] = "rename" => bak = file

Tested == RestartOnlyTested

\* Every UUID in use is born; the one a create drew is not until it is written.
BornInv ==
  /\ Ids(file.clients) \cup Ids(store) \subseteq born
  /\ \A r \in Req : Ids(seen[r]) \subseteq born
  /\ \A r \in Req : held[r] \in Client => held[r].id \in born
  /\ \A r \in Req :
       pc[r] \in {"lock", "read", "backup", "rename"} /\ arg[r].op = "create" =>
         /\ arg[r].id \notin born
         /\ \A q \in Req : q # r /\ arg[q].op = "create" => arg[q].id # arg[r].id

\* No list holds a UUID twice, and none is about to.
UniqueInv ==
  /\ IdsUnique
  /\ \A r \in Req : Unique(seen[r])
  /\ \A r \in Req : pc[r] = "addWrite" => held[r].id \notin Ids(seen[r])

Locking == Mutex /\ SnapCurrent /\ BackupHeld /\ Tested

IInv == TypeOK /\ Carry /\ Locking /\ BornInv /\ UniqueInv

-----------------------------------------------------------------------------
(* Types, and what a request carries.                                      *)

\* The UUIDs of a list of clients are UUIDs.
LEMMA IdsAreIds ==
  ASSUME NEW cs \in Seq(Client)
  PROVE  Ids(cs) \subseteq Id
<1>1. \A i \in DOMAIN cs : cs[i] \in Client
  OBVIOUS
<1>2. \A c \in Client : c.id \in Id
  BY DEF Client
<1> QED
  BY <1>1, <1>2 DEF Ids

\* A request that is answered carries nothing.
LEMMA FinishTypes ==
  ASSUME TypeOK, Carry, NEW r \in Req, NEW outcome \in Answers,
         Finish(r, outcome), arg' = arg
  PROVE  LocalsOK' /\ Carry'
<1> USE DEF TypeOK, Finish, Goto, Steps
<1>1. LocalsOK'
  BY DEF LocalsOK
<1>2. pc'[r] = "done" /\ \A q \in Req \ {r} : pc'[q] = pc[q] /\ snap'[q] = snap[q] /\ held'[q] = held[q]
  OBVIOUS
<1>3. Carry'
  BY <1>2 DEF Carry
<1> QED
  BY <1>1, <1>3

\* What a request still carries when mutateConfig has returned.
LEMMA AfterMutateTypes ==
  ASSUME TypeOK, Carry, NEW r \in Req, NEW outcome \in Answers,
         pc[r] \in Critical, outcome = "ok" => pc[r] = "restart",
         AfterMutate(r, outcome), arg' = arg
  PROVE  LocalsOK' /\ Carry'
<1>1. CASE Finish(r, outcome)
  BY <1>1, FinishTypes
<1>2. CASE ~Finish(r, outcome)
  <2>1. PICK next \in {"addRead", "removeRead"} :
          /\ Goto(r, next)
          /\ snap' = [snap EXCEPT ![r] = None]
          /\ UNCHANGED <<held, seen, answer>>
          /\ \/ next = "addRead" /\ arg[r].op = "disable" /\ outcome = "ok"
             \/ next = "removeRead" /\ arg[r].op = "delete"
             \/ next = "addRead" /\ arg[r].op = "enable"
    BY <1>2 DEF AfterMutate
  <2>2. LocalsOK'
    BY <2>1 DEF LocalsOK, TypeOK, Goto, Steps
  <2>3. /\ pc'[r] = next
        /\ \A q \in Req \ {r} : pc'[q] = pc[q] /\ snap'[q] = snap[q]
    BY <2>1 DEF TypeOK, Goto
  <2>4. arg[r] \in EditRequest /\ (next = "addRead" => held[r] \in Client)
    BY <2>1 DEF Carry, Critical
  <2>5. Carry'
    BY <2>1, <2>3, <2>4 DEF Carry
  <2> QED
    BY <2>2, <2>5
<1> QED
  BY <1>1, <1>2

\* Every step of every request, and a crash, keeps the types.
LEMMA TypeStep ==
  ASSUME TypeOK, Carry, [Next]_vars
  PROVE  TypeOK' /\ Carry'
<1> USE PanelAssumption
<1>1. ASSUME NEW r \in Req, Arrive(r)
      PROVE  TypeOK' /\ Carry'
  BY <1>1 DEF Arrive, FirstStep, Request, EditRequest, ServiceOps, ClientOps,
              TypeOK, Carry, Goto, Steps, files
<1>2. ASSUME NEW r \in Req, Lock(r) \/ Backup(r) \/ TestPasses(r)
      PROVE  TypeOK' /\ Carry'
  <2>1. PICK s \in {"read", "rename", "restart"} :
          /\ Goto(r, s) /\ UNCHANGED <<file, store, xray, arg, snap, held, seen, answer, born, raced>>
          /\ \/ s = "read" /\ pc[r] = "lock"
             \/ s = "rename" /\ pc[r] = "backup"
             \/ s = "restart" /\ pc[r] = "test"
    BY <1>2 DEF Lock, Backup, TestPasses, files
  <2>2. bak' \in Config \cup {None} /\ writeMu' \in Req \cup {None}
    BY <1>2 DEF Lock, Backup, TestPasses, TypeOK, files
  <2>3. TypeOK'
    BY <2>1, <2>2 DEF TypeOK, Goto, Steps
  <2>4. pc'[r] = s /\ \A q \in Req \ {r} : pc'[q] = pc[q]
    BY <2>1 DEF TypeOK, Goto
  <2>5. Carry'
    BY <2>1, <2>4 DEF Carry
  <2> QED
    BY <2>3, <2>5
<1>3. ASSUME NEW r \in Req, ReadEdit(r)
      PROVE  TypeOK' /\ Carry'
  <2>1. PICK f \in Edit(arg[r], held[r], file) :
          snap' = [snap EXCEPT ![r] = f] /\ Goto(r, "backup")
    BY <1>3 DEF ReadEdit
  <2>2. arg[r] \in EditRequest /\ (arg[r].op = "enable" => held[r] \in Client)
    BY <1>3 DEF ReadEdit, Carry
  <2>3. f \in Config
    BY <2>2, EditResult DEF TypeOK
  <2>4. /\ held' \in [Req -> Client \cup {None}]
        /\ arg[r].op = "disable" => held'[r] \in Client
        /\ arg[r].op # "disable" => held'[r] = held[r]
        /\ \A q \in Req \ {r} : held'[q] = held[q]
    <3>1. ASSUME NEW i \in First(file.clients, arg[r].id)
          PROVE  file.clients[i] \in Client
      <4>1. file.clients \in Seq(Client) /\ i \in DOMAIN file.clients
        BY FirstInDomain DEF TypeOK, Config
      <4> QED
        BY <4>1
    <3> QED
      BY <1>3, <3>1 DEF ReadEdit, TypeOK
  <2>5. /\ pc'[r] = "backup" /\ snap'[r] = f
        /\ \A q \in Req \ {r} : pc'[q] = pc[q] /\ snap'[q] = snap[q]
    BY <2>1 DEF TypeOK, Goto
  <2>6. TypeOK'
    BY <1>3, <2>1, <2>3, <2>4 DEF ReadEdit, TypeOK, Goto, Steps, files
  <2>7. arg' = arg
    BY <1>3 DEF ReadEdit
  <2>8. Carry'
    BY <2>2, <2>3, <2>4, <2>5, <2>7 DEF Carry
  <2> QED
    BY <2>6, <2>8
<1>4. ASSUME NEW r \in Req, Commit(r)
      PROVE  TypeOK' /\ Carry'
  <2>1. snap[r] \in Config
    BY <1>4 DEF Commit, Carry
  <2>2. Ids(snap[r].clients) \subseteq Id
    BY <2>1, IdsAreIds DEF Config
  <2> QED
    BY <1>4, <2>1, <2>2 DEF Commit, TypeOK, Carry, Goto, Steps
<1>5. ASSUME NEW r \in Req,
             EditRefused(r) \/ ConfigIOFails(r) \/ TestFails(r)
               \/ InitRestart(r) \/ InitRestartFails(r)
      PROVE  TypeOK' /\ Carry'
  <2>1. PICK outcome \in Answers :
          /\ Return(r, outcome) /\ (outcome = "ok" => pc[r] = "restart")
          /\ pc[r] \in Critical
          /\ UNCHANGED <<file, store, arg, born, raced>>
    BY <1>5 DEF EditRefused, ConfigIOFails, TestFails, InitRestart, InitRestartFails,
                Answers, Critical, files
  <2>2. LocalsOK' /\ Carry'
    BY <2>1, AfterMutateTypes DEF Return
  <2>3. bak' \in Config \cup {None} /\ xray' \in Config \cup {None}
    BY <1>5 DEF EditRefused, ConfigIOFails, TestFails, InitRestart, InitRestartFails,
                Loaded, TypeOK, files
  <2> QED
    BY <2>1, <2>2, <2>3 DEF TypeOK, LocalsOK, Return
<1>6. ASSUME NEW r \in Req,
             StoreIOFails(r) \/ ServiceAction(r) \/ ServiceActionFails(r) \/ AddWrite(r)
      PROVE  TypeOK' /\ Carry'
  <2>1. PICK outcome \in Answers :
          Finish(r, outcome) /\ UNCHANGED <<file, bak, writeMu, arg, born, raced>>
    <3>1. {"ok", "error"} \subseteq Answers
      BY DEF Answers
    <3> QED
      BY <1>6, <3>1 DEF StoreIOFails, ServiceAction, ServiceActionFails, AddWrite, files
  <2>2. LocalsOK' /\ Carry'
    BY <2>1, FinishTypes
  <2>3. xray' \in Config \cup {None}
    BY <1>6 DEF StoreIOFails, ServiceAction, ServiceActionFails, AddWrite,
                Loaded, TypeOK, files, Carry, ServiceOps
  <2>4. store' \in Seq(Client)
    <3>1. CASE AddWrite(r)
      <4>1. seen[r] \in Seq(Client) /\ held[r] \in Client
        BY <3>1 DEF AddWrite, TypeOK, Carry
      <4> QED
        BY <3>1, <4>1, AppendIds DEF AddWrite, Added
    <3> QED
      BY <1>6, <3>1 DEF StoreIOFails, ServiceAction, ServiceActionFails, TypeOK, files
  <2> QED
    BY <2>1, <2>2, <2>3, <2>4 DEF TypeOK, LocalsOK
<1>7. ASSUME NEW r \in Req, RemoveRead(r) \/ AddRead(r) \/ ServiceTest(r)
      PROVE  TypeOK' /\ Carry'
  <2>1. UNCHANGED <<files, writeMu, arg, born, raced>>
    BY <1>7 DEF RemoveRead, AddRead, ServiceTest
  <2>2. CASE \E outcome \in Answers : Finish(r, outcome)
    <3>1. LocalsOK' /\ Carry'
      BY <2>1, <2>2, FinishTypes
    <3> QED
      BY <2>1, <3>1 DEF TypeOK, LocalsOK, files
  <2>3. CASE ~\E outcome \in Answers : Finish(r, outcome)
    <3>1. PICK s \in {"removeWrite", "addWrite", "svcAction"} :
            /\ Goto(r, s)
            /\ seen' \in {seen, [seen EXCEPT ![r] = store]}
            /\ UNCHANGED <<snap, held, answer>>
            /\ \/ s = "removeWrite" /\ pc[r] = "removeRead"
               \/ s = "addWrite" /\ pc[r] = "addRead"
               \/ s = "svcAction" /\ pc[r] = "svcTest"
      BY <1>7, <2>3 DEF RemoveRead, AddRead, ServiceTest, Answers
    <3>2. TypeOK'
      <4>1. UNCHANGED <<file, bak, store, xray, writeMu, arg, snap, held, answer, born, raced>>
        BY <2>1, <3>1 DEF files
      <4>2. pc' \in [Req -> Steps] /\ seen' \in [Req -> Seq(Client)]
        <5>1. pc \in [Req -> Steps] /\ seen \in [Req -> Seq(Client)] /\ store \in Seq(Client)
          BY DEF TypeOK
        <5> QED
          BY <3>1, <5>1 DEF Goto, Steps
      <4> QED
        BY <4>1, <4>2 DEF TypeOK
    <3>3. pc'[r] = s /\ \A q \in Req \ {r} : pc'[q] = pc[q]
      BY <3>1 DEF TypeOK, Goto
    <3>4. Carry'
      BY <2>1, <3>1, <3>3 DEF Carry
    <3> QED
      BY <3>2, <3>4
  <2> QED
    BY <2>2, <2>3
<1>8. ASSUME NEW r \in Req, RemoveWrite(r)
      PROVE  TypeOK' /\ Carry'
  <2>1. PICK i \in First(seen[r], arg[r].id) :
          /\ store' = RemoveAt(seen[r], i)
          /\ \/ /\ held' = [held EXCEPT ![r] = seen[r][i]]
                /\ seen' = [seen EXCEPT ![r] = <<>>]
                /\ Goto(r, "lock")
                /\ UNCHANGED <<snap, answer>>
             \/ Finish(r, "ok")
    BY <1>8 DEF RemoveWrite, Rest, Removed
  <2>2. seen[r] \in Seq(Client) /\ i \in DOMAIN seen[r]
    BY FirstInDomain DEF TypeOK
  <2>3. store' \in Seq(Client) /\ seen[r][i] \in Client
    BY <2>1, <2>2, RemoveAtElements
  <2>4. UNCHANGED <<file, bak, xray, writeMu, arg, born, raced>> /\ arg[r] \in EditRequest
    BY <1>8 DEF RemoveWrite, Carry
  <2>5. CASE Finish(r, "ok")
    <3>1. LocalsOK' /\ Carry'
      BY <2>4, <2>5, FinishTypes DEF Answers
    <3> QED
      BY <2>3, <2>4, <3>1 DEF TypeOK, LocalsOK
  <2>6. CASE ~Finish(r, "ok")
    <3>1. /\ held' = [held EXCEPT ![r] = seen[r][i]]
          /\ seen' = [seen EXCEPT ![r] = <<>>]
          /\ pc' = [pc EXCEPT ![r] = "lock"]
          /\ UNCHANGED <<snap, answer>>
      BY <2>1, <2>6 DEF Goto
    <3>2. TypeOK'
      BY <2>3, <2>4, <3>1 DEF TypeOK, Steps
    <3>3. /\ pc'[r] = "lock" /\ held'[r] \in Client
          /\ \A q \in Req \ {r} : pc'[q] = pc[q] /\ held'[q] = held[q]
      BY <2>3, <3>1 DEF TypeOK
    <3>4. Carry'
      BY <2>4, <3>1, <3>3 DEF Carry
    <3> QED
      BY <3>2, <3>4
  <2> QED
    BY <2>5, <2>6
<1>9. CASE Crash
  BY <1>9 DEF Crash, InFlight, Loaded, TypeOK, Carry, Steps, Answers
<1>10. CASE UNCHANGED vars
  BY <1>10 DEF vars, TypeOK, Carry
<1> QED
  BY <1>1, <1>2, <1>3, <1>4, <1>5, <1>6, <1>7, <1>8, <1>9, <1>10 DEF Next, Step, Terminated

-----------------------------------------------------------------------------
(* writeMu, and what it protects.                                          *)

\* How a step of r leaves the other requests alone.
OthersKept(r) ==
  \A q \in Req \ {r} :
    pc'[q] = pc[q] /\ snap'[q] = snap[q] /\ held'[q] = held[q] /\ arg'[q] = arg[q]

\* What Finish changes, it changes for the request that ends.
LEMMA FinishEffect ==
  ASSUME TypeOK, NEW r \in Req, NEW outcome, Finish(r, outcome), arg' = arg
  PROVE  /\ pc'[r] = "done" /\ snap'[r] = None /\ held'[r] = None /\ seen'[r] = <<>>
         /\ OthersKept(r)
         /\ \A q \in Req \ {r} : seen'[q] = seen[q]
BY DEF Finish, Goto, TypeOK, OthersKept

\* What follows mutateConfig changes nothing of another request and
\* leaves the critical section.
LEMMA AfterMutateEffect ==
  ASSUME TypeOK, NEW r \in Req, NEW outcome, AfterMutate(r, outcome), arg' = arg
  PROVE  /\ pc'[r] \in {"done", "addRead", "removeRead"}
         /\ OthersKept(r)
         /\ held'[r] \in {held[r], None}
         /\ seen'[r] \in {seen[r], <<>>}
         /\ \A q \in Req \ {r} : seen'[q] = seen[q]
<1>1. CASE Finish(r, outcome)
  BY <1>1, FinishEffect
<1>2. CASE ~Finish(r, outcome)
  BY <1>2 DEF AfterMutate, Goto, TypeOK, OthersKept
<1> QED
  BY <1>1, <1>2

\* A step outside the critical section.
LEMMA OutsideStep ==
  ASSUME TypeOK, Locking, NEW r \in Req,
         pc[r] \notin Critical, pc'[r] \notin Critical, OthersKept(r),
         UNCHANGED <<file, bak, writeMu>>
  PROVE  Locking'
<1>1. Mutex'
  BY DEF Locking, Mutex, OthersKept
<1>2. pc'[r] \notin {"backup", "rename", "restart"}
  BY DEF Critical
<1>3. SnapCurrent' /\ BackupHeld' /\ Tested'
  BY <1>2 DEF Locking, SnapCurrent, BackupHeld, Tested, RestartOnlyTested, OthersKept
<1> QED
  BY <1>1, <1>3 DEF Locking

\* The holder of writeMu is alone in the critical section.
LEMMA Alone ==
  ASSUME TypeOK, Mutex, NEW r \in Req, pc[r] \in Critical, NEW q \in Req \ {r}
  PROVE  pc[q] \notin Critical
BY DEF Mutex

\* A step that leaves the critical section leaves it empty.
LEMMA LeavingStep ==
  ASSUME TypeOK, Locking, NEW r \in Req, pc[r] \in Critical,
         pc'[r] \notin Critical, OthersKept(r), writeMu' = None
  PROVE  Locking'
<1>1. \A q \in Req : pc'[q] \notin Critical
  BY Alone DEF Locking, OthersKept
<1>2. Mutex'
  BY <1>1, PanelAssumption DEF Mutex
<1>3. \A q \in Req : pc'[q] \notin {"backup", "rename", "restart"}
  BY <1>1 DEF Critical
<1>4. SnapCurrent' /\ BackupHeld' /\ Tested'
  BY <1>3 DEF SnapCurrent, BackupHeld, Tested, RestartOnlyTested
<1> QED
  BY <1>2, <1>4 DEF Locking

\* A step inside the critical section disturbs nobody else.
LEMMA InsideStep ==
  ASSUME TypeOK, Locking, NEW r \in Req, pc[r] \in Critical,
         pc'[r] \in Critical, OthersKept(r), UNCHANGED writeMu,
         pc'[r] \in {"backup", "rename"} => snap'[r] \in Edit(arg'[r], held'[r], file'),
         pc'[r] = "rename" => bak' = file',
         pc'[r] = "restart" => Accepted(file')
  PROVE  Locking'
<1>1. \A q \in Req \ {r} : pc'[q] \notin {"backup", "rename", "restart"}
  BY Alone DEF Locking, OthersKept, Critical
<1>2. Mutex'
  BY DEF Locking, Mutex, OthersKept
<1>3. SnapCurrent' /\ BackupHeld' /\ Tested'
  BY <1>1 DEF SnapCurrent, BackupHeld, Tested, RestartOnlyTested
<1> QED
  BY <1>2, <1>3 DEF Locking

\* Every step keeps what the mutex guarantees: one holder, whose snapshot,
\* backup and tested config are still those of the file on disk.
LEMMA LockingStep ==
  ASSUME TypeOK, Carry, Locking, [Next]_vars
  PROVE  Locking'
<1>1. ASSUME NEW r \in Req, Arrive(r)
      PROVE  Locking'
  <2>1. /\ pc[r] = "new"
        /\ pc'[r] \in {"removeRead", "svcTest", "svcAction", "lock"}
        /\ OthersKept(r)
        /\ UNCHANGED <<file, bak, writeMu>>
    BY <1>1 DEF Arrive, FirstStep, Goto, TypeOK, OthersKept, files
  <2> QED
    BY <2>1, OutsideStep DEF Critical
<1>2. ASSUME NEW r \in Req, Lock(r)
      PROVE  Locking'
  <2>1. /\ writeMu = None /\ writeMu' = r /\ pc'[r] = "read"
        /\ \A q \in Req \ {r} : pc'[q] = pc[q]
    BY <1>2 DEF Lock, Goto, TypeOK
  <2>2. \A q \in Req : pc[q] \notin Critical
    BY <2>1, PanelAssumption DEF Locking, Mutex
  <2>3. Mutex'
    BY <2>1, <2>2 DEF Mutex, Critical
  <2>4. \A q \in Req : pc'[q] \notin {"backup", "rename", "restart"}
    BY <2>1, <2>2 DEF Critical
  <2> QED
    BY <2>3, <2>4 DEF Locking, SnapCurrent, BackupHeld, Tested, RestartOnlyTested
<1>3. ASSUME NEW r \in Req, ReadEdit(r)
      PROVE  Locking'
  <2>1. PICK f \in Edit(arg[r], held[r], file) :
          snap' = [snap EXCEPT ![r] = f] /\ Goto(r, "backup")
    BY <1>3 DEF ReadEdit
  <2>2. /\ pc[r] = "read" /\ pc'[r] = "backup" /\ snap'[r] = f
        /\ UNCHANGED <<file, arg, writeMu>>
        /\ arg[r].op # "disable" => held'[r] = held[r]
        /\ OthersKept(r)
    BY <1>3, <2>1 DEF ReadEdit, Goto, TypeOK, OthersKept, files
  <2>3. snap'[r] \in Edit(arg'[r], held'[r], file')
    <3>1. CASE arg[r].op = "disable"
      BY <2>1, <2>2, <3>1 DEF Edit
    <3>2. CASE arg[r].op # "disable"
      BY <2>1, <2>2, <3>2
    <3> QED
      BY <3>1, <3>2
  <2> QED
    BY <2>2, <2>3, InsideStep DEF Critical
<1>4. ASSUME NEW r \in Req, Backup(r)
      PROVE  Locking'
  <2>1. /\ pc[r] = "backup" /\ pc'[r] = "rename" /\ bak' = file
        /\ UNCHANGED <<file, arg, writeMu, snap, held>>
        /\ OthersKept(r)
    BY <1>4 DEF Backup, Goto, TypeOK, OthersKept
  <2>2. snap'[r] \in Edit(arg'[r], held'[r], file')
    BY <2>1 DEF Locking, SnapCurrent
  <2> QED
    BY <2>1, <2>2, InsideStep DEF Critical
<1>5. ASSUME NEW r \in Req, Commit(r)
      PROVE  Locking'
  <2>1. /\ pc[r] = "rename" /\ pc'[r] = "test" /\ UNCHANGED writeMu
        /\ OthersKept(r)
    BY <1>5 DEF Commit, Goto, TypeOK, OthersKept
  <2> QED
    BY <2>1, InsideStep DEF Critical
<1>6. ASSUME NEW r \in Req, TestPasses(r)
      PROVE  Locking'
  <2>1. /\ pc[r] = "test" /\ pc'[r] = "restart" /\ UNCHANGED <<writeMu, file>>
        /\ OthersKept(r) /\ Accepted(file')
    BY <1>6 DEF TestPasses, Goto, TypeOK, OthersKept, files, Accepted
  <2> QED
    BY <2>1, InsideStep DEF Critical
<1>7. ASSUME NEW r \in Req,
             EditRefused(r) \/ ConfigIOFails(r) \/ TestFails(r)
               \/ InitRestart(r) \/ InitRestartFails(r)
      PROVE  Locking'
  <2>1. PICK outcome : Return(r, outcome) /\ pc[r] \in Critical /\ arg' = arg
    BY <1>7 DEF EditRefused, ConfigIOFails, TestFails, InitRestart, InitRestartFails,
                Critical, files
  <2>2. pc'[r] \notin Critical /\ OthersKept(r) /\ writeMu' = None
    BY <2>1, AfterMutateEffect DEF Return, Critical
  <2> QED
    BY <2>1, <2>2, LeavingStep
<1>8. ASSUME NEW r \in Req,
             RemoveRead(r) \/ RemoveWrite(r) \/ AddRead(r) \/ AddWrite(r)
               \/ StoreIOFails(r) \/ ServiceTest(r) \/ ServiceAction(r)
               \/ ServiceActionFails(r)
      PROVE  Locking'
  <2>1. /\ pc[r] \notin Critical
        /\ UNCHANGED <<file, bak, writeMu, arg>>
    BY <1>8 DEF RemoveRead, RemoveWrite, AddRead, AddWrite, StoreIOFails, ServiceTest,
                ServiceAction, ServiceActionFails, Critical, files
  <2>2. CASE \E outcome : Finish(r, outcome)
    <3>1. pc'[r] = "done" /\ OthersKept(r)
      BY <2>1, <2>2, FinishEffect
    <3> QED
      BY <2>1, <3>1, OutsideStep DEF Critical
  <2>3. CASE ~\E outcome : Finish(r, outcome)
    <3>1. /\ \E s \in {"removeWrite", "addWrite", "svcAction", "lock"} : Goto(r, s)
          /\ snap' = snap
          /\ held' = held \/ \E c : held' = [held EXCEPT ![r] = c]
      BY <1>8, <2>3 DEF RemoveRead, RemoveWrite, AddRead, AddWrite, StoreIOFails,
                        ServiceTest, ServiceAction, ServiceActionFails
    <3>2. pc'[r] \notin Critical /\ OthersKept(r)
      BY <2>1, <3>1 DEF Goto, TypeOK, OthersKept, Critical
    <3> QED
      BY <2>1, <3>2, OutsideStep
  <2> QED
    BY <2>2, <2>3
<1>9. CASE Crash
  <2>1. writeMu' = None /\ \A q \in Req : pc'[q] \in {"new", "done"}
    BY <1>9 DEF Crash, InFlight, TypeOK
  <2>2. Mutex'
    BY <2>1, PanelAssumption DEF Mutex, Critical
  <2> QED
    BY <2>1, <2>2 DEF Locking, SnapCurrent, BackupHeld, Tested, RestartOnlyTested
<1>10. CASE UNCHANGED vars
  BY <1>10 DEF vars, Locking, Mutex, SnapCurrent, BackupHeld, Tested, RestartOnlyTested
<1> QED
  BY <1>1, <1>2, <1>3, <1>4, <1>5, <1>6, <1>7, <1>8, <1>9, <1>10 DEF Next, Step, Terminated

-----------------------------------------------------------------------------
(* UUIDs.                                                                  *)

\* The empty list holds no UUID.
LEMMA EmptyIds == Ids(<<>>) = {} /\ Unique(<<>>)
BY DEF Ids, Unique

\* A step that writes no list and picks up no client.
LEMMA QuietStep ==
  ASSUME TypeOK, BornInv, UniqueInv,
         UNCHANGED <<file, store, born, arg>>,
         \A q \in Req : /\ seen'[q] \in {seen[q], <<>>}
                        /\ held'[q] \in {held[q], None}
                        /\ pc'[q] \in {"lock", "read", "backup", "rename"}
                             => pc[q] \in {"lock", "read", "backup", "rename"}
                        /\ pc'[q] = "addWrite" =>
                             pc[q] = "addWrite" /\ held'[q] = held[q] /\ seen'[q] = seen[q]
  PROVE  BornInv' /\ UniqueInv'
<1>1. None \notin Client
  BY PanelAssumption
<1>2. \A q \in Req : held'[q] \in Client => held'[q] = held[q]
  BY <1>1
<1>3. \A q \in Req : Ids(seen'[q]) \subseteq born /\ Unique(seen'[q])
  BY EmptyIds DEF BornInv, UniqueInv
<1>4. BornInv'
  BY <1>2, <1>3 DEF BornInv
<1>5. UniqueInv'
  BY <1>3 DEF UniqueInv, IdsUnique
<1> QED
  BY <1>4, <1>5

\* Every step keeps UUIDs apart, in the config, in the disabled store and in
\* what a request is about to write or has in hand.
LEMMA IdsStep ==
  ASSUME TypeOK, Carry, Locking, BornInv, UniqueInv, [Next]_vars
  PROVE  BornInv' /\ UniqueInv'
<1>1. ASSUME NEW r \in Req, Arrive(r)
      PROVE  BornInv' /\ UniqueInv'
  <2>1. PICK a \in Request :
          /\ a.op = "create" => Fresh(a.id)
          /\ arg' = [arg EXCEPT ![r] = a]
          /\ Goto(r, FirstStep(a.op))
    BY <1>1 DEF Arrive
  <2>2. /\ UNCHANGED <<file, store, born, held, seen>>
        /\ arg'[r] = a /\ \A q \in Req \ {r} : arg'[q] = arg[q]
        /\ pc'[r] # "addWrite" /\ \A q \in Req \ {r} : pc'[q] = pc[q]
    BY <1>1, <2>1 DEF Arrive, FirstStep, Goto, TypeOK, files
  <2>3. BornInv'
    <3>1. a.op = "create" =>
            a.id \notin born /\ \A q \in Req : arg[q].op = "create" => arg[q].id # a.id
      BY <2>1 DEF Fresh
    <3> QED
      BY <2>2, <3>1 DEF BornInv
  <2>4. UniqueInv'
    BY <2>2 DEF UniqueInv, IdsUnique
  <2> QED
    BY <2>3, <2>4
<1>2. ASSUME NEW r \in Req, ReadEdit(r)
      PROVE  BornInv' /\ UniqueInv'
  <2>1. /\ UNCHANGED <<file, store, born, arg, seen>>
        /\ pc[r] = "read" /\ pc'[r] = "backup"
        /\ \A q \in Req \ {r} : pc'[q] = pc[q] /\ held'[q] = held[q]
    BY <1>2 DEF ReadEdit, Goto, TypeOK, files
  <2>2. held'[r] \in Client => held'[r].id \in born
    <3>1. CASE arg[r].op = "disable"
      <4>1. PICK i \in First(file.clients, arg[r].id) : held'[r] = file.clients[i]
        BY <1>2, <3>1 DEF ReadEdit, TypeOK
      <4>2. file.clients[i].id \in Ids(file.clients)
        BY FirstInDomain DEF Ids
      <4> QED
        BY <4>1, <4>2 DEF BornInv
    <3>2. CASE arg[r].op # "disable"
      BY <1>2, <3>2 DEF ReadEdit, BornInv
    <3> QED
      BY <3>1, <3>2
  <2>3. BornInv'
    BY <2>1, <2>2 DEF BornInv
  <2>4. UniqueInv'
    BY <2>1 DEF UniqueInv, IdsUnique
  <2> QED
    BY <2>3, <2>4
<1>3. ASSUME NEW r \in Req, Commit(r)
      PROVE  BornInv' /\ UniqueInv'
  <2>1. /\ pc[r] = "rename" /\ file' = snap[r] /\ born' = born \cup Ids(file'.clients)
        /\ UNCHANGED <<store, arg, held, seen>>
        /\ pc'[r] = "test" /\ \A q \in Req \ {r} : pc'[q] = pc[q]
    BY <1>3 DEF Commit, Goto, TypeOK
  <2>2. /\ snap[r] \in Edit(arg[r], held[r], file)
        /\ arg[r] \in EditRequest
        /\ arg[r].op = "enable" => held[r] \in Client
        /\ file \in Config
    BY <2>1 DEF Locking, SnapCurrent, Carry, TypeOK
  <2>3. /\ Ids(file'.clients) \subseteq
             Ids(file.clients) \cup (IF arg[r].op = "create" THEN {arg[r].id} ELSE {})
                              \cup (IF arg[r].op = "enable" THEN {held[r].id} ELSE {})
        /\ /\ Unique(file.clients)
           /\ arg[r].op = "create" => arg[r].id \notin Ids(file.clients)
           => Unique(file'.clients)
    BY <2>1, <2>2, EditResult
  <2>4. Ids(file'.clients) \subseteq
          born \cup (IF arg[r].op = "create" THEN {arg[r].id} ELSE {})
    BY <2>2, <2>3 DEF BornInv
  <2>5. BornInv'
    <3>1. ASSUME NEW q \in Req, arg[q].op = "create",
                 pc'[q] \in {"lock", "read", "backup", "rename"}
          PROVE  arg[q].id \notin born'
      <4>1. q # r /\ arg[q].id \notin born
        BY <2>1, <3>1 DEF BornInv
      <4>2. arg[r].op = "create" => arg[r].id # arg[q].id
        BY <2>1, <3>1, <4>1 DEF BornInv
      <4> QED
        BY <2>1, <2>4, <4>1, <4>2
    <3>2. \A q \in Req : pc'[q] \in {"lock", "read", "backup", "rename"}
                         => pc[q] \in {"lock", "read", "backup", "rename"}
      BY <2>1
    <3>3. born \subseteq born' /\ Ids(file'.clients) \subseteq born'
      BY <2>1
    <3> QED
      BY <2>1, <3>1, <3>2, <3>3 DEF BornInv
  <2>6. arg[r].op = "create" => arg[r].id \notin Ids(file.clients)
    BY <2>1 DEF BornInv
  <2>7. UniqueInv'
    BY <2>1, <2>3, <2>6 DEF UniqueInv, IdsUnique
  <2> QED
    BY <2>5, <2>7
<1>4. ASSUME NEW r \in Req, RemoveWrite(r)
      PROVE  BornInv' /\ UniqueInv'
  <2>1. PICK i \in First(seen[r], arg[r].id) :
          /\ store' = RemoveAt(seen[r], i)
          /\ \/ /\ held' = [held EXCEPT ![r] = seen[r][i]]
                /\ seen' = [seen EXCEPT ![r] = <<>>]
                /\ Goto(r, "lock")
                /\ arg[r].op = "enable"
             \/ Finish(r, "ok")
    BY <1>4 DEF RemoveWrite, Rest, Removed
  <2>2. /\ seen[r] \in Seq(Client) /\ i \in DOMAIN seen[r]
        /\ UNCHANGED <<file, born, arg>>
    BY <1>4, FirstInDomain DEF TypeOK, RemoveWrite
  <2>3. /\ Ids(store') \subseteq born
        /\ Unique(store')
        /\ seen[r][i].id \in born
    <3>1. Ids(seen[r]) \subseteq born /\ Unique(seen[r])
      BY DEF BornInv, UniqueInv
    <3>2. seen[r][i].id \in Ids(seen[r])
      BY <2>2 DEF Ids
    <3> QED
      BY <2>1, <2>2, <3>1, <3>2, RemoveAtIds
  <2>4. /\ seen'[r] = <<>> /\ \A q \in Req \ {r} : seen'[q] = seen[q]
        /\ held'[r] \in {None, seen[r][i]} /\ \A q \in Req \ {r} : held'[q] = held[q]
        /\ \/ pc'[r] = "done"
           \/ pc'[r] = "lock" /\ arg[r].op = "enable"
        /\ \A q \in Req \ {r} : pc'[q] = pc[q]
    BY <2>1 DEF Finish, Goto, TypeOK
  <2>5. BornInv'
    BY <2>2, <2>3, <2>4, EmptyIds, PanelAssumption DEF BornInv
  <2>6. UniqueInv'
    BY <2>2, <2>3, <2>4, EmptyIds DEF UniqueInv, IdsUnique
  <2> QED
    BY <2>5, <2>6
<1>5. ASSUME NEW r \in Req, AddWrite(r)
      PROVE  BornInv' /\ UniqueInv'
  <2>1. /\ store' = Append(seen[r], held[r])
        /\ UNCHANGED <<file, born, arg>>
        /\ seen[r] \in Seq(Client) /\ held[r] \in Client
        /\ held[r].id \notin Ids(seen[r])
    BY <1>5 DEF AddWrite, Added, TypeOK, Carry, UniqueInv
  <2>2. Ids(store') \subseteq born /\ Unique(store')
    BY <2>1, AppendIds DEF BornInv, UniqueInv
  <2>3. /\ pc'[r] = "done" /\ held'[r] = None /\ seen'[r] = <<>>
        /\ \A q \in Req \ {r} :
             pc'[q] = pc[q] /\ held'[q] = held[q] /\ seen'[q] = seen[q]
    BY <1>5 DEF AddWrite, Finish, Goto, TypeOK
  <2>4. BornInv'
    BY <2>1, <2>2, <2>3, EmptyIds, PanelAssumption DEF BornInv
  <2>5. UniqueInv'
    BY <2>1, <2>2, <2>3, EmptyIds DEF UniqueInv, IdsUnique
  <2> QED
    BY <2>4, <2>5
<1>6. ASSUME NEW r \in Req, RemoveRead(r) \/ AddRead(r) \/ ServiceTest(r)
      PROVE  BornInv' /\ UniqueInv'
  <2>1. UNCHANGED <<file, store, born, arg>>
    BY <1>6 DEF RemoveRead, AddRead, ServiceTest, files
  <2>2. CASE \E outcome : Finish(r, outcome)
    <3>1. /\ pc'[r] = "done" /\ held'[r] = None /\ seen'[r] = <<>>
          /\ \A q \in Req \ {r} :
               pc'[q] = pc[q] /\ held'[q] = held[q] /\ seen'[q] = seen[q]
      BY <2>1, <2>2, FinishEffect DEF OthersKept
    <3> QED
      BY <2>1, <3>1, QuietStep
  <2>3. CASE ~\E outcome : Finish(r, outcome)
    <3>1. /\ \/ Goto(r, "removeWrite")
             \/ Goto(r, "addWrite") /\ held[r].id \notin Ids(store)
                  /\ seen' = [seen EXCEPT ![r] = store]
             \/ Goto(r, "svcAction")
          /\ seen' \in {seen, [seen EXCEPT ![r] = store]}
          /\ held' = held
      BY <1>6, <2>3 DEF RemoveRead, AddRead, ServiceTest
    <3>2. /\ pc'[r] \notin {"lock", "read", "backup", "rename"}
          /\ pc'[r] = "addWrite" => held[r].id \notin Ids(store) /\ seen'[r] = store
          /\ seen'[r] \in {seen[r], store}
          /\ \A q \in Req \ {r} : pc'[q] = pc[q] /\ seen'[q] = seen[q]
      BY <3>1 DEF Goto, TypeOK
    <3>3. BornInv'
      BY <2>1, <3>1, <3>2 DEF BornInv
    <3>4. UniqueInv'
      BY <2>1, <3>1, <3>2 DEF UniqueInv, IdsUnique
    <3> QED
      BY <3>3, <3>4
  <2> QED
    BY <2>2, <2>3
<1>7. ASSUME NEW r \in Req, Lock(r) \/ Backup(r) \/ TestPasses(r)
      PROVE  BornInv' /\ UniqueInv'
  <2>1. /\ UNCHANGED <<file, store, born, arg, seen, held>>
        /\ pc[r] \in {"lock", "backup", "test"} /\ pc'[r] \in {"read", "rename", "restart"}
        /\ pc[r] = "test" => pc'[r] = "restart"
        /\ \A q \in Req \ {r} : pc'[q] = pc[q]
    BY <1>7 DEF Lock, Backup, TestPasses, Goto, TypeOK, files
  <2> QED
    BY <2>1, QuietStep
<1>8. ASSUME NEW r \in Req,
             EditRefused(r) \/ ConfigIOFails(r) \/ TestFails(r)
               \/ InitRestart(r) \/ InitRestartFails(r)
      PROVE  BornInv' /\ UniqueInv'
  <2>1. PICK outcome : Return(r, outcome) /\ UNCHANGED <<file, store, born, arg>>
    BY <1>8 DEF EditRefused, ConfigIOFails, TestFails, InitRestart, InitRestartFails, files
  <2>2. /\ pc'[r] \in {"done", "addRead", "removeRead"}
        /\ held'[r] \in {held[r], None} /\ seen'[r] \in {seen[r], <<>>}
        /\ \A q \in Req \ {r} :
             pc'[q] = pc[q] /\ held'[q] = held[q] /\ seen'[q] = seen[q]
    BY <2>1, AfterMutateEffect DEF Return, OthersKept
  <2> QED
    BY <2>1, <2>2, QuietStep
<1>9. ASSUME NEW r \in Req, StoreIOFails(r) \/ ServiceAction(r) \/ ServiceActionFails(r)
      PROVE  BornInv' /\ UniqueInv'
  <2>1. PICK outcome : Finish(r, outcome) /\ UNCHANGED <<file, store, born, arg>>
    BY <1>9 DEF StoreIOFails, ServiceAction, ServiceActionFails, files
  <2>2. /\ pc'[r] = "done" /\ held'[r] = None /\ seen'[r] = <<>>
        /\ \A q \in Req \ {r} :
             pc'[q] = pc[q] /\ held'[q] = held[q] /\ seen'[q] = seen[q]
    BY <2>1, FinishEffect DEF OthersKept
  <2> QED
    BY <2>1, <2>2, QuietStep
<1>10. CASE Crash
  <2>1. /\ UNCHANGED <<file, store, born, arg>>
        /\ \A q \in Req : /\ pc'[q] \in {"new", "done"}
                          /\ held'[q] = None /\ seen'[q] = <<>>
    BY <1>10 DEF Crash, InFlight, TypeOK
  <2> QED
    BY <2>1, QuietStep
<1>11. CASE UNCHANGED vars
  BY <1>11, QuietStep DEF vars
<1> QED
  BY <1>1, <1>2, <1>3, <1>4, <1>5, <1>6, <1>7, <1>8, <1>9, <1>10, <1>11
     DEF Next, Step, Terminated

-----------------------------------------------------------------------------
(* The theorems.                                                           *)

\* The invariant holds at the start.
LEMMA InitInv == Init => IInv
<1> SUFFICES ASSUME Init PROVE IInv
  OBVIOUS
<1> USE PanelAssumption DEF Init
<1>1. /\ InitFile.clients \in Seq(Client) /\ InitStore \in Seq(Client)
      /\ Ids(InitFile.clients) \subseteq Id /\ Ids(InitStore) \subseteq Id
  BY IdsAreIds DEF Config
<1>2. TypeOK
  <2>1. raced \in BOOLEAN
    BY Zenon
  <2> QED
    BY <1>1, <2>1 DEF TypeOK, Steps, Answers
<1>3. Carry
  BY DEF Carry
<1>4. Locking
  BY DEF Locking, Mutex, Critical, SnapCurrent, BackupHeld, Tested, RestartOnlyTested
<1>5. BornInv
  BY EmptyIds DEF BornInv
<1>6. Unique(InitFile.clients) /\ Unique(InitStore)
  <2> DEFINE f == InitFile.clients
             both == f \o InitStore
  <2>1. /\ both \in Seq(Client) /\ Len(both) = Len(f) + Len(InitStore)
        /\ \A i \in 1..(Len(f) + Len(InitStore)) :
             both[i] = IF i <= Len(f) THEN f[i] ELSE InitStore[i - Len(f)]
    BY <1>1, ConcatProperties
  <2>2. /\ DOMAIN f = 1..Len(f) /\ DOMAIN InitStore = 1..Len(InitStore)
        /\ Len(f) \in Nat /\ Len(InitStore) \in Nat
    BY <1>1
  <2>3. DOMAIN both = 1..(Len(f) + Len(InitStore))
    BY <2>1
  <2>4. Unique(both)
    OBVIOUS
  <2> HIDE DEF both, f
  <2>5. Unique(f)
    <3>1. ASSUME NEW i \in DOMAIN f, NEW j \in DOMAIN f, f[i].id = f[j].id
          PROVE  i = j
      <4>1. both[i] = f[i] /\ both[j] = f[j] /\ i \in DOMAIN both /\ j \in DOMAIN both
        BY <2>1, <2>2, <2>3
      <4> QED
        BY <2>4, <3>1, <4>1 DEF Unique
    <3> QED
      BY <3>1 DEF Unique
  <2>6. Unique(InitStore)
    <3>1. ASSUME NEW i \in DOMAIN InitStore, NEW j \in DOMAIN InitStore,
                 InitStore[i].id = InitStore[j].id
          PROVE  i = j
      <4>1. /\ both[i + Len(f)] = InitStore[i] /\ both[j + Len(f)] = InitStore[j]
            /\ i + Len(f) \in DOMAIN both /\ j + Len(f) \in DOMAIN both
        BY <2>1, <2>2, <2>3
      <4>2. i + Len(f) = j + Len(f)
        BY <2>4, <3>1, <4>1 DEF Unique
      <4> QED
        BY <2>2, <4>2
    <3> QED
      BY <3>1 DEF Unique
  <2> QED
    BY <2>5, <2>6 DEF f
<1>7. UniqueInv
  BY <1>6, EmptyIds DEF UniqueInv, IdsUnique
<1> QED
  BY <1>2, <1>3, <1>4, <1>5, <1>7 DEF IInv

\* The invariant is inductive.
LEMMA NextInv == IInv /\ [Next]_vars => IInv'
BY TypeStep, LockingStep, IdsStep DEF IInv

\* The inductive invariant holds in every reachable state.
THEOREM Invariant == Spec => []IInv
BY InitInv, NextInv, PTL DEF Spec

\* Every variable keeps its type: no request ever writes a half-edited config,
\* a client that is none, or a store that is not a list of clients.
THEOREM TypeCorrect == Spec => []TypeOK
<1>1. IInv => TypeOK
  BY DEF IInv
<1> QED
  BY <1>1, Invariant, PTL

\* No UUID is ever listed twice, in the config or in the disabled store,
\* however many requests race on the unlocked store and whatever fails.
THEOREM UuidsStayUnique == Spec => []IdsUnique
<1>1. IInv => IdsUnique
  BY DEF IInv, UniqueInv
<1> QED
  BY <1>1, Invariant, PTL

\* The config a mutation restarts xray with is one that passed xray -test.
THEOREM MutationsRestartTested == Spec => []RestartOnlyTested
<1>1. IInv => RestartOnlyTested
  BY DEF IInv, Locking, Tested
<1> QED
  BY <1>1, Invariant, PTL

\* Only Commit replaces the config.
LEMMA FileChange ==
  ASSUME [Next]_vars, file' # file
  PROVE  \E r \in Req : Commit(r)
BY DEF Next, Step, Terminated, vars, files, Arrive, Lock, ReadEdit, EditRefused, Backup,
       ConfigIOFails, TestPasses, TestFails, InitRestart, InitRestartFails, RemoveRead,
       RemoveWrite, AddRead, AddWrite, StoreIOFails, ServiceTest, ServiceAction,
       ServiceActionFails, Crash

\* Whenever the config is replaced, .bak holds what was replaced.
THEOREM BackupsArePrevious == Spec => BackupIsPrevious
<1>1. IInv /\ [Next]_vars => (file' # file => bak' = file)
  <2> SUFFICES ASSUME IInv, [Next]_vars, file' # file PROVE bak' = file
    OBVIOUS
  <2>1. PICK r \in Req : Commit(r)
    BY FileChange
  <2> QED
    BY <2>1 DEF Commit, IInv, Locking, BackupHeld
<1>2. IInv /\ [Next]_vars => [file' # file => bak' = file]_vars
  BY <1>1
<1> QED
  BY <1>2, Invariant, PTL DEF Spec, BackupIsPrevious

\* The registry's edits are the panel's.
LEMMA SameEdits ==
  /\ Registry!EditRequest = EditRequest
  /\ Registry!Client = Client
  /\ \A cs : Registry!Ids(cs) = Ids(cs)
  /\ \A a, c, f : Registry!Edit(a, c, f) = Edit(a, c, f)
<1> USE DEF First, Registry!First, Ids, Registry!Ids
<1>1. Registry!EditRequest = EditRequest /\ Registry!Client = Client
  BY DEF Registry!EditRequest, EditRequest, Registry!Client, Client
<1>2. \A f, id, name : /\ Registry!AddClient(f, id, name) = AddClient(f, id, name)
                       /\ Registry!Rename(f, id, name) = Rename(f, id, name)
  BY DEF Registry!AddClient, AddClient, Registry!Rename, Rename,
         Registry!NameTaken, NameTaken
<1>3. \A f, id : Registry!RemoveClient(f, id) = RemoveClient(f, id)
  BY DEF Registry!RemoveClient, RemoveClient, Registry!RemoveAt, RemoveAt
<1>4. \A f, id : Registry!DeleteClient(f, id) = DeleteClient(f, id)
  BY <1>3 DEF Registry!DeleteClient, DeleteClient
<1>5. \A f, c : /\ Registry!RestoreClient(f, c) = RestoreClient(f, c)
                /\ Registry!PatchReality(f, c) = PatchReality(f, c)
  BY DEF Registry!RestoreClient, RestoreClient, Registry!PatchReality, PatchReality
<1>6. \A a, c, f : Registry!Edit(a, c, f) = Edit(a, c, f)
  BY <1>2, <1>3, <1>4, <1>5 DEF Registry!Edit, Edit
<1> QED
  BY <1>1, <1>6

\* mutateConfig implements the atomic registry: every change of the config is
\* one whole edit of what the file held at that moment.
THEOREM Refinement == Spec => RefinesRegistry
<1>1. Init => Registry!Init
  BY DEF Init, Registry!Init
<1>2. IInv /\ [Next]_vars => [Registry!Next]_file
  <2> SUFFICES ASSUME IInv, [Next]_vars, file' # file PROVE Registry!Next
    OBVIOUS
  <2>1. PICK r \in Req : Commit(r)
    BY FileChange
  <2>2. /\ pc[r] = "rename"
        /\ file' \in Edit(arg[r], held[r], file)
        /\ arg[r] \in EditRequest
        /\ arg[r].op = "enable" => held[r] \in Client
        /\ held[r] \in Client \cup {None}
    BY <2>1 DEF Commit, IInv, Locking, SnapCurrent, Carry, TypeOK
  <2>3. arg[r].op = "create" => arg[r].id \notin Ids(file.clients)
    BY <2>2 DEF IInv, BornInv
  <2> QED
    BY <2>2, <2>3, SameEdits DEF Registry!Next, Registry!Apply
<1> QED
  BY <1>1, <1>2, Invariant, PTL DEF Spec, RefinesRegistry, Registry!Spec

=============================================================================
