----------------------------- MODULE ServerAdmin -----------------------------
(***************************************************************************)
(* The admin requests and what they leave behind in three places: the xray *)
(* config, panel.yaml, and the panel's memory.                             *)
(*                                                                         *)
(*   internal/http/server_admin.go  regenerate-keys, enable-stats,         *)
(*                                  enable-online-tracking                 *)
(*   internal/http/server.go        publicKey, InvalidatePublicKey         *)
(*   internal/http/clients.go       buildLink, the reader of the key       *)
(*   internal/config/config.go      WriteStatsAPI                          *)
(*                                                                         *)
(* A request is one goroutine and pc[r] its next step, as in Panel; a link *)
(* stands for every request that derives the public key, GET /api/state    *)
(* included.  Panel has mutateConfig in full.  Here it is taken together   *)
(* to Lock, Edit, Write (the rename) and Restart (test and init script).   *)
(***************************************************************************)
EXTENDS AdminBlocks, FiniteSets

CONSTANTS
  Req,       \* requests, each served once
  None,      \* nobody, no key, no file
  Ops,       \* the operations the requests ask for
  Faults,    \* the failures that may happen
  InitConfs  \* the configs the panel may be installed on

AllOps == {"link", "regenerate", "stats", "online"}

\* "io": a file cannot be read or written.  "restart": xray -test or the init
\* script fails or is killed.  "keytool": xray x25519 fails.  "crash": the
\* panel dies and procd starts it again.
AllFaults == {"io", "restart", "keytool", "crash"}

ASSUME AdminAssumption ==
  /\ None \notin Req \cup Key \cup Conf
  /\ Ops \subseteq AllOps
  /\ Faults \subseteq AllFaults
  /\ InitConfs \subseteq Conf
  /\ \A v \in {Absent, Null, Bad} : v \notin Policy \cup Routing \cup Levels \cup Level0 \cup RuleList

VARIABLES
  conf,      \* /etc/xray/config.json
  yaml,      \* stats_api in panel.yaml: "unset", "set"; "cut" for half a file
  yamlBak,   \* the same of panel.yaml.bak
  yamlTmp,   \* the same of panel.yaml.tmp
  statsAPI,  \* s.Cfg.StatsAPI: "unset", "set"; "torn" while it is assigned
  pubKey,    \* s.pubKey
  writeMu,   \* the request that holds s.writeMu
  pc,        \* the step each request takes next
  op,        \* what each request asks for
  snap,      \* the edited config a request is about to write
  saw,       \* the key a link read from the config, or a regenerate drew
  answer,    \* the outcome each request answers
  crossed    \* history: links that had read the config when a regenerate
             \* wrote it

disk   == <<conf, yaml, yamlBak, yamlTmp>>
memory == <<statsAPI, pubKey, writeMu>>
local  == <<pc, op, snap, saw, answer>>
vars   == <<disk, memory, local, crossed>>

Steps == {"new", "generate", "target", "preread", "lock", "edit", "write", "restart",
          "invalidate", "assign", "assigned", "yamlBak", "yamlTmp", "yamlRename",
          "lookup", "store", "done"}

Critical == {"edit", "write", "restart"}    \* writeMu is held

Yaml == {"unset", "set", "cut"}

InFlight == {r \in Req : pc[r] \notin {"new", "done"}}

TypeOK ==
  /\ conf \in Conf
  /\ yaml \in Yaml
  /\ yamlBak \in Yaml \cup {None} /\ yamlTmp \in Yaml \cup {None}
  /\ statsAPI \in {"unset", "torn", "set"}
  /\ pubKey \in Key \cup {None}
  /\ writeMu \in Req \cup {None}
  /\ pc \in [Req -> Steps]
  /\ op \in [Req -> Ops \cup {"none"}]
  /\ snap \in [Req -> Conf \cup {None}]
  /\ saw \in [Req -> Key \cup {None}]
  /\ answer \in [Req -> {"none", "ok", "already", "warning", "error", "cut"}]
  /\ crossed \subseteq Req

\* The panel starts: Load reads panel.yaml, the rest of its memory is new.
Init ==
  /\ conf \in InitConfs
  /\ yaml \in {"unset", "set"} /\ yamlBak = None /\ yamlTmp = None
  /\ statsAPI = yaml /\ pubKey = None /\ writeMu = None
  /\ pc = [r \in Req |-> "new"]
  /\ op = [r \in Req |-> "none"]
  /\ snap = [r \in Req |-> None]
  /\ saw = [r \in Req |-> None]
  /\ answer = [r \in Req |-> "none"]
  /\ crossed = {}

-----------------------------------------------------------------------------
Goto(r, s) == pc' = [pc EXCEPT ![r] = s]

Answer(r, outcome) ==
  /\ Goto(r, "done")
  /\ answer' = [answer EXCEPT ![r] = outcome]

FirstStep(o) ==
  CASE o = "link"       -> "lookup"
    [] o = "regenerate" -> "generate"
    [] o = "stats"      -> "target"
    [] o = "online"     -> "preread"

\* A link reads the config, and with it the private key, as it comes in.
Arrive(r) ==
  /\ pc[r] = "new"
  /\ \E o \in Ops :
       /\ op' = [op EXCEPT ![r] = o]
       /\ Goto(r, FirstStep(o))
       /\ saw' = [saw EXCEPT ![r] = IF o = "link" THEN conf.key ELSE None]
  /\ UNCHANGED <<disk, memory, snap, answer, crossed>>

-----------------------------------------------------------------------------
(* publicKey.                                                              *)

\* Under s.mu: a cached key is served without a look at the private key.
Lookup(r) ==
  /\ pc[r] = "lookup"
  /\ IF pubKey # None
     THEN Answer(r, "ok") /\ saw' = [saw EXCEPT ![r] = pubKey]
     ELSE Goto(r, "store") /\ UNCHANGED <<answer, saw>>
  /\ UNCHANGED <<disk, memory, op, snap, crossed>>

\* DerivePublic has run; its result is stored under s.mu and served.
StoreKey(r) ==
  /\ pc[r] = "store"
  /\ pubKey' = saw[r]
  /\ Answer(r, "ok")
  /\ UNCHANGED <<disk, statsAPI, writeMu, op, snap, saw, crossed>>

DeriveFails(r) ==
  /\ "keytool" \in Faults
  /\ pc[r] = "store"
  /\ Answer(r, "error")
  /\ UNCHANGED <<disk, memory, op, snap, saw, crossed>>

-----------------------------------------------------------------------------
(* Before mutateConfig.                                                    *)

\* xray x25519 draws a key pair nobody has.
Generate(r) ==
  /\ pc[r] = "generate"
  /\ \E k \in Key \ ({conf.key, pubKey} \cup {saw[q] : q \in Req}) :
       saw' = [saw EXCEPT ![r] = k]
  /\ Goto(r, "lock")
  /\ UNCHANGED <<disk, memory, op, snap, answer, crossed>>

GenerateFails(r) ==
  /\ "keytool" \in Faults
  /\ pc[r] = "generate"
  /\ Answer(r, "error")
  /\ UNCHANGED <<disk, memory, op, snap, saw, crossed>>

\* enable-stats reads s.Cfg.StatsAPI without a lock: while another one
\* assigns it, the read may see either value or panic.
Target(r) ==
  /\ pc[r] = "target"
  /\ \/ Goto(r, "lock") /\ UNCHANGED answer
     \/ statsAPI = "torn" /\ Answer(r, "cut")
  /\ UNCHANGED <<disk, memory, op, snap, saw, crossed>>

\* enable-online-tracking looks at the config before it takes the lock.
Preread(r) ==
  /\ pc[r] = "preread"
  /\ CASE MergePanics(conf.policy)   -> Answer(r, "cut")
       [] MergeRefused(conf.policy)  -> Answer(r, "error")
       [] HasOnlineFlag(conf.policy) -> Answer(r, "already")
       [] OTHER                      -> Goto(r, "lock") /\ UNCHANGED answer
  /\ UNCHANGED <<disk, memory, op, snap, saw, crossed>>

-----------------------------------------------------------------------------
(* mutateConfig.                                                           *)

Lock(r) ==
  /\ pc[r] = "lock"
  /\ writeMu = None
  /\ writeMu' = r
  /\ Goto(r, "edit")
  /\ UNCHANGED <<disk, statsAPI, pubKey, op, snap, saw, answer, crossed>>

Edited(r) ==
  CASE op[r] = "regenerate" -> SetKey(conf, saw[r])
    [] op[r] = "stats"      -> EnableStats(conf)
    [] op[r] = "online"     -> EnableOnline(conf)

\* A panic in the closure unwinds through the deferred unlock.
Panics(r) == op[r] = "online" /\ MergePanics(conf.policy)

\* The config is read and the closure applied to it.
Edit(r) ==
  /\ pc[r] = "edit"
  /\ ~Panics(r)
  /\ \E f \in Edited(r) : snap' = [snap EXCEPT ![r] = f]
  /\ Goto(r, "write")
  /\ UNCHANGED <<disk, memory, op, saw, answer, crossed>>

\* mutateConfig returns an error: the deferred unlock, then the answer.
Abandon(r, outcome) ==
  /\ writeMu' = None
  /\ snap' = [snap EXCEPT ![r] = None]
  /\ Answer(r, outcome)

EditRefused(r) ==
  /\ pc[r] = "edit"
  /\ \/ Panics(r) /\ Abandon(r, "cut")
     \/ ~Panics(r) /\ Edited(r) = {} /\ Abandon(r, "error")
  /\ UNCHANGED <<disk, statsAPI, pubKey, op, saw, crossed>>

Crossing == {q \in Req : op[q] = "link" /\ pc[q] \in {"lookup", "store"}}

\* The rename.
Write(r) ==
  /\ pc[r] = "write"
  /\ conf' = snap[r]
  /\ snap' = [snap EXCEPT ![r] = None]
  /\ Goto(r, "restart")
  /\ crossed' = IF op[r] = "regenerate" THEN crossed \cup Crossing ELSE crossed
  /\ UNCHANGED <<yaml, yamlBak, yamlTmp, memory, op, saw, answer>>

ConfigIOFails(r) ==
  /\ "io" \in Faults
  /\ \/ pc[r] \in {"edit", "write"} /\ Abandon(r, "error")
     \/ pc[r] = "preread" /\ Answer(r, "error") /\ UNCHANGED <<writeMu, snap>>
  /\ UNCHANGED <<disk, statsAPI, pubKey, op, saw, crossed>>

\* What each handler does when mutateConfig has succeeded.
Unlocked(r) ==
  CASE op[r] = "regenerate"                      -> Goto(r, "invalidate") /\ UNCHANGED answer
    [] op[r] = "stats" /\ statsAPI = "unset"     -> Goto(r, "assign") /\ UNCHANGED answer
    [] OTHER                                     -> Answer(r, "ok")

\* xray accepts the config and runs it; the lock is released.
Restart(r) ==
  /\ pc[r] = "restart"
  /\ Accepted(conf)
  /\ writeMu' = None
  /\ Unlocked(r)
  /\ UNCHANGED <<disk, statsAPI, pubKey, op, snap, saw, crossed>>

\* Mutant: the error of the restart is dropped.
RestartFailsSilently(r) ==
  /\ pc[r] = "restart"
  /\ ~Accepted(conf) \/ "restart" \in Faults
  /\ Abandon(r, "ok")
  /\ UNCHANGED <<disk, statsAPI, pubKey, op, saw, crossed>>

\* The new config stays on disk and the handler returns.
RestartFails(r) ==
  /\ pc[r] = "restart"
  /\ ~Accepted(conf) \/ "restart" \in Faults
  /\ Abandon(r, "error")
  /\ UNCHANGED <<disk, statsAPI, pubKey, op, saw, crossed>>

-----------------------------------------------------------------------------
(* After mutateConfig: no lock is held.                                    *)

\* Mutant: the cached key survives the key pair.
InvalidateNothing(r) ==
  /\ pc[r] = "invalidate"
  /\ Answer(r, "ok")
  /\ UNCHANGED <<disk, memory, op, snap, saw, crossed>>

\* InvalidatePublicKey.
Invalidate(r) ==
  /\ pc[r] = "invalidate"
  /\ pubKey' = None
  /\ Answer(r, "ok")
  /\ UNCHANGED <<disk, statsAPI, writeMu, op, snap, saw, crossed>>

\* s.Cfg.StatsAPI = target, two words in memory.
AssignHalf(r) ==
  /\ pc[r] = "assign"
  /\ statsAPI' = "torn"
  /\ Goto(r, "assigned")
  /\ UNCHANGED <<disk, pubKey, writeMu, op, snap, saw, answer, crossed>>

Assign(r) ==
  /\ pc[r] = "assigned"
  /\ statsAPI' = "set"
  /\ Goto(r, "yamlBak")
  /\ UNCHANGED <<disk, pubKey, writeMu, op, snap, saw, answer, crossed>>

\* Mutant: the step to .tmp is left out.
WriteYamlBakOnly(r) ==
  /\ pc[r] = "yamlBak"
  /\ yamlBak' = yaml
  /\ Goto(r, "yamlRename")
  /\ UNCHANGED <<conf, yaml, yamlTmp, memory, op, snap, saw, answer, crossed>>

\* WriteStatsAPI: the file is read and copied to .bak,
WriteYamlBak(r) ==
  /\ pc[r] = "yamlBak"
  /\ yamlBak' = yaml
  /\ Goto(r, "yamlTmp")
  /\ UNCHANGED <<conf, yaml, yamlTmp, memory, op, snap, saw, answer, crossed>>

\* Mutant: panel.yaml is written in place.
WriteYamlInPlace(r) ==
  /\ pc[r] = "yamlTmp"
  /\ yaml' = "cut"
  /\ yamlTmp' = "set"
  /\ Goto(r, "yamlRename")
  /\ UNCHANGED <<conf, yamlBak, memory, op, snap, saw, answer, crossed>>

\* the new contents go to .tmp,
WriteYamlTmp(r) ==
  /\ pc[r] = "yamlTmp"
  /\ yamlTmp' = "set"
  /\ Goto(r, "yamlRename")
  /\ UNCHANGED <<conf, yaml, yamlBak, memory, op, snap, saw, answer, crossed>>

\* and .tmp is renamed over the file.
RenameYaml(r) ==
  /\ pc[r] = "yamlRename"
  /\ yaml' = yamlTmp
  /\ yamlTmp' = None
  /\ Answer(r, "ok")
  /\ UNCHANGED <<conf, yamlBak, memory, op, snap, saw, crossed>>

\* One of the three fails: the answer is a success with a warning.
\* os.WriteFile truncates before it fills.
YamlFails(r) ==
  /\ "io" \in Faults
  /\ pc[r] \in {"yamlBak", "yamlTmp", "yamlRename"}
  /\ yamlBak' \in IF pc[r] = "yamlBak" THEN {yamlBak, "cut"} ELSE {yamlBak}
  /\ yamlTmp' \in IF pc[r] = "yamlTmp" THEN {yamlTmp, "cut"} ELSE {yamlTmp}
  /\ Answer(r, "warning")
  /\ UNCHANGED <<conf, yaml, memory, op, snap, saw, crossed>>

-----------------------------------------------------------------------------
\* The panel dies at any moment, in the middle of os.WriteFile too, and starts
\* again if panel.yaml loads.
Crash ==
  /\ "crash" \in Faults
  /\ InFlight # {}
  /\ yaml # "cut"
  /\ yamlBak' \in IF \E r \in Req : pc[r] = "yamlBak" THEN {yamlBak, "cut"} ELSE {yamlBak}
  /\ yamlTmp' \in IF \E r \in Req : pc[r] = "yamlTmp" THEN {yamlTmp, "cut"} ELSE {yamlTmp}
  /\ statsAPI' = yaml
  /\ pubKey' = None
  /\ writeMu' = None
  /\ pc' = [r \in Req |-> IF r \in InFlight THEN "done" ELSE pc[r]]
  /\ answer' = [r \in Req |-> IF r \in InFlight THEN "cut" ELSE answer[r]]
  /\ snap' = [r \in Req |-> None]
  /\ UNCHANGED <<conf, yaml, op, saw, crossed>>

Step(r) ==
  \/ Lookup(r) \/ StoreKey(r) \/ DeriveFails(r)
  \/ Generate(r) \/ GenerateFails(r) \/ Target(r) \/ Preread(r)
  \/ Lock(r) \/ Edit(r) \/ EditRefused(r) \/ Write(r) \/ ConfigIOFails(r)
  \/ Restart(r) \/ RestartFails(r)
  \/ Invalidate(r) \/ AssignHalf(r) \/ Assign(r)
  \/ WriteYamlBak(r) \/ WriteYamlTmp(r) \/ RenameYaml(r) \/ YamlFails(r)

Terminated == (\A r \in Req : pc[r] = "done") /\ UNCHANGED vars

Next == (\E r \in Req : Arrive(r) \/ Step(r)) \/ Crash \/ Terminated

Spec == Init /\ [][Next]_vars

-----------------------------------------------------------------------------
(* Properties.                                                             *)

Regenerating(r) == op[r] = "regenerate" /\ pc[r] \in {"restart", "invalidate"}

\* The key in memory does not belong to the private key on disk.
Stale == pubKey \notin {None, conf.key}

\* "pubKey is the cached X25519 public key derived from the current
\* realitySettings.privateKey" (server.go:38-40): links and the dashboard get
\* the public key of the private key on disk, except while a regenerate is
\* between its write and its invalidation.
CachedKeyIsCurrent == Stale => \E r \in Req : Regenerating(r)

\* What the code does ensure: a wrong key stays in memory only after a
\* regenerate that was answered with an error although its key is on disk, or
\* when a link had read the config before a regenerate wrote it and stored
\* what it derived after the invalidation (server.go:97-121).
StaleKeyExplained ==
  Stale =>
    \/ \E r \in Req : Regenerating(r)
    \/ \E r \in Req : op[r] = "regenerate" /\ answer[r] = "error" /\ saw[r] = conf.key
    \/ \E q \in crossed : answer[q] = "ok" /\ saw[q] = pubKey

\* "so the address survives restarts" (server_admin.go:213-215): what an
\* enable-stats was answered with success holds from then on, in the config,
\* in panel.yaml and in memory, over other requests and over crashes.  And xray
\* has its stats API while the panel does not know the address, so that GET
\* /api/activity goes on telling the operator to enable it, only after an
\* enable-stats was answered with an error or a warning, or cut off
\* (server_admin.go:208-231).
EnableStatsIsHonest ==
  /\ \A r \in Req :
       op[r] = "stats" /\ answer[r] = "ok" =>
         conf.api /\ conf.stats /\ yaml = "set" /\ statsAPI = "set"
  /\ conf.api /\ statsAPI = "unset" =>
       \E r \in Req : /\ op[r] = "stats"
                      /\ \/ pc[r] \in {"restart", "assign"}
                         \/ answer[r] \in {"error", "warning", "cut"}

\* Once a request answered that online tracking is on, it is: neither an
\* enable-stats, which writes the whole policy anew, nor a request that looked
\* at the flag without the lock undoes it (server_admin.go:243-280).
OnlineSticks ==
  \A r \in Req :
    \/ op[r] = "online" /\ answer[r] \in {"ok", "already"}
    \/ op[r] = "stats" /\ answer[r] \in {"ok", "warning"}
    => HasOnlineFlag(conf.policy)

\* The panel can start: panel.yaml is the old file or the new one, wherever
\* WriteStatsAPI fails or dies (config.go:152-161).
YamlLoads == yaml # "cut"

Count(seq, tag) == Cardinality({i \in DOMAIN seq : seq[i] = tag})

Rules(f) ==
  IF Objects(f.routing) /\ Objects(f.routing.rules) THEN f.routing.rules ELSE <<>>

ApiRules(f) == Count(Rules(f), "api")

\* However often and from wherever it is asked for, the stats API gets one
\* inbound and one rule (server_admin.go:173-205).
ApiWiredOnce ==
  /\ Count(conf.inbounds, "api") <= 1
  /\ ApiRules(conf) <= 1
  /\ conf.api => Count(conf.inbounds, "api") = 1 /\ ApiRules(conf) = 1

\* Every rule stays where it is: xray takes the first that matches.
RulesKept(f, g) ==
  \A i \in DOMAIN Rules(f) : i \in DOMAIN Rules(g) /\ Rules(g)[i] = Rules(f)[i]

\* What the operator wrote into the policy.
OwnPolicy(f) ==
  LET p == f.policy
  IN  IF ~Objects(p) THEN {}
      ELSE (IF p.mine THEN {"policy"} ELSE {})
           \cup (IF Objects(p.levels) /\ p.levels.mine THEN {"levels"} ELSE {})
           \cup (IF Objects(p.levels) /\ Objects(p.levels.zero) /\ p.levels.zero.mine
                 THEN {"level 0"} ELSE {})

\* "the round-trip must preserve them verbatim" (xray/config.go:3-7): no
\* rewrite of the config loses a rule or puts one in front of another, and only
\* enable-stats loses what the operator wrote into the policy.
OwnEntriesKept ==
  [][/\ RulesKept(conf, conf')
     /\ \/ OwnPolicy(conf) \subseteq OwnPolicy(conf')
        \/ \E r \in Req : op[r] = "stats" /\ pc[r] = "write" /\ pc'[r] = "restart"]_vars

=============================================================================
