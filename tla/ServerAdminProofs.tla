-------------------------- MODULE ServerAdminProofs --------------------------
(***************************************************************************)
(* Theorems about ServerAdmin, for any requests, keys, faults and initial  *)
(* configs.  mutateConfig serialises the edits, so what a request is about *)
(* to write is an edit of the config as it is; what the handlers do before *)
(* and after it is not serialised, and is tied to the config by what an    *)
(* earlier edit has put there for good.                                    *)
(***************************************************************************)
EXTENDS ServerAdmin, FiniteSetTheorems, TLAPS

-----------------------------------------------------------------------------
(* The invariant.                                                          *)

\* writeMu is held by the request in the critical section, and only then.
LockHeld == \A r \in Req : pc[r] \in Critical <=> writeMu = r

\* What a request can be doing, given what it asks for.
OpSteps(o) ==
  CASE o = "link"       -> {"lookup", "store", "done"}
    [] o = "regenerate" -> {"generate", "lock", "edit", "write", "restart", "invalidate", "done"}
    [] o = "stats"      -> {"target", "lock", "edit", "write", "restart", "assign", "assigned",
                            "yamlBak", "yamlTmp", "yamlRename", "done"}
    [] o = "online"     -> {"preread", "lock", "edit", "write", "restart", "done"}

Phases ==
  \A r \in Req :
    /\ pc[r] = "new" <=> op[r] = "none"
    /\ op[r] # "none" => op[r] \in AllOps /\ pc[r] \in OpSteps(op[r])
    /\ answer[r] # "none" => pc[r] = "done"
    /\ op[r] = "link" => saw[r] \in Key
    /\ op[r] = "regenerate" /\ pc[r] \in Critical \cup {"lock", "invalidate"} => saw[r] \in Key

\* What is about to be written is an edit of the config as it is.
Pending == \A r \in Req : pc[r] = "write" => ~Panics(r) /\ snap[r] \in Edited(r)

\* The steps of an enable-stats behind the write of the config.
Past == {"restart", "assign", "assigned", "yamlBak", "yamlTmp", "yamlRename"}

\* An enable-stats whose edit is in the config.
Wired(r) == op[r] = "stats" /\ (pc[r] \in Past \/ answer[r] \in {"ok", "warning"})

\* Only one enable-stats gets behind the write, for the next one is refused;
\* it alone uses panel.yaml.tmp, and renames it when it is complete.
OneWired ==
  /\ \A r \in Req : Wired(r) => conf.api /\ conf.stats
  /\ \A q, r \in Req : Wired(q) /\ Wired(r) => q = r
  /\ \A r \in Req : pc[r] = "yamlRename" => yamlTmp = "set"
  /\ yaml # "cut"

AdminInv == TypeOK /\ LockHeld /\ Phases /\ Pending /\ OneWired

\* Links that came in before the private key changed are known, and the key a
\* regenerate has written is the one on disk as long as it holds the lock.
KeyInv ==
  /\ \A r \in Req : op[r] = "link" /\ pc[r] \in {"lookup", "store"} =>
                      saw[r] = conf.key \/ r \in crossed
  /\ \A r \in Req : op[r] = "regenerate" /\ pc[r] = "restart" => saw[r] = conf.key
  /\ StaleKeyExplained

\* A request that has written the flag, or was told that it is there.
OnlineInv ==
  /\ OnlineSticks
  /\ \A r \in Req : /\ op[r] = "online" /\ pc[r] = "restart" => HasOnlineFlag(conf.policy)
                    /\ op[r] = "stats" /\ pc[r] \in Past => HasOnlineFlag(conf.policy)

Told(r) == op[r] = "stats" /\ answer[r] \in {"error", "warning", "cut"}

\* The enable-stats behind the write takes the memory and panel.yaml from
\* "unset" to "set"; whoever finds the API wired without them was told.
StatsInv ==
  /\ ~conf.api => statsAPI = yaml
  /\ \A r \in Req :
       op[r] = "stats" =>
         /\ pc[r] = "restart" => statsAPI = yaml
         /\ pc[r] = "assign" => statsAPI = "unset" /\ yaml = "unset"
         /\ pc[r] = "assigned" => statsAPI = "torn" /\ yaml = "unset"
         /\ pc[r] \in {"yamlBak", "yamlTmp", "yamlRename"} => statsAPI = "set"
         /\ answer[r] = "ok" => yaml = "set" /\ statsAPI = "set"
  /\ yaml = "set" => statsAPI = "set"
  /\ conf.api /\ yaml = "unset" => \E r \in Req : Told(r) \/ (op[r] = "stats" /\ pc[r] \in Past)
  /\ conf.api /\ statsAPI = "unset" =>
       \E r \in Req : Told(r) \/ (op[r] = "stats" /\ pc[r] \in {"restart", "assign"})

\* The rule and the inbound of the API come with the block.
WiredOnce(f) ==
  /\ Count(f.inbounds, "api") <= 1
  /\ ApiRules(f) <= 1
  /\ f.api => Count(f.inbounds, "api") = 1 /\ ApiRules(f) = 1
  /\ ~f.api => ApiRules(f) = 0

-----------------------------------------------------------------------------
(* The blocks.                                                             *)

\* Objects are told from what is not one.
LEMMA BlockKinds ==
  /\ \A p \in Policy : Objects(p)
  /\ \A r \in Routing : Objects(r)
  /\ \A l \in Levels : Objects(l)
  /\ \A z \in Level0 : Objects(z)
  /\ \A q \in RuleList : Objects(q)
BY AdminAssumption DEF Objects

\* What enable-stats writes over the policy.
LEMMA StatsPolicyFacts ==
  /\ OnlineLevel0 \in Level0 /\ OnlineLevels \in Levels /\ StatsPolicy \in Policy
  /\ HasOnlineFlag(StatsPolicy)
<1>1. OnlineLevel0 \in Level0 /\ OnlineLevels \in Levels /\ StatsPolicy \in Policy
  BY DEF StatsPolicy, OnlineLevels, OnlineLevel0, Policy, Levels, Level0
<1>2. StatsPolicy.levels = OnlineLevels /\ OnlineLevels.zero = OnlineLevel0
      /\ OnlineLevel0.online = "on"
  BY DEF StatsPolicy, OnlineLevels, OnlineLevel0
<1> QED
  BY <1>1, <1>2, BlockKinds DEF HasOnlineFlag

\* mergeOnlineFlag sets the flag and leaves what the operator wrote.
LEMMA MergeFacts ==
  ASSUME NEW f \in Conf, ~MergeRefused(f.policy), ~MergePanics(f.policy)
  PROVE  LET p == MergeOnlineFlag(f.policy)
         IN  /\ p \in Policy /\ HasOnlineFlag(p)
             /\ OwnPolicy(f) \subseteq OwnPolicy([f EXCEPT !.policy = p])
<1> DEFINE o == f.policy
           p == MergeOnlineFlag(o)
           g == [f EXCEPT !.policy = p]
<1>0. o \in Policy \cup {Absent} /\ g.policy = p
  BY DEF MergeRefused, MergePanics, Conf
<1> HIDE DEF o, p, g
<1>1. CASE o = Absent
  <2>1. p = StatsPolicy
    BY <1>1 DEF p, MergeOnlineFlag, StatsPolicy, Objects
  <2>2. OwnPolicy(f) = {}
    BY <1>1 DEF o, OwnPolicy, Objects
  <2> QED
    BY <2>1, <2>2, StatsPolicyFacts DEF p, o
<1>2. CASE o \in Policy /\ o.levels = Absent
  <2>1. p = [o EXCEPT !.levels = OnlineLevels]
    BY <1>2, BlockKinds DEF p, MergeOnlineFlag, Objects
  <2>2. p \in Policy /\ p.levels = OnlineLevels /\ p.mine = o.mine
    BY <1>2, <2>1, StatsPolicyFacts DEF Policy
  <2>3. HasOnlineFlag(p)
    BY <2>2, BlockKinds, StatsPolicyFacts DEF HasOnlineFlag, OnlineLevels, OnlineLevel0
  <2>4. OwnPolicy(f) \subseteq OwnPolicy(g)
    BY <1>0, <1>2, <2>2, BlockKinds DEF OwnPolicy, o, Objects
  <2> QED
    BY <2>2, <2>3, <2>4 DEF p, o, g
<1>3. CASE o \in Policy /\ o.levels \in Levels /\ o.levels.zero = Absent
  <2>1. p = [o EXCEPT !.levels.zero = OnlineLevel0]
    BY <1>3, BlockKinds DEF p, MergeOnlineFlag, Objects
  <2>2. /\ p \in Policy /\ p.levels \in Levels /\ p.levels.zero = OnlineLevel0
        /\ p.mine = o.mine /\ p.levels.mine = o.levels.mine
    BY <1>3, <2>1, StatsPolicyFacts DEF Policy, Levels
  <2>3. HasOnlineFlag(p)
    BY <2>2, BlockKinds, StatsPolicyFacts DEF HasOnlineFlag, OnlineLevel0
  <2>4. OwnPolicy(f) \subseteq OwnPolicy(g)
    BY <1>0, <1>3, <2>2, BlockKinds DEF OwnPolicy, o, Objects
  <2> QED
    BY <2>2, <2>3, <2>4 DEF p, o, g
<1>4. CASE o \in Policy /\ o.levels \in Levels /\ o.levels.zero \in Level0
  <2>1. p = [o EXCEPT !.levels.zero.online = "on"]
    BY <1>4, BlockKinds DEF p, MergeOnlineFlag, Objects
  <2>2. /\ p \in Policy /\ p.levels \in Levels /\ p.levels.zero \in Level0
        /\ p.levels.zero.online = "on"
        /\ p.mine = o.mine /\ p.levels.mine = o.levels.mine
        /\ p.levels.zero.mine = o.levels.zero.mine
    BY <1>4, <2>1 DEF Policy, Levels, Level0
  <2>3. HasOnlineFlag(p)
    BY <2>2, BlockKinds DEF HasOnlineFlag
  <2>4. OwnPolicy(f) \subseteq OwnPolicy(g)
    BY <1>0, <1>4, <2>2, BlockKinds DEF OwnPolicy, o, Objects
  <2> QED
    BY <2>2, <2>3, <2>4 DEF p, o, g
<1>5. o \in Policy => o.levels \in Levels \cup {Absent}
  BY BlockKinds DEF o, Policy, MergeRefused, MergePanics, Objects
<1>6. o \in Policy /\ o.levels \in Levels => o.levels.zero \in Level0 \cup {Absent}
  BY BlockKinds DEF o, Levels, MergeRefused, MergePanics, Objects
<1> QED
  BY <1>0, <1>1, <1>2, <1>3, <1>4, <1>5, <1>6

\* mergeRoutingRule puts the api rule behind the others.
LEMMA ApiRuleFacts ==
  ASSUME NEW f \in Conf
  PROVE  LET g == [f EXCEPT !.routing = WithApiRule(f.routing)]
         IN  /\ WithApiRule(f.routing) \in Routing
             /\ Rules(f) \in RuleList
             /\ Rules(g) = Append(Rules(f), "api")
<1> DEFINE o == f.routing
           r == WithApiRule(o)
           g == [f EXCEPT !.routing = r]
<1>0. o \in Routing \cup {Absent, Null, Bad} /\ g.routing = r
  BY DEF Conf
<1>s. <<"api">> \in RuleList /\ <<>> \in RuleList
      /\ <<"api">> = Append(<<>>, "api")
  BY DEF RuleList
<1> HIDE DEF o, r, g
<1>1. CASE ~Objects(o)
  <2>1. r = [rules |-> <<"api">>, mine |-> FALSE]
    BY <1>1 DEF r, WithApiRule
  <2>2. r \in Routing /\ r.rules = <<"api">> /\ r.rules \in RuleList
    BY <1>s, <2>1 DEF Routing
  <2> QED
    BY <1>0, <1>1, <1>s, <2>2, BlockKinds DEF o, r, g, Rules, Objects
<1>2. CASE Objects(o) /\ ~Objects(o.rules)
  <2>1. r = [o EXCEPT !.rules = <<"api">>]
    BY <1>2 DEF r, WithApiRule
  <2>2. r \in Routing /\ r.rules = <<"api">> /\ r.rules \in RuleList
    BY <1>0, <1>2, <1>s, <2>1 DEF Routing, Objects
  <2> QED
    BY <1>0, <1>2, <1>s, <2>2, BlockKinds DEF o, r, g, Rules, Objects
<1>3. CASE Objects(o) /\ Objects(o.rules)
  <2>1. r = [o EXCEPT !.rules = Append(@, "api")]
    BY <1>3 DEF r, WithApiRule
  <2>2. o.rules \in RuleList
    BY <1>0, <1>3 DEF Routing, Objects
  <2>3. r \in Routing /\ r.rules = Append(o.rules, "api") /\ r.rules \in RuleList
    <3>1. Append(o.rules, "api") \in RuleList
      BY <2>2 DEF RuleList
    <3> QED
      BY <1>0, <1>3, <2>1, <3>1 DEF Routing, Objects
  <2> QED
    BY <1>0, <1>3, <2>2, <2>3, BlockKinds DEF o, r, g, Rules, Objects
<1> QED
  BY <1>1, <1>2, <1>3

\* One more inbound or rule for the API, where there was none.
LEMMA CountFacts ==
  /\ \A q \in Seq({"vless", "api", "other"}) :
       (\A i \in DOMAIN q : q[i] # "api") => Count(<<"api">> \o q, "api") = 1
  /\ \A q \in RuleList :
       /\ Count(q, "api") = 0 => Count(Append(q, "api"), "api") = 1
       /\ Count(q, "api") \in Nat
<1>1. ASSUME NEW q \in Seq({"vless", "api", "other"}), \A i \in DOMAIN q : q[i] # "api"
      PROVE  Count(<<"api">> \o q, "api") = 1
  <2>1. /\ DOMAIN (<<"api">> \o q) = 1..(Len(q) + 1) /\ Len(q) \in Nat
        /\ (<<"api">> \o q)[1] = "api"
        /\ \A i \in 2..(Len(q) + 1) : (<<"api">> \o q)[i] = q[i - 1] /\ i - 1 \in DOMAIN q
    OBVIOUS
  <2>2. {i \in DOMAIN (<<"api">> \o q) : (<<"api">> \o q)[i] = "api"} = {1}
    BY <1>1, <2>1
  <2> QED
    BY <2>2, FS_Singleton DEF Count
<1>2. ASSUME NEW q \in RuleList
      PROVE  Count(q, "api") \in Nat /\ (Count(q, "api") = 0 => \A i \in DOMAIN q : q[i] # "api")
  <2>1. IsFiniteSet(1..Len(q)) /\ DOMAIN q = 1..Len(q)
    BY FS_Interval DEF RuleList
  <2>2. IsFiniteSet({i \in DOMAIN q : q[i] = "api"})
    BY <2>1, FS_Subset
  <2> QED
    BY <2>2, FS_CardinalityType, FS_EmptySet DEF Count
<1>3. ASSUME NEW q \in RuleList, \A i \in DOMAIN q : q[i] # "api"
      PROVE  Count(Append(q, "api"), "api") = 1
  <2>1. /\ DOMAIN Append(q, "api") = 1..(Len(q) + 1) /\ Len(q) \in Nat
        /\ Append(q, "api")[Len(q) + 1] = "api"
        /\ \A i \in 1..Len(q) : Append(q, "api")[i] = q[i] /\ i \in DOMAIN q
    BY DEF RuleList
  <2>2. {i \in DOMAIN Append(q, "api") : Append(q, "api")[i] = "api"} = {Len(q) + 1}
    BY <1>3, <2>1
  <2> QED
    BY <2>2, FS_Singleton DEF Count
<1> QED
  BY <1>1, <1>2, <1>3

\* What each edit does to the config, and what none does.
LEMMA EditFacts ==
  ASSUME TypeOK, NEW r \in Req, op[r] \in {"regenerate", "stats", "online"}, ~Panics(r),
         op[r] = "regenerate" => saw[r] \in Key, NEW f \in Edited(r)
  PROVE  /\ f \in Conf
         /\ f.key = IF op[r] = "regenerate" THEN saw[r] ELSE conf.key
         /\ op[r] = "stats" => ~conf.api /\ f.api /\ f.stats
         /\ op[r] # "stats" => f.api = conf.api /\ f.stats = conf.stats
         /\ HasOnlineFlag(conf.policy) \/ op[r] # "regenerate" => HasOnlineFlag(f.policy)
         /\ RulesKept(conf, f)
         /\ op[r] # "stats" => OwnPolicy(conf) \subseteq OwnPolicy(f)
         /\ WiredOnce(conf) => WiredOnce(f)
<1>0. conf \in Conf
  BY DEF TypeOK
<1>1. CASE op[r] = "regenerate"
  <2>1. f = [conf EXCEPT !.key = saw[r]]
    BY <1>1 DEF Edited, SetKey
  <2>2. /\ f \in Conf /\ f.key = saw[r] /\ f.api = conf.api /\ f.stats = conf.stats
        /\ f.policy = conf.policy /\ f.routing = conf.routing /\ f.inbounds = conf.inbounds
    BY <1>0, <1>1, <2>1 DEF Conf
  <2>3. Rules(f) = Rules(conf) /\ OwnPolicy(f) = OwnPolicy(conf)
    BY <2>2 DEF Rules, OwnPolicy
  <2>4. WiredOnce(conf) => WiredOnce(f)
    BY <2>2, <2>3 DEF WiredOnce, ApiRules
  <2> QED
    BY <1>1, <2>2, <2>3, <2>4 DEF RulesKept
<1>2. CASE op[r] = "online"
  <2>1. ~MergeRefused(conf.policy) /\ ~MergePanics(conf.policy)
    BY <1>2 DEF Edited, EnableOnline, Panics
  <2> DEFINE p == MergeOnlineFlag(conf.policy)
  <2>2. f = [conf EXCEPT !.policy = p]
    BY <1>2, <2>1 DEF Edited, EnableOnline
  <2>3. p \in Policy /\ HasOnlineFlag(p) /\ OwnPolicy(conf) \subseteq OwnPolicy(f)
    BY <1>0, <2>1, <2>2, MergeFacts
  <2> HIDE DEF p
  <2>4. /\ f \in Conf /\ f.key = conf.key /\ f.api = conf.api /\ f.stats = conf.stats
        /\ f.policy = p /\ f.routing = conf.routing /\ f.inbounds = conf.inbounds
    BY <1>0, <2>2, <2>3 DEF Conf
  <2>5. Rules(f) = Rules(conf)
    BY <2>4 DEF Rules
  <2>6. WiredOnce(conf) => WiredOnce(f)
    BY <2>4, <2>5 DEF WiredOnce, ApiRules
  <2> QED
    BY <1>2, <2>3, <2>4, <2>5, <2>6 DEF RulesKept
<1>3. CASE op[r] = "stats"
  <2> DEFINE w == WithApiRule(conf.routing)
  <2>1. /\ ~StatsRefused(conf)
        /\ f = [conf EXCEPT !.api = TRUE, !.stats = TRUE, !.policy = StatsPolicy,
                            !.routing = w, !.inbounds = <<"api">> \o @]
    BY <1>3 DEF Edited, EnableStats
  <2>2. w \in Routing /\ Rules(conf) \in RuleList
        /\ Rules([conf EXCEPT !.routing = w]) = Append(Rules(conf), "api")
    BY <1>0, ApiRuleFacts
  <2> HIDE DEF w
  <2>3. <<"api">> \o conf.inbounds \in Seq({"vless", "api", "other"})
        /\ conf.inbounds \in Seq({"vless", "api", "other"})
    BY <1>0 DEF Conf
  <2>4. /\ f \in Conf /\ f.key = conf.key /\ f.api /\ f.stats /\ f.policy = StatsPolicy
        /\ f.routing = w /\ f.inbounds = <<"api">> \o conf.inbounds /\ ~conf.api
    BY <1>0, <2>1, <2>2, <2>3, StatsPolicyFacts DEF Conf, StatsRefused
  <2>5. Rules(f) = Append(Rules(conf), "api")
    <3>1. [conf EXCEPT !.routing = w].routing = w
      BY <1>0 DEF Conf
    <3> QED
      BY <2>2, <2>4, <3>1 DEF Rules
  <2>6. RulesKept(conf, f)
    BY <2>2, <2>5 DEF RulesKept, RuleList
  <2>7. WiredOnce(conf) => WiredOnce(f)
    <3>1. Count(f.inbounds, "api") = 1
      BY <2>1, <2>3, <2>4, CountFacts DEF StatsRefused
    <3>2. WiredOnce(conf) => ApiRules(f) = 1
      BY <2>2, <2>4, <2>5, CountFacts DEF WiredOnce, ApiRules
    <3> QED
      BY <2>4, <3>1, <3>2 DEF WiredOnce
  <2> QED
    BY <1>3, <2>4, <2>6, <2>7, StatsPolicyFacts
<1> QED
  BY <1>1, <1>2, <1>3

-----------------------------------------------------------------------------
(* Every step keeps AdminInv.                                              *)

\* A step that leaves the config alone and takes nobody to the write keeps
\* the pending edits.
LEMMA PendingStays ==
  ASSUME Pending, conf' = conf,
         \A q \in Req : pc'[q] = "write" =>
           /\ pc[q] = "write" /\ op'[q] = op[q] /\ saw'[q] = saw[q] /\ snap'[q] = snap[q]
  PROVE  Pending'
BY DEF Pending, Panics, Edited

\* What is about to be written, and what the edit makes of the config.
LEMMA AboutToWrite ==
  ASSUME AdminInv, NEW r \in Req, pc[r] = "write"
  PROVE  /\ op[r] \in {"regenerate", "stats", "online"} /\ ~Panics(r)
         /\ op[r] = "regenerate" => saw[r] \in Key
         /\ snap[r] \in Edited(r)
         /\ \A q \in Req \ {r} : pc[q] \notin Critical
BY DEF AdminInv, TypeOK, LockHeld, Phases, OpSteps, AllOps, Critical, Pending

\* Lookup keeps the inductive invariant.
LEMMA LookupKeeps ==
  ASSUME AdminInv, NEW r \in Req, Lookup(r)
  PROVE  AdminInv'
<1> USE AdminAssumption DEF AdminInv, Lookup, Goto, Answer, disk, memory
<1>1. TypeOK'
  BY DEF TypeOK, Steps, Phases, Yaml
<1>2. LockHeld'
  BY DEF TypeOK, LockHeld, Critical
<1>3. Phases'
  BY DEF TypeOK, Phases, OpSteps, AllOps, Critical
<1>4. Pending'
  BY PendingStays DEF TypeOK
<1>5. OneWired'
  BY DEF TypeOK, OneWired, Wired, Past, Phases, OpSteps, AllOps
<1> QED
  BY <1>1, <1>2, <1>3, <1>4, <1>5

\* StoreKey keeps the inductive invariant.
LEMMA StoreKeyKeeps ==
  ASSUME AdminInv, NEW r \in Req, StoreKey(r)
  PROVE  AdminInv'
<1> USE AdminAssumption DEF AdminInv, StoreKey, Goto, Answer, disk, memory
<1>1. TypeOK'
  BY DEF TypeOK, Steps, Phases, Yaml
<1>2. LockHeld'
  BY DEF TypeOK, LockHeld, Critical
<1>3. Phases'
  BY DEF TypeOK, Phases, OpSteps, AllOps, Critical
<1>4. Pending'
  BY PendingStays DEF TypeOK
<1>5. OneWired'
  BY DEF TypeOK, OneWired, Wired, Past, Phases, OpSteps, AllOps
<1> QED
  BY <1>1, <1>2, <1>3, <1>4, <1>5

\* DeriveFails keeps the inductive invariant.
LEMMA DeriveFailsKeeps ==
  ASSUME AdminInv, NEW r \in Req, DeriveFails(r)
  PROVE  AdminInv'
<1> USE AdminAssumption DEF AdminInv, DeriveFails, Goto, Answer, disk, memory
<1>1. TypeOK'
  BY DEF TypeOK, Steps, Phases, Yaml
<1>2. LockHeld'
  BY DEF TypeOK, LockHeld, Critical
<1>3. Phases'
  BY DEF TypeOK, Phases, OpSteps, AllOps, Critical
<1>4. Pending'
  BY PendingStays DEF TypeOK
<1>5. OneWired'
  BY DEF TypeOK, OneWired, Wired, Past, Phases, OpSteps, AllOps
<1> QED
  BY <1>1, <1>2, <1>3, <1>4, <1>5

\* Generate keeps the inductive invariant.
LEMMA GenerateKeeps ==
  ASSUME AdminInv, NEW r \in Req, Generate(r)
  PROVE  AdminInv'
<1> USE AdminAssumption DEF AdminInv, Generate, Goto, Answer, disk, memory
<1>1. TypeOK'
  BY DEF TypeOK, Steps, Phases, Yaml
<1>2. LockHeld'
  BY DEF TypeOK, LockHeld, Critical
<1>3. Phases'
  BY DEF TypeOK, Phases, OpSteps, AllOps, Critical
<1>4. Pending'
  BY PendingStays DEF TypeOK
<1>5. OneWired'
  BY DEF TypeOK, OneWired, Wired, Past, Phases, OpSteps, AllOps
<1> QED
  BY <1>1, <1>2, <1>3, <1>4, <1>5

\* GenerateFails keeps the inductive invariant.
LEMMA GenerateFailsKeeps ==
  ASSUME AdminInv, NEW r \in Req, GenerateFails(r)
  PROVE  AdminInv'
<1> USE AdminAssumption DEF AdminInv, GenerateFails, Goto, Answer, disk, memory
<1>1. TypeOK'
  BY DEF TypeOK, Steps, Phases, Yaml
<1>2. LockHeld'
  BY DEF TypeOK, LockHeld, Critical
<1>3. Phases'
  BY DEF TypeOK, Phases, OpSteps, AllOps, Critical
<1>4. Pending'
  BY PendingStays DEF TypeOK
<1>5. OneWired'
  BY DEF TypeOK, OneWired, Wired, Past, Phases, OpSteps, AllOps
<1> QED
  BY <1>1, <1>2, <1>3, <1>4, <1>5

\* Target keeps the inductive invariant.
LEMMA TargetKeeps ==
  ASSUME AdminInv, NEW r \in Req, Target(r)
  PROVE  AdminInv'
<1> USE AdminAssumption DEF AdminInv, Target, Goto, Answer, disk, memory
<1>1. TypeOK'
  BY DEF TypeOK, Steps, Phases, Yaml
<1>2. LockHeld'
  BY DEF TypeOK, LockHeld, Critical
<1>3. Phases'
  BY DEF TypeOK, Phases, OpSteps, AllOps, Critical
<1>4. Pending'
  BY PendingStays DEF TypeOK
<1>5. OneWired'
  BY DEF TypeOK, OneWired, Wired, Past, Phases, OpSteps, AllOps
<1> QED
  BY <1>1, <1>2, <1>3, <1>4, <1>5

\* Preread keeps the inductive invariant.
LEMMA PrereadKeeps ==
  ASSUME AdminInv, NEW r \in Req, Preread(r)
  PROVE  AdminInv'
<1> USE AdminAssumption DEF AdminInv, Preread, Goto, Answer, disk, memory
<1>1. TypeOK'
  BY DEF TypeOK, Steps, Phases, Yaml
<1>2. LockHeld'
  BY DEF TypeOK, LockHeld, Critical
<1>3. Phases'
  BY DEF TypeOK, Phases, OpSteps, AllOps, Critical
<1>4. Pending'
  BY PendingStays DEF TypeOK
<1>5. OneWired'
  BY DEF TypeOK, OneWired, Wired, Past, Phases, OpSteps, AllOps
<1> QED
  BY <1>1, <1>2, <1>3, <1>4, <1>5

\* Lock keeps the inductive invariant.
LEMMA LockKeeps ==
  ASSUME AdminInv, NEW r \in Req, Lock(r)
  PROVE  AdminInv'
<1> USE AdminAssumption DEF AdminInv, Lock, Goto, Answer, disk, memory
<1>1. TypeOK'
  BY DEF TypeOK, Steps, Phases, Yaml
<1>2. LockHeld'
  BY DEF TypeOK, LockHeld, Critical
<1>3. Phases'
  BY DEF TypeOK, Phases, OpSteps, AllOps, Critical
<1>4. Pending'
  BY PendingStays DEF TypeOK
<1>5. OneWired'
  BY DEF TypeOK, OneWired, Wired, Past, Phases, OpSteps, AllOps
<1> QED
  BY <1>1, <1>2, <1>3, <1>4, <1>5

\* Edit keeps the inductive invariant.
LEMMA EditKeeps ==
  ASSUME AdminInv, NEW r \in Req, Edit(r)
  PROVE  AdminInv'
<1> USE AdminAssumption DEF AdminInv, Edit, Goto, Answer, disk, memory
<1>1. TypeOK'
  <2>1. op[r] \in {"regenerate", "stats", "online"} /\ (op[r] = "regenerate" => saw[r] \in Key)
    BY DEF TypeOK, Phases, OpSteps, AllOps, Critical
  <2>2. \A f \in Edited(r) : f \in Conf
    BY <2>1, EditFacts
  <2> QED
    BY <2>2 DEF TypeOK, Steps
<1>2. LockHeld'
  BY DEF TypeOK, LockHeld, Critical
<1>3. Phases'
  BY DEF TypeOK, Phases, OpSteps, AllOps, Critical
<1>4. Pending'
  <2>1. \A q \in Req : (Panics(q) <=> Panics(q)') /\ Edited(q)' = Edited(q)
    BY DEF Panics, Edited
  <2>2. snap'[r] \in Edited(r) /\ \A q \in Req \ {r} : snap'[q] = snap[q] /\ pc'[q] = pc[q]
    BY DEF TypeOK
  <2> QED
    BY <2>1, <2>2 DEF Pending
<1>5. OneWired'
  BY DEF TypeOK, OneWired, Wired, Past, Phases, OpSteps, AllOps
<1> QED
  BY <1>1, <1>2, <1>3, <1>4, <1>5

\* EditRefused keeps the inductive invariant.
LEMMA EditRefusedKeeps ==
  ASSUME AdminInv, NEW r \in Req, EditRefused(r)
  PROVE  AdminInv'
<1> USE AdminAssumption DEF AdminInv, EditRefused, Goto, Answer, Abandon, disk, memory
<1>1. TypeOK'
  BY DEF TypeOK, Steps, Phases, Yaml
<1>2. LockHeld'
  BY DEF TypeOK, LockHeld, Critical
<1>3. Phases'
  BY DEF TypeOK, Phases, OpSteps, AllOps, Critical
<1>4. Pending'
  BY PendingStays DEF TypeOK
<1>5. OneWired'
  BY DEF TypeOK, OneWired, Wired, Past, Phases, OpSteps, AllOps
<1> QED
  BY <1>1, <1>2, <1>3, <1>4, <1>5

\* Write keeps the inductive invariant.
LEMMA WriteKeeps ==
  ASSUME AdminInv, NEW r \in Req, Write(r)
  PROVE  AdminInv'
<1> USE AdminAssumption DEF AdminInv, Write, Goto, Answer, disk, memory
<1>1. TypeOK'
  <2>1. snap[r] \in Conf
    BY AboutToWrite, EditFacts
  <2> QED
    BY <2>1 DEF TypeOK, Steps, Crossing
<1>2. LockHeld'
  BY DEF TypeOK, LockHeld, Critical
<1>3. Phases'
  BY DEF TypeOK, Phases, OpSteps, AllOps, Critical
<1>4. Pending'
  BY AboutToWrite DEF TypeOK, Pending, Critical
<1>5. OneWired'
  <2>1. /\ op[r] = "stats" => ~conf.api /\ conf'.api /\ conf'.stats
        /\ op[r] # "stats" => conf'.api = conf.api /\ conf'.stats = conf.stats
    BY AboutToWrite, EditFacts
  <2> QED
    BY <2>1 DEF TypeOK, OneWired, Wired, Past
<1> QED
  BY <1>1, <1>2, <1>3, <1>4, <1>5

\* ConfigIOFails keeps the inductive invariant.
LEMMA ConfigIOFailsKeeps ==
  ASSUME AdminInv, NEW r \in Req, ConfigIOFails(r)
  PROVE  AdminInv'
<1> USE AdminAssumption DEF AdminInv, ConfigIOFails, Goto, Answer, Abandon, disk, memory
<1>1. TypeOK'
  BY DEF TypeOK, Steps, Phases, Yaml
<1>2. LockHeld'
  BY DEF TypeOK, LockHeld, Critical
<1>3. Phases'
  BY DEF TypeOK, Phases, OpSteps, AllOps, Critical
<1>4. Pending'
  BY PendingStays DEF TypeOK
<1>5. OneWired'
  BY DEF TypeOK, OneWired, Wired, Past, Phases, OpSteps, AllOps
<1> QED
  BY <1>1, <1>2, <1>3, <1>4, <1>5

\* Restart keeps the inductive invariant.
LEMMA RestartKeeps ==
  ASSUME AdminInv, NEW r \in Req, Restart(r)
  PROVE  AdminInv'
<1> USE AdminAssumption DEF AdminInv, Restart, Goto, Answer, Unlocked, disk, memory
<1>1. TypeOK'
  BY DEF TypeOK, Steps, Phases, Yaml
<1>2. LockHeld'
  BY DEF TypeOK, LockHeld, Critical
<1>3. Phases'
  BY DEF TypeOK, Phases, OpSteps, AllOps, Critical
<1>4. Pending'
  BY PendingStays DEF TypeOK
<1>5. OneWired'
  BY DEF TypeOK, OneWired, Wired, Past, Phases, OpSteps, AllOps
<1> QED
  BY <1>1, <1>2, <1>3, <1>4, <1>5

\* RestartFails keeps the inductive invariant.
LEMMA RestartFailsKeeps ==
  ASSUME AdminInv, NEW r \in Req, RestartFails(r)
  PROVE  AdminInv'
<1> USE AdminAssumption DEF AdminInv, RestartFails, Goto, Answer, Abandon, disk, memory
<1>1. TypeOK'
  BY DEF TypeOK, Steps, Phases, Yaml
<1>2. LockHeld'
  BY DEF TypeOK, LockHeld, Critical
<1>3. Phases'
  BY DEF TypeOK, Phases, OpSteps, AllOps, Critical
<1>4. Pending'
  BY PendingStays DEF TypeOK
<1>5. OneWired'
  BY DEF TypeOK, OneWired, Wired, Past, Phases, OpSteps, AllOps
<1> QED
  BY <1>1, <1>2, <1>3, <1>4, <1>5

\* Invalidate keeps the inductive invariant.
LEMMA InvalidateKeeps ==
  ASSUME AdminInv, NEW r \in Req, Invalidate(r)
  PROVE  AdminInv'
<1> USE AdminAssumption DEF AdminInv, Invalidate, Goto, Answer, disk, memory
<1>1. TypeOK'
  BY DEF TypeOK, Steps, Phases, Yaml
<1>2. LockHeld'
  BY DEF TypeOK, LockHeld, Critical
<1>3. Phases'
  BY DEF TypeOK, Phases, OpSteps, AllOps, Critical
<1>4. Pending'
  BY PendingStays DEF TypeOK
<1>5. OneWired'
  BY DEF TypeOK, OneWired, Wired, Past, Phases, OpSteps, AllOps
<1> QED
  BY <1>1, <1>2, <1>3, <1>4, <1>5

\* AssignHalf keeps the inductive invariant.
LEMMA AssignHalfKeeps ==
  ASSUME AdminInv, NEW r \in Req, AssignHalf(r)
  PROVE  AdminInv'
<1> USE AdminAssumption DEF AdminInv, AssignHalf, Goto, Answer, disk, memory
<1>1. TypeOK'
  BY DEF TypeOK, Steps, Phases, Yaml
<1>2. LockHeld'
  BY DEF TypeOK, LockHeld, Critical
<1>3. Phases'
  BY DEF TypeOK, Phases, OpSteps, AllOps, Critical
<1>4. Pending'
  BY PendingStays DEF TypeOK
<1>5. OneWired'
  BY DEF TypeOK, OneWired, Wired, Past, Phases, OpSteps, AllOps
<1> QED
  BY <1>1, <1>2, <1>3, <1>4, <1>5

\* Assign keeps the inductive invariant.
LEMMA AssignKeeps ==
  ASSUME AdminInv, NEW r \in Req, Assign(r)
  PROVE  AdminInv'
<1> USE AdminAssumption DEF AdminInv, Assign, Goto, Answer, disk, memory
<1>1. TypeOK'
  BY DEF TypeOK, Steps, Phases, Yaml
<1>2. LockHeld'
  BY DEF TypeOK, LockHeld, Critical
<1>3. Phases'
  BY DEF TypeOK, Phases, OpSteps, AllOps, Critical
<1>4. Pending'
  BY PendingStays DEF TypeOK
<1>5. OneWired'
  BY DEF TypeOK, OneWired, Wired, Past, Phases, OpSteps, AllOps
<1> QED
  BY <1>1, <1>2, <1>3, <1>4, <1>5

\* WriteYamlBak keeps the inductive invariant.
LEMMA WriteYamlBakKeeps ==
  ASSUME AdminInv, NEW r \in Req, WriteYamlBak(r)
  PROVE  AdminInv'
<1> USE AdminAssumption DEF AdminInv, WriteYamlBak, Goto, Answer, disk, memory
<1>1. TypeOK'
  BY DEF TypeOK, Steps, Phases, Yaml
<1>2. LockHeld'
  BY DEF TypeOK, LockHeld, Critical
<1>3. Phases'
  BY DEF TypeOK, Phases, OpSteps, AllOps, Critical
<1>4. Pending'
  BY PendingStays DEF TypeOK
<1>5. OneWired'
  BY DEF TypeOK, OneWired, Wired, Past, Phases, OpSteps, AllOps
<1> QED
  BY <1>1, <1>2, <1>3, <1>4, <1>5

\* WriteYamlTmp keeps the inductive invariant.
LEMMA WriteYamlTmpKeeps ==
  ASSUME AdminInv, NEW r \in Req, WriteYamlTmp(r)
  PROVE  AdminInv'
<1> USE AdminAssumption DEF AdminInv, WriteYamlTmp, Goto, Answer, disk, memory
<1>1. TypeOK'
  BY DEF TypeOK, Steps, Phases, Yaml
<1>2. LockHeld'
  BY DEF TypeOK, LockHeld, Critical
<1>3. Phases'
  BY DEF TypeOK, Phases, OpSteps, AllOps, Critical
<1>4. Pending'
  BY PendingStays DEF TypeOK
<1>5. OneWired'
  BY DEF TypeOK, OneWired, Wired, Past, Phases, OpSteps, AllOps
<1> QED
  BY <1>1, <1>2, <1>3, <1>4, <1>5

\* RenameYaml keeps the inductive invariant.
LEMMA RenameYamlKeeps ==
  ASSUME AdminInv, NEW r \in Req, RenameYaml(r)
  PROVE  AdminInv'
<1> USE AdminAssumption DEF AdminInv, RenameYaml, Goto, Answer, disk, memory
<1>1. TypeOK'
  BY DEF TypeOK, Steps, Phases, Yaml, OneWired
<1>2. LockHeld'
  BY DEF TypeOK, LockHeld, Critical
<1>3. Phases'
  BY DEF TypeOK, Phases, OpSteps, AllOps, Critical
<1>4. Pending'
  BY PendingStays DEF TypeOK
<1>5. OneWired'
  BY DEF TypeOK, OneWired, Wired, Past, Phases, OpSteps, AllOps
<1> QED
  BY <1>1, <1>2, <1>3, <1>4, <1>5

\* YamlFails keeps the inductive invariant.
LEMMA YamlFailsKeeps ==
  ASSUME AdminInv, NEW r \in Req, YamlFails(r)
  PROVE  AdminInv'
<1> USE AdminAssumption DEF AdminInv, YamlFails, Goto, Answer, disk, memory
<1>1. TypeOK'
  BY DEF TypeOK, Steps, Phases, Yaml
<1>2. LockHeld'
  BY DEF TypeOK, LockHeld, Critical
<1>3. Phases'
  BY DEF TypeOK, Phases, OpSteps, AllOps, Critical
<1>4. Pending'
  BY PendingStays DEF TypeOK
<1>5. OneWired'
  BY DEF TypeOK, OneWired, Wired, Past, Phases, OpSteps, AllOps
<1> QED
  BY <1>1, <1>2, <1>3, <1>4, <1>5

\* Arrive keeps the inductive invariant.
LEMMA ArriveKeeps ==
  ASSUME AdminInv, NEW r \in Req, Arrive(r)
  PROVE  AdminInv'
<1> USE AdminAssumption DEF AdminInv, Arrive, Goto, disk, memory
<1>0. PICK o \in Ops : /\ op' = [op EXCEPT ![r] = o] /\ o \in AllOps /\ o # "none"
                       /\ pc' = [pc EXCEPT ![r] = FirstStep(o)]
                       /\ saw' = [saw EXCEPT ![r] = IF o = "link" THEN conf.key ELSE None]
  BY DEF AllOps
<1>1. FirstStep(o) \in {"lookup", "generate", "target", "preread"} /\ FirstStep(o) \in OpSteps(o)
      /\ conf.key \in Key
  BY <1>0 DEF AllOps, FirstStep, OpSteps, TypeOK, Conf
<1>2. TypeOK'
  BY <1>0, <1>1 DEF TypeOK, Steps
<1>3. LockHeld'
  BY <1>0, <1>1 DEF TypeOK, LockHeld, Critical
<1>4. Phases'
  BY <1>0, <1>1 DEF TypeOK, Phases, Critical
<1>5. Pending'
  BY <1>0, <1>1, PendingStays DEF TypeOK
<1>6. OneWired'
  BY <1>0, <1>1 DEF TypeOK, OneWired, Wired, Past, Phases
<1> QED
  BY <1>2, <1>3, <1>4, <1>5, <1>6

\* After a crash nobody is in the middle of anything.
LEMMA CrashKeeps ==
  ASSUME AdminInv, Crash
  PROVE  AdminInv'
<1> USE AdminAssumption DEF AdminInv, Crash, InFlight
<1>0. /\ \A r \in Req : pc'[r] = (IF pc[r] = "new" THEN "new" ELSE "done")
      /\ \A r \in Req : answer'[r] = answer[r] \/ answer'[r] = "cut"
      /\ \A r \in Req : pc'[r] = "new" => answer'[r] = answer[r]
  BY DEF TypeOK
<1>1. TypeOK'
  BY DEF TypeOK, Steps, Yaml
<1>2. LockHeld'
  BY <1>0 DEF TypeOK, LockHeld, Critical
<1>3. Phases'
  BY <1>0 DEF TypeOK, Phases, OpSteps, AllOps, Critical
<1>4. Pending'
  BY <1>0 DEF Pending
<1>5. OneWired'
  BY <1>0 DEF OneWired, Wired, Past
<1> QED
  BY <1>1, <1>2, <1>3, <1>4, <1>5

\* Every step keeps the invariant.
LEMMA AdminStep ==
  ASSUME AdminInv, [Next]_vars
  PROVE  AdminInv'
<1>1. ASSUME NEW r \in Req, Step(r)
      PROVE  AdminInv'
  BY <1>1, LookupKeeps, StoreKeyKeeps, DeriveFailsKeeps, GenerateKeeps, GenerateFailsKeeps,
     TargetKeeps, PrereadKeeps, LockKeeps, EditKeeps, EditRefusedKeeps, WriteKeeps,
     ConfigIOFailsKeeps, RestartKeeps, RestartFailsKeeps, InvalidateKeeps, AssignHalfKeeps,
     AssignKeeps, WriteYamlBakKeeps, WriteYamlTmpKeeps, RenameYamlKeeps, YamlFailsKeeps
     DEF Step
<1>2. CASE UNCHANGED vars
  <2> USE <1>2 DEF AdminInv, vars, disk, memory, local
  <2>1. TypeOK' /\ LockHeld' /\ Phases' /\ OneWired'
    BY DEF TypeOK, LockHeld, Phases, OneWired, Wired
  <2>2. Pending'
    BY PendingStays
  <2> QED
    BY <2>1, <2>2
<1> QED
  BY <1>1, <1>2, ArriveKeeps, CrashKeeps DEF Next, Terminated

\* It holds at the start.
LEMMA AdminInit == Init => AdminInv
<1> SUFFICES ASSUME Init PROVE AdminInv
  OBVIOUS
<1>1. TypeOK
  BY AdminAssumption DEF Init, TypeOK, Steps, Yaml
<1>2. LockHeld /\ Phases /\ Pending /\ OneWired
  BY AdminAssumption DEF Init, LockHeld, Critical, Phases, AllOps, Pending, OneWired, Wired, Past
<1> QED
  BY <1>1, <1>2 DEF AdminInv

\* The invariant of the admin requests always holds.
THEOREM AdminInvariant == Spec => []AdminInv
<1>1. AdminInv /\ [Next]_vars => AdminInv'
  BY AdminStep
<1> QED
  BY <1>1, AdminInit, PTL DEF Spec

\* Every variable keeps its type.
THEOREM AdminTypeCorrect == Spec => []TypeOK
<1>1. AdminInv => TypeOK
  BY DEF AdminInv
<1> QED
  BY <1>1, AdminInvariant, PTL

\* The panel can start again whenever it dies (config.go:152-161): panel.yaml
\* is never half a file, whichever requests rewrite it and wherever they fail.
THEOREM YamlAlwaysLoads == Spec => []YamlLoads
<1>1. AdminInv => YamlLoads
  BY DEF AdminInv, OneWired, YamlLoads
<1> QED
  BY <1>1, AdminInvariant, PTL

-----------------------------------------------------------------------------
(* The public key in memory.                                               *)

\* The rename of an edit changes the key only for a regenerate.
LEMMA WriteKeepsKey ==
  ASSUME AdminInv, KeyInv, NEW r \in Req, Write(r)
  PROVE  KeyInv'
<1> USE DEF Write, Goto, memory
<1>1. /\ op[r] \in {"regenerate", "stats", "online"}
      /\ conf'.key = IF op[r] = "regenerate" THEN saw[r] ELSE conf.key
      /\ \A q \in Req \ {r} : pc[q] \notin Critical
      /\ pc' = [pc EXCEPT ![r] = "restart"] /\ UNCHANGED <<pubKey, op, saw, answer>>
  BY AboutToWrite, EditFacts DEF AdminInv
<1>2. \A q \in Req : op[q] = "link" /\ pc'[q] \in {"lookup", "store"} =>
                       saw[q] = conf'.key \/ q \in crossed'
  BY <1>1 DEF AdminInv, TypeOK, KeyInv, Crossing
<1>3. \A q \in Req : op[q] = "regenerate" /\ pc'[q] = "restart" => saw[q] = conf'.key
  BY <1>1 DEF AdminInv, TypeOK, Critical
<1>4. StaleKeyExplained'
  <2>1. CASE op[r] = "regenerate"
    BY <1>1, <2>1 DEF AdminInv, TypeOK, StaleKeyExplained, Regenerating
  <2>2. CASE op[r] # "regenerate"
    BY <1>1, <2>2 DEF AdminInv, TypeOK, KeyInv, StaleKeyExplained, Stale, Regenerating
  <2> QED
    BY <2>1, <2>2
<1> QED
  BY <1>1, <1>2, <1>3, <1>4 DEF KeyInv

\* What a step of another kind does not touch.
LEMMA KeyStays ==
  ASSUME KeyInv, UNCHANGED <<conf, pubKey, crossed>>, crossed \subseteq Req,
         \A q \in Req :
           /\ op'[q] = "link" /\ pc'[q] \in {"lookup", "store"} =>
                \/ saw'[q] = conf.key
                \/ op[q] = "link" /\ pc[q] \in {"lookup", "store"} /\ saw'[q] = saw[q]
           /\ op'[q] = "regenerate" /\ pc'[q] = "restart" =>
                op[q] = "regenerate" /\ pc[q] = "restart" /\ saw'[q] = saw[q]
           /\ Regenerating(q) =>
                \/ Regenerating(q)'
                \/ op'[q] = "regenerate" /\ answer'[q] = "error" /\ saw'[q] = conf.key
           /\ answer[q] \in {"error", "ok"} =>
                op'[q] = op[q] /\ answer'[q] = answer[q] /\ saw'[q] = saw[q]
  PROVE  KeyInv'
<1>1. \A q \in Req : op'[q] = "link" /\ pc'[q] \in {"lookup", "store"} =>
                       saw'[q] = conf'.key \/ q \in crossed'
  BY DEF KeyInv
<1>2. \A q \in Req : op'[q] = "regenerate" /\ pc'[q] = "restart" => saw'[q] = conf'.key
  BY DEF KeyInv
<1>3. Stale <=> Stale'
  BY DEF Stale
<1>4. ASSUME Stale
      PROVE  \/ \E q \in Req : Regenerating(q)'
             \/ \E q \in Req : op'[q] = "regenerate" /\ answer'[q] = "error" /\ saw'[q] = conf'.key
             \/ \E q \in crossed' : answer'[q] = "ok" /\ saw'[q] = pubKey'
  BY <1>4 DEF KeyInv, StaleKeyExplained
<1> QED
  BY <1>1, <1>2, <1>3, <1>4 DEF KeyInv, StaleKeyExplained

\* Every step keeps the public key explained.
LEMMA KeyStep ==
  ASSUME AdminInv, KeyInv, [Next]_vars
  PROVE  KeyInv'
<1> USE AdminAssumption DEF AdminInv
<1>0. crossed \subseteq Req
  BY DEF TypeOK
<1>1. ASSUME NEW r \in Req, Step(r)
      PROVE  KeyInv'
  <2> USE DEF Goto, Answer, disk, memory
  <2>1. CASE Lookup(r)
    BY <2>1, <1>0, KeyStays DEF Lookup, TypeOK, Phases, Regenerating
  <2>2. CASE StoreKey(r)
    <3>1. /\ op[r] = "link" /\ (saw[r] = conf.key \/ r \in crossed) /\ pubKey' = saw[r]
          /\ answer' = [answer EXCEPT ![r] = "ok"] /\ pc' = [pc EXCEPT ![r] = "done"]
          /\ UNCHANGED <<conf, op, saw, crossed>>
      BY <2>2 DEF StoreKey, Phases, OpSteps, AllOps, KeyInv
    <3>2. Stale' => r \in crossed'
      BY <3>1 DEF Stale
    <3>3. StaleKeyExplained'
      BY <3>1, <3>2 DEF StaleKeyExplained, TypeOK
    <3> QED
      BY <3>1, <3>3 DEF KeyInv, TypeOK
  <2>3. CASE DeriveFails(r) \/ GenerateFails(r) \/ Generate(r) \/ Target(r) \/ Preread(r)
    BY <2>3, <1>0, KeyStays
       DEF DeriveFails, GenerateFails, Generate, Target, Preread, TypeOK, Phases, Regenerating
  <2>4. CASE Lock(r) \/ Edit(r) \/ EditRefused(r) \/ ConfigIOFails(r)
    BY <2>4, <1>0, KeyStays
       DEF Lock, Edit, EditRefused, ConfigIOFails, Abandon, TypeOK, Phases, Regenerating
  <2>5. CASE Write(r)
    BY <2>5, WriteKeepsKey
  <2>6. CASE Restart(r)
    BY <2>6, <1>0, KeyStays DEF Restart, Unlocked, TypeOK, Phases, Regenerating
  <2>7. CASE RestartFails(r)
    <3>1. op[r] = "regenerate" => saw[r] = conf.key
      BY <2>7 DEF RestartFails, KeyInv
    <3> QED
      BY <2>7, <3>1, <1>0, KeyStays DEF RestartFails, Abandon, TypeOK, Phases, Regenerating
  <2>8. CASE Invalidate(r)
    BY <2>8 DEF Invalidate, KeyInv, StaleKeyExplained, Stale, TypeOK
  <2>9. CASE AssignHalf(r) \/ Assign(r) \/ WriteYamlBak(r) \/ WriteYamlTmp(r)
    BY <2>9, <1>0, KeyStays
       DEF AssignHalf, Assign, WriteYamlBak, WriteYamlTmp, TypeOK, Phases, Regenerating
  <2>10. CASE RenameYaml(r) \/ YamlFails(r)
    BY <2>10, <1>0, KeyStays DEF RenameYaml, YamlFails, TypeOK, Phases, Regenerating
  <2> QED
    BY <1>1, <2>1, <2>2, <2>3, <2>4, <2>5, <2>6, <2>7, <2>8, <2>9, <2>10 DEF Step
<1>2. ASSUME NEW r \in Req, Arrive(r)
      PROVE  KeyInv'
  <2>1. PICK o \in Ops : /\ op' = [op EXCEPT ![r] = o]
                         /\ pc' = [pc EXCEPT ![r] = FirstStep(o)]
                         /\ saw' = [saw EXCEPT ![r] = IF o = "link" THEN conf.key ELSE None]
    BY <1>2 DEF Arrive, Goto
  <2>2. FirstStep(o) # "restart"
    BY DEF FirstStep, AllOps
  <2> QED
    BY <1>2, <2>1, <2>2, <1>0, KeyStays DEF Arrive, disk, memory, TypeOK, Phases, Regenerating
<1>3. CASE Crash
  BY <1>3 DEF Crash, InFlight, KeyInv, StaleKeyExplained, Stale, TypeOK
<1>4. CASE UNCHANGED vars
  BY <1>4, <1>0, KeyStays DEF vars, disk, memory, local, Regenerating
<1> QED
  BY <1>1, <1>2, <1>3, <1>4 DEF Next, Terminated

\* A wrong public key stays in memory only for the two reasons given, whatever
\* requests come and whatever fails (server.go:97-121).
THEOREM StaleKeysAreExplained == Spec => []StaleKeyExplained
<1>1. Init => KeyInv
  BY DEF Init, KeyInv, StaleKeyExplained, Stale
<1>2. AdminInv /\ KeyInv /\ [Next]_vars => KeyInv'
  BY KeyStep
<1>3. KeyInv => StaleKeyExplained
  BY DEF KeyInv
<1> QED
  BY <1>1, <1>2, <1>3, AdminInvariant, PTL DEF Spec

-----------------------------------------------------------------------------
(* The online flag.                                                        *)

\* A step that leaves the config alone keeps the flag for everybody who was
\* told of it, if the request it answers has seen or written it.
LEMMA OnlineStays ==
  ASSUME OnlineInv, conf' = conf,
         \A q \in Req :
           \/ op'[q] = op[q] /\ pc'[q] = pc[q] /\ answer'[q] = answer[q]
           \/ op'[q] = "online" /\ pc'[q] # "restart" /\ answer'[q] \notin {"ok", "already"}
           \/ op'[q] = "stats" /\ pc'[q] \notin Past /\ answer'[q] \notin {"ok", "warning"}
           \/ op'[q] \notin {"online", "stats"}
           \/ HasOnlineFlag(conf.policy)
  PROVE  OnlineInv'
BY DEF OnlineInv, OnlineSticks

\* No step switches the online tracking off.
LEMMA OnlineStep ==
  ASSUME AdminInv, OnlineInv, [Next]_vars
  PROVE  OnlineInv'
<1> USE AdminAssumption DEF AdminInv
<1>1. ASSUME NEW r \in Req, Step(r)
      PROVE  OnlineInv'
  <2> USE DEF Goto, Answer, disk, memory
  <2>1. CASE Lookup(r) \/ StoreKey(r) \/ DeriveFails(r) \/ Generate(r) \/ GenerateFails(r)
             \/ Invalidate(r)
    BY <2>1, OnlineStays DEF Lookup, StoreKey, DeriveFails, Generate, GenerateFails, Invalidate,
                             TypeOK, Phases, OpSteps, AllOps
  <2>2. CASE Target(r) \/ Preread(r)
    BY <2>2, OnlineStays DEF Target, Preread, TypeOK, Phases, OpSteps, AllOps, Past
  <2>3. CASE Lock(r) \/ Edit(r) \/ EditRefused(r) \/ ConfigIOFails(r)
    BY <2>3, OnlineStays DEF Lock, Edit, EditRefused, ConfigIOFails, Abandon, TypeOK, Phases,
                             OpSteps, AllOps, Past
  <2>4. CASE Write(r)
    <3>1. /\ HasOnlineFlag(conf.policy) \/ op[r] # "regenerate" => HasOnlineFlag(conf'.policy)
          /\ UNCHANGED <<op, answer>> /\ pc' = [pc EXCEPT ![r] = "restart"]
      BY <2>4, AboutToWrite, EditFacts DEF Write
    <3>2. ASSUME NEW q \in Req, pc'[q] # pc[q] PROVE q = r
      BY <3>1, <3>2 DEF TypeOK
    <3> QED
      BY <3>1, <3>2 DEF OnlineInv, OnlineSticks
  <2>5. CASE Restart(r) \/ RestartFails(r)
    BY <2>5, OnlineStays DEF Restart, RestartFails, Unlocked, Abandon, TypeOK, OnlineInv, Past,
                             Phases, OpSteps, AllOps
  <2>6. CASE AssignHalf(r) \/ Assign(r) \/ WriteYamlBak(r) \/ WriteYamlTmp(r)
             \/ RenameYaml(r) \/ YamlFails(r)
    BY <2>6, OnlineStays DEF AssignHalf, Assign, WriteYamlBak, WriteYamlTmp, RenameYaml,
                             YamlFails, TypeOK, OnlineInv, Past, Phases, OpSteps, AllOps
  <2> QED
    BY <1>1, <2>1, <2>2, <2>3, <2>4, <2>5, <2>6 DEF Step
<1>2. ASSUME NEW r \in Req, Arrive(r)
      PROVE  OnlineInv'
  <2>1. PICK o \in Ops : /\ op' = [op EXCEPT ![r] = o] /\ pc' = [pc EXCEPT ![r] = FirstStep(o)]
    BY <1>2 DEF Arrive, Goto
  <2>2. FirstStep(o) \notin Past
    BY DEF FirstStep, AllOps, Past
  <2> QED
    BY <1>2, <2>1, <2>2, OnlineStays DEF Arrive, disk, memory, TypeOK, Phases, Past
<1>3. CASE Crash
  <2>1. \A q \in Req : \/ pc'[q] = pc[q] /\ answer'[q] = answer[q]
                       \/ pc'[q] = "done" /\ answer'[q] = "cut"
    BY <1>3 DEF Crash, InFlight, TypeOK
  <2> QED
    BY <1>3, <2>1 DEF Crash, OnlineInv, OnlineSticks, Past
<1>4. CASE UNCHANGED vars
  BY <1>4, OnlineStays DEF vars, disk, memory, local
<1> QED
  BY <1>1, <1>2, <1>3, <1>4 DEF Next, Terminated

\* Once a request was told that online tracking is on, no request takes it back
\* (server_admin.go:243-280), for any policies the panel may be installed on.
THEOREM OnlineTrackingSticks == Spec => []OnlineSticks
<1>1. Init => OnlineInv
  BY DEF Init, OnlineInv, OnlineSticks, Past
<1>2. AdminInv /\ OnlineInv /\ [Next]_vars => OnlineInv'
  BY OnlineStep
<1>3. OnlineInv => OnlineSticks
  BY DEF OnlineInv
<1> QED
  BY <1>1, <1>2, <1>3, AdminInvariant, PTL DEF Spec

-----------------------------------------------------------------------------
(* The stats API in the config, in panel.yaml and in memory.               *)

\* A step that touches none of the three keeps them in step, if no request
\* gets behind the write or ends there.
LEMMA StatsStays ==
  ASSUME StatsInv, UNCHANGED <<conf, yaml, statsAPI>>,
         \A q \in Req :
           op[q] = "stats" \/ op'[q] = "stats" =>
             \/ op'[q] = op[q] /\ pc'[q] = pc[q] /\ answer'[q] = answer[q]
             \/ pc[q] \notin Past /\ pc'[q] \notin Past /\ answer[q] = "none" /\ answer'[q] # "ok"
  PROVE  StatsInv'
<1>1. \A q \in Req : (Told(q) => Told(q)') /\ (op[q] = "stats" /\ pc[q] \in Past =>
                                               op'[q] = "stats" /\ pc'[q] = pc[q])
  BY DEF Told
<1>2. \A q \in Req : op[q] = "stats" /\ pc[q] \in {"restart", "assign"} =>
                     op'[q] = "stats" /\ pc'[q] = pc[q]
  BY <1>1 DEF Past
<1>3. \A q \in Req :
        op'[q] = "stats" =>
          /\ pc'[q] = "restart" => statsAPI = yaml
          /\ pc'[q] = "assign" => statsAPI = "unset" /\ yaml = "unset"
          /\ pc'[q] = "assigned" => statsAPI = "torn" /\ yaml = "unset"
          /\ pc'[q] \in {"yamlBak", "yamlTmp", "yamlRename"} => statsAPI = "set"
          /\ answer'[q] = "ok" => yaml = "set" /\ statsAPI = "set"
  BY DEF StatsInv, Past
<1>4. conf.api /\ yaml = "unset" => \E q \in Req : Told(q)' \/ (op'[q] = "stats" /\ pc'[q] \in Past)
  BY <1>1 DEF StatsInv
<1>5. conf.api /\ statsAPI = "unset" =>
        \E q \in Req : Told(q)' \/ (op'[q] = "stats" /\ pc'[q] \in {"restart", "assign"})
  BY <1>1, <1>2 DEF StatsInv
<1> QED
  BY <1>3, <1>4, <1>5 DEF StatsInv

\* The enable-stats behind the write moves on: the others are not there.
LEMMA StatsMoves ==
  ASSUME AdminInv, StatsInv, NEW r \in Req, op[r] = "stats", pc[r] \in Past,
         Restart(r) \/ RestartFails(r) \/ AssignHalf(r) \/ Assign(r) \/ WriteYamlBak(r)
         \/ WriteYamlTmp(r) \/ RenameYaml(r) \/ YamlFails(r)
  PROVE  StatsInv'
<1> USE DEF AdminInv, Goto, Answer, Abandon, Unlocked, disk, memory
<1>1. /\ Wired(r) /\ conf.api /\ answer[r] = "none" /\ op' = op /\ conf' = conf
      /\ \A q \in Req \ {r} : ~Wired(q) /\ pc'[q] = pc[q] /\ answer'[q] = answer[q]
      /\ yaml \in {"unset", "set"}
  BY DEF OneWired, Wired, Phases, Past, Restart, RestartFails, AssignHalf, Assign, WriteYamlBak,
         WriteYamlTmp, RenameYaml, YamlFails, TypeOK, Yaml
<1>2. ASSUME NEW q \in Req \ {r}
      PROVE  /\ op[q] = "stats" => pc'[q] \notin Past /\ answer'[q] # "ok"
             /\ Told(q) => Told(q)'
  BY <1>1 DEF Wired, Told
<1>3. /\ \/ pc'[r] \in Past /\ answer'[r] = "none"
         \/ pc'[r] = "done" /\ answer'[r] \in {"ok", "warning", "error"}
      /\ pc'[r] = "assign" => statsAPI = "unset" /\ yaml = "unset" /\ UNCHANGED <<statsAPI, yaml>>
      /\ pc'[r] = "assigned" => statsAPI' = "torn" /\ yaml' = "unset"
      /\ pc'[r] \in {"yamlBak", "yamlTmp", "yamlRename"} => statsAPI' = "set"
      /\ pc'[r] # "restart"
      /\ answer'[r] = "ok" => yaml' = "set" /\ statsAPI' = "set"
      /\ yaml' = "set" => statsAPI' = "set"
      /\ pc'[r] \in Past /\ statsAPI' = "unset" => pc'[r] = "assign"
  BY <1>1 DEF StatsInv, OneWired, Past, Restart, RestartFails, AssignHalf, Assign, WriteYamlBak,
              WriteYamlTmp, RenameYaml, YamlFails, TypeOK
<1>4. \A q \in Req :
        op'[q] = "stats" =>
          /\ pc'[q] = "restart" => statsAPI' = yaml'
          /\ pc'[q] = "assign" => statsAPI' = "unset" /\ yaml' = "unset"
          /\ pc'[q] = "assigned" => statsAPI' = "torn" /\ yaml' = "unset"
          /\ pc'[q] \in {"yamlBak", "yamlTmp", "yamlRename"} => statsAPI' = "set"
          /\ answer'[q] = "ok" => yaml' = "set" /\ statsAPI' = "set"
  BY <1>1, <1>2, <1>3 DEF Past
<1>5. \/ Told(r)' \/ pc'[r] \in Past
      \/ yaml' = "set" /\ statsAPI' = "set"
  BY <1>1, <1>3 DEF Told
<1> QED
  BY <1>1, <1>3, <1>4, <1>5 DEF StatsInv

\* No step takes back what an enable-stats was answered.
LEMMA StatsStep ==
  ASSUME AdminInv, StatsInv, [Next]_vars
  PROVE  StatsInv'
<1> USE AdminAssumption DEF AdminInv
<1>1. ASSUME NEW r \in Req, Step(r)
      PROVE  StatsInv'
  <2> USE DEF Goto, Answer, disk, memory
  <2>1. CASE Lookup(r) \/ StoreKey(r) \/ DeriveFails(r) \/ Generate(r) \/ GenerateFails(r)
             \/ Invalidate(r) \/ Preread(r)
    BY <2>1, StatsStays DEF Lookup, StoreKey, DeriveFails, Generate, GenerateFails, Invalidate,
                            Preread, TypeOK, Phases, OpSteps, AllOps
  <2>2. CASE Target(r) \/ Lock(r) \/ Edit(r) \/ EditRefused(r) \/ ConfigIOFails(r)
    BY <2>2, StatsStays DEF Target, Lock, Edit, EditRefused, ConfigIOFails, Abandon, TypeOK,
                            Phases, OpSteps, AllOps, Past
  <2>3. CASE Write(r)
    <3>1. /\ op[r] = "stats" => ~conf.api
          /\ op[r] # "stats" => conf'.api = conf.api
          /\ UNCHANGED <<op, answer, yaml, statsAPI>> /\ pc' = [pc EXCEPT ![r] = "restart"]
          /\ pc[r] = "write"
      BY <2>3, AboutToWrite, EditFacts DEF Write
    <3>2. \A q \in Req \ {r} : pc'[q] = pc[q] /\ (Told(q) <=> Told(q)')
      BY <3>1 DEF TypeOK, Told
    <3>3. pc'[r] = "restart" /\ answer[r] = "none"
      BY <3>1 DEF TypeOK, Phases
    <3>4. CASE op[r] = "stats"
      BY <3>1, <3>2, <3>3, <3>4 DEF StatsInv, Past
    <3>5. CASE op[r] # "stats"
      <4>1. \A q \in Req : op[q] = "stats" => pc'[q] = pc[q] /\ (Told(q) <=> Told(q)')
        BY <3>2, <3>5
      <4> QED
        BY <3>1, <4>1, <3>5 DEF StatsInv, Told
    <3> QED
      BY <3>4, <3>5
  <2>4. CASE Restart(r) \/ RestartFails(r)
    <3>1. CASE op[r] = "stats"
      BY <2>4, <3>1, StatsMoves DEF Restart, RestartFails, Past
    <3>2. CASE op[r] # "stats"
      BY <2>4, <3>2, StatsStays DEF Restart, RestartFails, Unlocked, Abandon, TypeOK
    <3> QED
      BY <3>1, <3>2
  <2>5. CASE AssignHalf(r) \/ Assign(r) \/ WriteYamlBak(r) \/ WriteYamlTmp(r) \/ RenameYaml(r)
             \/ YamlFails(r)
    <3>1. pc[r] \in Past /\ op[r] = "stats"
      BY <2>5 DEF AssignHalf, Assign, WriteYamlBak, WriteYamlTmp, RenameYaml, YamlFails, Past,
                  Phases, OpSteps, AllOps
    <3> QED
      BY <2>5, <3>1, StatsMoves
  <2> QED
    BY <1>1, <2>1, <2>2, <2>3, <2>4, <2>5 DEF Step
<1>2. ASSUME NEW r \in Req, Arrive(r)
      PROVE  StatsInv'
  <2>1. PICK o \in Ops : /\ op' = [op EXCEPT ![r] = o] /\ pc' = [pc EXCEPT ![r] = FirstStep(o)]
    BY <1>2 DEF Arrive, Goto
  <2>2. FirstStep(o) \notin Past
    BY DEF FirstStep, AllOps, Past
  <2> QED
    BY <1>2, <2>1, <2>2, StatsStays DEF Arrive, disk, memory, TypeOK, Phases, Past
<1>3. CASE Crash
  <2>1. /\ \A q \in Req : \/ pc[q] = "new" /\ pc'[q] = "new" /\ answer'[q] = answer[q]
                          \/ pc[q] = "done" /\ pc'[q] = "done" /\ answer'[q] = answer[q]
                          \/ pc[q] \notin {"new", "done"} /\ pc'[q] = "done" /\ answer'[q] = "cut"
        /\ UNCHANGED <<conf, yaml, op>> /\ statsAPI' = yaml
    BY <1>3 DEF Crash, InFlight, TypeOK
  <2>2. \A q \in Req : Told(q) => Told(q)'
    BY <2>1 DEF Told, Phases
  <2>3. \A q \in Req : op[q] = "stats" /\ pc[q] \in Past => Told(q)'
    BY <2>1 DEF Told, Past
  <2>4. conf.api /\ yaml = "unset" => \E q \in Req : Told(q)'
    BY <2>2, <2>3 DEF StatsInv
  <2>5. \A q \in Req : pc'[q] \in {"new", "done"} /\ (answer'[q] = "ok" => answer[q] = "ok")
    BY <2>1
  <2> QED
    BY <2>1, <2>4, <2>5 DEF StatsInv, Past
<1>4. CASE UNCHANGED vars
  BY <1>4, StatsStays DEF vars, disk, memory, local
<1> QED
  BY <1>1, <1>2, <1>3, <1>4 DEF Next, Terminated

\* On a router whose xray had no stats API before the panel came, the answers
\* of enable-stats are honest (server_admin.go:208-231): a success holds in the
\* config, in panel.yaml and in memory from then on, and the panel is ignorant
\* of the API only after somebody was told of a failure.
THEOREM EnableStatsHonest ==
  ASSUME \A f \in InitConfs : ~f.api
  PROVE  Spec => []EnableStatsIsHonest
<1>1. Init => StatsInv
  BY DEF Init, StatsInv, Told, Past
<1>2. AdminInv /\ StatsInv /\ [Next]_vars => StatsInv'
  BY StatsStep
<1>3. AdminInv /\ StatsInv => EnableStatsIsHonest
  BY DEF AdminInv, OneWired, Wired, StatsInv, Told, EnableStatsIsHonest
<1> QED
  BY <1>1, <1>2, <1>3, AdminInvariant, PTL DEF Spec

-----------------------------------------------------------------------------
(* What the config keeps.                                                  *)

\* Only the rename changes the config.
LEMMA OnlyWriteWrites ==
  ASSUME [Next]_vars, conf' # conf
  PROVE  \E r \in Req : Write(r)
<1>1. ASSUME NEW r \in Req, Step(r), ~Write(r) PROVE FALSE
  BY <1>1 DEF Step, Lookup, StoreKey, DeriveFails, Generate, GenerateFails, Target, Preread, Lock,
    Edit, EditRefused, ConfigIOFails, Restart, RestartFails, Invalidate, AssignHalf, Assign,
    WriteYamlBak, WriteYamlTmp, RenameYaml, YamlFails, disk
<1> QED
  BY <1>1 DEF Next, Arrive, Crash, Terminated, vars, disk

\* However often and from wherever it is asked for, the stats API gets one
\* inbound and one rule (server_admin.go:173-205), on a router whose config has
\* them once with the api block, or has no rule for the API without it.
THEOREM ApiIsWiredOnce ==
  ASSUME \A f \in InitConfs : WiredOnce(f)
  PROVE  Spec => []ApiWiredOnce
<1>1. Init => WiredOnce(conf)
  BY DEF Init
<1>2. AdminInv /\ WiredOnce(conf) /\ [Next]_vars => WiredOnce(conf)'
  <2> SUFFICES ASSUME AdminInv, WiredOnce(conf), [Next]_vars, conf' # conf
               PROVE  WiredOnce(conf')
    OBVIOUS
  <2>1. PICK r \in Req : Write(r)
    BY OnlyWriteWrites
  <2> QED
    BY <2>1, AboutToWrite, EditFacts DEF AdminInv, Write
<1>3. WiredOnce(conf) => ApiWiredOnce
  BY DEF WiredOnce, ApiWiredOnce
<1> QED
  BY <1>1, <1>2, <1>3, AdminInvariant, PTL DEF Spec

\* No rewrite of the config loses or moves a rule of the operator, and only
\* enable-stats loses what he wrote into the policy, whatever configs the panel
\* is installed on.
THEOREM OwnEntriesAreKept == Spec => OwnEntriesKept
<1> DEFINE Kept ==
      /\ RulesKept(conf, conf')
      /\ \/ OwnPolicy(conf) \subseteq OwnPolicy(conf')
         \/ \E r \in Req : op[r] = "stats" /\ pc[r] = "write" /\ pc'[r] = "restart"
<1>1. AdminInv /\ [Next]_vars => [Kept]_vars
  <2> SUFFICES ASSUME AdminInv, [Next]_vars
               PROVE  Kept
    OBVIOUS
  <2>1. CASE conf' = conf
    BY <2>1 DEF RulesKept
  <2>2. CASE conf' # conf
    <3>1. PICK r \in Req : Write(r)
      BY <2>2, OnlyWriteWrites
    <3>2. /\ RulesKept(conf, conf')
          /\ op[r] # "stats" => OwnPolicy(conf) \subseteq OwnPolicy(conf')
      BY <3>1, AboutToWrite, EditFacts DEF AdminInv, Write
    <3>3. pc[r] = "write" /\ pc'[r] = "restart"
      BY <3>1 DEF Write, Goto, AdminInv, TypeOK
    <3> QED
      BY <3>2, <3>3
  <2> QED
    BY <2>1, <2>2
<1> QED
  BY <1>1, AdminInvariant, PTL DEF Spec, OwnEntriesKept
=============================================================================
