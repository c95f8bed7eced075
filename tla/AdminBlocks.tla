----------------------------- MODULE AdminBlocks -----------------------------
(***************************************************************************)
(* The blocks of the xray config that the admin handlers edit              *)
(* (internal/http/server_admin.go): the Reality key pair, api, stats,      *)
(* policy, routing and the list of inbounds.                               *)
(*                                                                         *)
(* The config file is JSON the operator may have written by hand, and the  *)
(* handlers look into blocks they do not know: a block can be absent, the  *)
(* JSON null, malformed (some other JSON than the handler expects), or an  *)
(* object, of which the entries the code reads or must leave alone are     *)
(* kept.  Everything else is carried verbatim and left out.                *)
(***************************************************************************)
EXTENDS Naturals, Sequences

CONSTANTS
  Key,     \* Reality key pairs; a private and its public key are one value
  Absent,  \* the JSON key is not there
  Null,    \* the JSON null
  Bad      \* JSON of another type than the handlers and xray expect

\* statsUserOnline is true or something else; "mine" stands for the entries
\* of the operator beside the ones the panel writes.
Level0  == [online : {"on", "off"}, mine : BOOLEAN]
Levels  == [zero : Level0 \cup {Absent, Null, Bad}, mine : BOOLEAN]
Policy  == [levels : Levels \cup {Absent, Null, Bad}, mine : BOOLEAN]

\* A routing rule is the operator's or the api -> api rule.
RuleList == Seq({"own", "api"})
Routing  == [rules : RuleList \cup {Absent, Null, Bad}, mine : BOOLEAN]

Conf == [key      : Key,
         api      : BOOLEAN,
         stats    : BOOLEAN,
         policy   : Policy \cup {Absent, Null, Bad},
         routing  : Routing \cup {Absent, Null, Bad},
         inbounds : Seq({"vless", "api", "other"})]

Objects(v) == v \notin {Absent, Null, Bad}

\* What `xray -test` makes of the blocks (external): it takes null for absent.
Accepted(f) ==
  /\ f.policy # Bad /\ f.routing # Bad
  /\ Objects(f.policy)  => /\ f.policy.levels # Bad
                           /\ Objects(f.policy.levels) => f.policy.levels.zero # Bad
  /\ Objects(f.routing) => f.routing.rules # Bad

-----------------------------------------------------------------------------
(* policy.levels.0.statsUserOnline.                                        *)

\* policyHasOnlineFlag, which also drives the dashboard.
HasOnlineFlag(p) ==
  /\ Objects(p)
  /\ Objects(p.levels)
  /\ Objects(p.levels.zero)
  /\ p.levels.zero.online = "on"

\* A block on the way to the flag is malformed: mergeOnlineFlag returns an
\* error.
MergeRefused(p) ==
  \/ p = Bad
  \/ Objects(p) /\ p.levels = Bad
  \/ Objects(p) /\ Objects(p.levels) /\ p.levels.zero = Bad

\* A block on the way to the flag is null: json.Unmarshal sets the Go map to
\* nil and the assignment into it panics.
MergePanics(p) ==
  \/ p = Null
  \/ Objects(p) /\ p.levels = Null
  \/ Objects(p) /\ Objects(p.levels) /\ p.levels.zero = Null

OnlineLevel0 == [online |-> "on", mine |-> FALSE]
OnlineLevels == [zero |-> OnlineLevel0, mine |-> FALSE]

\* Mutant: levels."0" is replaced, not merged.
MergeReplaces(p) ==
  CASE p = Absent             -> [levels |-> OnlineLevels, mine |-> FALSE]
    [] p.levels = Absent      -> [p EXCEPT !.levels = OnlineLevels]
    [] OTHER                  -> [p EXCEPT !.levels.zero = OnlineLevel0]

\* mergeOnlineFlag where it neither fails nor panics.
MergeOnlineFlag(p) ==
  CASE p = Absent -> [levels |-> OnlineLevels, mine |-> FALSE]
    [] Objects(p) /\ p.levels = Absent -> [p EXCEPT !.levels = OnlineLevels]
    [] Objects(p) /\ Objects(p.levels) /\ p.levels.zero = Absent ->
         [p EXCEPT !.levels.zero = OnlineLevel0]
    [] Objects(p) /\ Objects(p.levels) /\ Objects(p.levels.zero) ->
         [p EXCEPT !.levels.zero.online = "on"]

-----------------------------------------------------------------------------
(* The closures handed to mutateConfig: the set of configs the edit may    *)
(* make, empty when the closure returns an error.                          *)

\* mergeRoutingRule with the api rule.
WithApiRule(r) ==
  CASE ~Objects(r)                     -> [rules |-> <<"api">>, mine |-> FALSE]
    [] Objects(r) /\ ~Objects(r.rules) -> [r EXCEPT !.rules = <<"api">>]
    [] Objects(r) /\ Objects(r.rules)  -> [r EXCEPT !.rules = Append(@, "api")]

\* Mutant: the policy of enable-stats without statsUserOnline.
StatsPolicyOffline ==
  [levels |-> [zero |-> [online |-> "off", mine |-> FALSE], mine |-> FALSE], mine |-> FALSE]

\* The policy enable-stats writes over whatever is there.
StatsPolicy == [levels |-> OnlineLevels, mine |-> FALSE]

\* Mutant: enable-stats does not look for what is there.
StatsNeverRefused(f) == FALSE

\* The closure of enable-stats refuses a config that has any of it.
StatsRefused(f) ==
  f.api \/ f.stats \/ \E i \in DOMAIN f.inbounds : f.inbounds[i] = "api"

EnableStats(f) ==
  IF StatsRefused(f)
  THEN {}
  ELSE {[f EXCEPT !.api = TRUE, !.stats = TRUE, !.policy = StatsPolicy,
                  !.routing = WithApiRule(@), !.inbounds = <<"api">> \o @]}

\* PrimaryInbound: the first VLESS inbound, wherever it stands.
HasPrimary(f) == \E i \in DOMAIN f.inbounds : f.inbounds[i] = "vless"

\* The closure of regenerate-keys.
SetKey(f, k) == IF HasPrimary(f) THEN {[f EXCEPT !.key = k]} ELSE {}

EnableOnline(f) ==
  IF MergeRefused(f.policy) THEN {} ELSE {[f EXCEPT !.policy = MergeOnlineFlag(@)]}

=============================================================================
