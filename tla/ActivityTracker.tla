--------------------------- MODULE ActivityTracker ---------------------------
(***************************************************************************)
(* The Activity tab: who is shown, and who is hidden as idle               *)
(* (internal/http/activity.go over internal/xray/stats.go).                *)
(*                                                                         *)
(* A poll is one GET /api/activity: it queries xray's counters, then who   *)
(* is online, and then hands user after user to the tracker, which locks   *)
(* itself for each of them only.  A reset zeroes the counters in xray and  *)
(* then clears the tracker.  The tracker is in the panel's memory, the     *)
(* counters are in xray's.                                                 *)
(*                                                                         *)
(* Time is counted in ticks, and kept as ages: how many ticks ago          *)
(* something was, up to Idle + 1, which stands for every longer time.      *)
(***************************************************************************)
EXTENDS StatsOutput

CONSTANTS
  User,     \* the emails in xray's config
  Poll,     \* browser tabs, each polling again and again
  Reset,    \* POST /api/activity/reset, each once
  None,     \* no counter, no entry
  Idle,     \* activityIdleHide, in ticks
  MaxBytes, \* bound: the bytes of a counter
  MaxEra    \* bound: how often the counters are zeroed

ASSUME ActivityAssumption ==
  /\ User \subseteq Seq(STRING) \ {<<>>}
  /\ Idle \in Nat /\ MaxBytes \in Nat /\ MaxEra \in Nat
  /\ None \notin Nat

VARIABLES
  counter,  \* the bytes xray has counted for each user, or None
  online,   \* the users with an open session
  seen,     \* tracker.seen
  pc,       \* where each poll is
  stats,    \* the bytes by email a poll got from QueryUsers
  on,       \* the emails a poll takes to be online
  todo,     \* the emails a poll has not handed to the tracker yet
  show,     \* the emails a poll is going to show
  rows,     \* the emails in the last response
  reset,    \* where each reset is
  quiet,    \* history: age of a user's last traffic that the counters show
  era,      \* history: how often the counters were zeroed
  asof,     \* history: the era in which a poll queried the counters
  recent,   \* history: age of each user's last traffic before it did
  moved,    \* history: emails with traffic or a session since the last reset
  clean     \* history: the last reset is over and no poll overlapped it

xray    == <<counter, online>>
polls   == <<pc, stats, on, todo, show, rows, asof, recent>>
history == <<quiet, era, moved, clean>>
vars    == <<xray, seen, polls, reset, history>>

Age == 0..(Idle + 1)

Older(age) == IF age <= Idle THEN age + 1 ELSE age

\* lastActive is the zero time for a user that never did anything.
Never == Idle + 2

Entry == [bytes : 0..MaxBytes, age : Age \cup {Never}, era : 0..MaxEra]

\* The emails a session of u may count for: its own, or what the panel finds
\* where xray prints strings.
CountedFor(u) == {u, extractOnlineEmail(OnlineName(u))}

Credited == UNION {CountedFor(u) : u \in User}

TypeOK ==
  /\ counter \in [User -> 0..MaxBytes \cup {None}]
  /\ online \subseteq User
  /\ seen \in [User -> Entry \cup {None}]
  /\ pc \in [Poll -> {"idle", "online", "observe"}]
  /\ \A p \in Poll : /\ DOMAIN stats[p] \subseteq User
                     /\ \A u \in DOMAIN stats[p] : stats[p][u] \in 0..MaxBytes
                     /\ todo[p] \cup show[p] \subseteq DOMAIN stats[p]
  /\ on \in [Poll -> SUBSET Credited] /\ recent \in [Poll -> [User -> Age]]
  /\ rows \subseteq User /\ moved \subseteq Credited
  /\ reset \in [Reset -> {"new", "clear", "done"}]
  /\ quiet \in [User -> Age]
  /\ era \in 0..MaxEra /\ asof \in [Poll -> 0..MaxEra]
  /\ clean \in BOOLEAN

NoStats == [u \in {} |-> 0]

Longest == [u \in User |-> Idle + 1]

Init ==
  /\ counter = [u \in User |-> None] /\ online = {}
  /\ seen = [u \in User |-> None]
  /\ pc = [p \in Poll |-> "idle"]
  /\ stats = [p \in Poll |-> NoStats]
  /\ on = [p \in Poll |-> {}] /\ todo = [p \in Poll |-> {}] /\ show = [p \in Poll |-> {}]
  /\ rows = {}
  /\ asof = [p \in Poll |-> 0] /\ recent = [p \in Poll |-> Longest]
  /\ reset = [a \in Reset |-> "new"]
  /\ quiet = Longest
  /\ era = 0 /\ moved = {} /\ clean = FALSE

-----------------------------------------------------------------------------
(* xray and its users (external).                                          *)

Traffic(u) ==
  /\ LET now == IF counter[u] = None THEN 0 ELSE counter[u]
     IN  now < MaxBytes /\ counter' = [counter EXCEPT ![u] = now + 1]
  /\ quiet' = [quiet EXCEPT ![u] = 0]
  /\ moved' = moved \cup {u}
  /\ UNCHANGED <<online, seen, polls, reset, era, clean>>

\* A session makes the counters, of no bytes yet.
Connect(u) ==
  /\ u \notin online
  /\ online' = online \cup {u}
  /\ counter' = [counter EXCEPT ![u] = IF @ = None THEN 0 ELSE @]
  /\ moved' = moved \cup CountedFor(u)
  /\ UNCHANGED <<seen, polls, reset, quiet, era, clean>>

Disconnect(u) ==
  /\ u \in online
  /\ online' = online \ {u}
  /\ UNCHANGED <<counter, seen, polls, reset, history>>

\* A restart of xray starts the counters anew.
XrayRestart ==
  /\ era < MaxEra
  /\ era' = era + 1
  /\ counter' = [u \in User |-> None] /\ online' = {}
  /\ quiet' = Longest
  /\ UNCHANGED <<seen, polls, reset, moved, clean>>

Tick ==
  /\ quiet' = [u \in User |-> Older(quiet[u])]
  /\ seen' = [u \in User |-> IF seen[u] # None /\ seen[u].age # Never
                             THEN [seen[u] EXCEPT !.age = Older(@)]
                             ELSE seen[u]]
  /\ recent' = [p \in Poll |-> IF pc[p] = "idle" THEN recent[p]
                              ELSE [u \in User |-> Older(recent[p][u])]]
  /\ UNCHANGED <<xray, pc, stats, on, todo, show, rows, asof, reset, era, moved, clean>>

-----------------------------------------------------------------------------
(* The poll.                                                               *)

\* QueryUsers.  (When it fails, the poll is answered with an error and
\* changes nothing.)
QueryUsers(p) ==
  /\ pc[p] = "idle"
  /\ LET Up(u) == [d \in Directions |-> IF d = "uplink" THEN counter[u] ELSE 0]
         shown == [u \in {v \in User : counter[v] # None} |-> Up(u)]
     IN  \E users \in {ParseStats(PrintStats("stat", shown))} :
           stats' = [stats EXCEPT ![p] =
                       [u \in {r.email : r \in users} |->
                          LET r == CHOOSE r \in users : r.email = u IN r.uplink + r.downlink]]
  /\ pc' = [pc EXCEPT ![p] = "online"]
  /\ asof' = [asof EXCEPT ![p] = era]
  /\ recent' = [recent EXCEPT ![p] = quiet]
  /\ UNCHANGED <<xray, seen, on, todo, show, rows, reset, history>>

\* QueryOnline, in the shape this xray prints or with an error, which counts
\* as nobody.
QueryOnline(p) ==
  /\ pc[p] = "online"
  /\ \E shape \in Shapes :
       \E parsed \in {ParseOnline(PrintOnline(shape, [u \in online |-> 1])), Failed} :
         on' = [on EXCEPT ![p] = {r.email : r \in {r \in parsed.users : r.sessions > 0}}]
  /\ pc' = [pc EXCEPT ![p] = "observe"]
  /\ todo' = [todo EXCEPT ![p] = DOMAIN stats[p]]
  /\ UNCHANGED <<xray, seen, stats, show, rows, asof, recent, reset, history>>

\* Mutant: every byte of the counter keeps the user alive.
TouchedByTotal(u, total, isOnline) == isOnline \/ total > 0

\* Mutant: only an online user is active.
TouchedOnline(u, total, isOnline) == isOnline

\* observe has something new of a user it knows.
Touched(u, total, isOnline) == isOnline \/ total # seen[u].bytes

\* ... and of one it does not know.
FirstSight(total, isOnline) == total > 0 \/ isOnline

\* Mutant: the bytes are added up.
ObservedAddsUp(p, u) ==
  [bytes |-> stats[p][u] + (IF seen[u] = None THEN 0 ELSE seen[u].bytes),
   age |-> 0, era |-> asof[p]]

\* The tracker's entry after observe.
Observed(p, u) ==
  LET total == stats[p][u]
      isOn  == u \in on[p]
  IN  CASE seen[u] = None /\ FirstSight(total, isOn) ->
             [bytes |-> total, age |-> 0, era |-> asof[p]]
        [] seen[u] = None /\ ~FirstSight(total, isOn) ->
             [bytes |-> total, age |-> Never, era |-> asof[p]]
        [] seen[u] # None /\ Touched(u, total, isOn) ->
             [bytes |-> total, age |-> 0, era |-> asof[p]]
        [] OTHER -> seen[u]

\* observe, under the tracker's lock, of the users in any order (parseStats
\* ranges over a map).
Observe(p) ==
  /\ pc[p] = "observe"
  /\ \E u \in todo[p] :
       /\ seen' = [seen EXCEPT ![u] = Observed(p, u)]
       /\ todo' = [todo EXCEPT ![p] = @ \ {u}]
       /\ show' = IF seen'[u].age <= Idle THEN [show EXCEPT ![p] = @ \cup {u}] ELSE show
  /\ UNCHANGED <<xray, pc, stats, on, rows, asof, recent, reset, history>>

Respond(p) ==
  /\ pc[p] = "observe"
  /\ todo[p] = {}
  /\ rows' = show[p]
  /\ pc' = [pc EXCEPT ![p] = "idle"]
  /\ stats' = [stats EXCEPT ![p] = NoStats]
  /\ on' = [on EXCEPT ![p] = {}] /\ show' = [show EXCEPT ![p] = {}]
  /\ asof' = [asof EXCEPT ![p] = 0] /\ recent' = [recent EXCEPT ![p] = Longest]
  /\ UNCHANGED <<xray, seen, todo, reset, history>>

-----------------------------------------------------------------------------
(* The reset.                                                              *)

Zeroed == [u \in User |-> IF counter[u] = None THEN None ELSE 0]

\* statsquery -reset.
Zero(a) ==
  /\ reset[a] = "new"
  /\ era < MaxEra
  /\ era' = era + 1
  /\ counter' = Zeroed
  /\ quiet' = Longest
  /\ moved' = UNION {CountedFor(u) : u \in online}
  /\ clean' = FALSE
  /\ reset' = [reset EXCEPT ![a] = "clear"]
  /\ UNCHANGED <<online, seen, polls>>

\* The shell-out fails, or is killed after xray has done it; the reset is
\* answered with an error.
ZeroFails(a) ==
  /\ reset[a] = "new"
  /\ era < MaxEra
  /\ era' = era + 1
  /\ \/ counter' = Zeroed /\ quiet' = Longest
     \/ UNCHANGED <<counter, quiet>>
  /\ clean' = FALSE
  /\ reset' = [reset EXCEPT ![a] = "done"]
  /\ UNCHANGED <<online, seen, polls, moved>>

\* Mutant: the tracker is not cleared.
ClearNothing(a) ==
  /\ reset[a] = "clear"
  /\ clean' = \A p \in Poll : pc[p] = "idle"
  /\ reset' = [reset EXCEPT ![a] = "done"]
  /\ UNCHANGED <<xray, seen, polls, quiet, era, moved>>

\* tracker.reset, and the answer.
Clear(a) ==
  /\ reset[a] = "clear"
  /\ seen' = [u \in User |-> None]
  /\ clean' = \A p \in Poll : pc[p] = "idle"
  /\ reset' = [reset EXCEPT ![a] = "done"]
  /\ UNCHANGED <<xray, polls, quiet, era, moved>>

\* The panel dies and starts again; the counters are xray's.
PanelRestart ==
  /\ \E p \in Poll : pc[p] # "idle"
  /\ seen' = [u \in User |-> None]
  /\ pc' = [p \in Poll |-> "idle"]
  /\ stats' = [p \in Poll |-> NoStats]
  /\ on' = [p \in Poll |-> {}] /\ todo' = [p \in Poll |-> {}] /\ show' = [p \in Poll |-> {}]
  /\ rows' = {}
  /\ asof' = [p \in Poll |-> 0] /\ recent' = [p \in Poll |-> Longest]
  /\ reset' = [a \in Reset |-> IF reset[a] = "clear" THEN "done" ELSE reset[a]]
  /\ clean' = FALSE
  /\ UNCHANGED <<xray, quiet, era, moved>>

-----------------------------------------------------------------------------
PollStep(p) == QueryUsers(p) \/ QueryOnline(p) \/ Observe(p) \/ Respond(p)

Next ==
  \/ \E u \in User : Traffic(u) \/ Connect(u) \/ Disconnect(u)
  \/ XrayRestart \/ PanelRestart \/ Tick
  \/ \E p \in Poll : PollStep(p)
  \/ \E a \in Reset : Zero(a) \/ ZeroFails(a) \/ Clear(a)

Spec == Init /\ [][Next]_vars

\* An open tab polls again and again (web/app.js), its queries end or run into
\* their deadline, and time passes.
FairSpec ==
  /\ Spec
  /\ \A p \in Poll : WF_vars(PollStep(p))
  /\ WF_vars(Tick)

-----------------------------------------------------------------------------
(* Properties.                                                             *)

\* A user is hidden only if it is idle (activity.go:13-17, 60-94): whoever had
\* traffic within the window before the counters were queried is shown, in
\* whatever order polls observe what they read.  The exception is a counter
\* that was zeroed and counted up to the very number the tracker remembers.
HiddenIsIdle ==
  [][\A p \in Poll : \A u \in User :
       /\ pc'[p] = "observe" /\ u \in todo[p] /\ u \notin todo'[p]
       /\ recent[p][u] <= Idle /\ u \notin show'[p]
       => seen'[u].era # asof[p]]_vars

\* "clears our idle tracker so the next poll starts from a clean slate"
\* (activity.go:175-177): after a reset that no poll overlapped, the tracker
\* takes for active only who had traffic or a session since.
CleanSlate ==
  clean => \A u \in User : seen[u] # None /\ seen[u].age # Never => u \in moved

\* "without this the Activity tab would grow forever" (activity.go:13-17): a
\* user that does nothing any more disappears from the tab and stays away,
\* whatever overlapping polls, resets and restarts did before.  (After a start
\* of the panel a user with traffic on its counter is new to the tracker and
\* shown once more.)
Gone(u) == quiet[u] > Idle /\ \A v \in online : u \notin CountedFor(v)

IdleUsersDisappear ==
  \A u \in User :
    <>[]Gone(u) /\ ~[]<><<PanelRestart>>_vars => <>[](u \notin rows)

=============================================================================
