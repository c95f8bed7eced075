----------------------------- MODULE StateCache -----------------------------
(***************************************************************************)
(* The single-flight cache in front of GET /api/state                      *)
(* (internal/http/state.go) and the requests whose effects it shows        *)
(* (mutate.go, clients.go, service.go).                                    *)
(*                                                                         *)
(* A payload shows three things that collectState reads one after the      *)
(* other: the xray config, the disabled store and the service's status.    *)
(* Each is represented by its version: 1 at the start and one more with    *)
(* every change, 0 in a payload that could not read it.  Time is one       *)
(* event, Expire: the entry outlives stateCacheTTL.  The slot of a refresh *)
(* is named after the poll that refreshes.                                 *)
(***************************************************************************)
EXTENDS Naturals

CONSTANTS
  Poll,      \* GET /api/state requests
  Write,     \* requests that change what a payload shows
  Kinds,     \* what such requests ask for
  Faults,    \* what may fail: a "probe" of collectState, a "restart"
  None       \* no entry, no pending slot, nothing answered yet

\* "edit": mutateConfig alone (create, patch, reality).  "disable":
\* mutateConfig, then the disabled store (also delete).  "enable": the
\* disabled store, then mutateConfig.  "service": start, stop or restart.
AllKinds == {"edit", "disable", "enable", "service"}

Part == {"config", "store", "status"}

Payload == [Part -> Nat]

ASSUME CacheAssumption ==
  /\ Kinds \subseteq AllKinds
  /\ Faults \subseteq {"probe", "restart"}
  /\ Poll \cap Write = {}
  /\ None \notin Poll \cup Write \cup Payload \cup AllKinds

VARIABLES
  disk,     \* the version of each part
  entry,    \* c.entry: None or a payload
  fresh,    \* the entry is younger than stateCacheTTL
  pending,  \* c.pending: the poll that refreshes, or None
  pc,       \* the step each request takes next
  slot,     \* the poll whose slot a poll waits on, or None
  closed,   \* the polls whose slot's channel is closed
  got,      \* what each poll has collected; once published, its slot's payload
  kind,     \* what each write asks for, or None
  made,     \* history: the versions each write made so far
  acked,    \* history: the versions made by mutations answered with success
  newest,   \* history: the newest version of each part any poll answered
  floor     \* history: acked and newest when each poll began

cache == <<entry, fresh, pending>>
polls == <<slot, closed, got, newest, floor>>
vars  == <<disk, cache, pc, polls, kind, made, acked>>

Steps == {"new", "config", "store", "status", "publish", "close", "wait",
          "write", "restart", "invalidate", "storeWrite", "undo", "svc", "done"}

Refreshing == {"config", "store", "status", "publish"}

Missing == [x \in Part |-> 0]
First   == [x \in Part |-> 1]

Nothing == [acked |-> Missing, newest |-> Missing]

\* The later version of each part.
Later(a, b) == [x \in Part |-> IF a[x] >= b[x] THEN a[x] ELSE b[x]]

TypeOK ==
  /\ disk \in Payload
  /\ entry \in Payload \cup {None}
  /\ fresh \in BOOLEAN
  /\ pending \in Poll \cup {None}
  /\ pc \in [Poll \cup Write -> Steps]
  /\ slot \in [Poll -> Poll \cup {None}]
  /\ \A p \in Poll : pc[p] = "wait" => slot[p] \in Poll
  /\ closed \subseteq Poll
  /\ got \in [Poll -> Payload]
  /\ kind \in [Write -> Kinds \cup {None}]
  /\ made \in [Write -> Payload]
  /\ acked \in Payload
  /\ newest \in Payload
  /\ floor \in [Poll -> [acked : Payload, newest : Payload]]

Init ==
  /\ disk = First
  /\ entry = None
  /\ fresh = FALSE
  /\ pending = None
  /\ pc = [q \in Poll \cup Write |-> "new"]
  /\ slot = [p \in Poll |-> None]
  /\ closed = {}
  /\ got = [p \in Poll |-> Missing]
  /\ kind = [w \in Write |-> None]
  /\ made = [w \in Write |-> Missing]
  /\ acked = Missing
  /\ newest = Missing
  /\ floor = [p \in Poll |-> Nothing]

Goto(q, s) == pc' = [pc EXCEPT ![q] = s]

-----------------------------------------------------------------------------
(* handleState.                                                            *)

\* What a poll that answers now answers: the entry, the payload of the slot it
\* waited on, or what it collected.
Reply(p) ==
  CASE pc[p] = "new" -> entry [] pc[p] = "wait" -> got[slot[p]] [] OTHER -> got[p]

Answer(p) ==
  /\ Goto(p, "done")
  /\ newest' = Later(newest, Reply(p))
  /\ slot' = [slot EXCEPT ![p] = None]
  /\ got' = [q \in Poll |-> IF pc'[q] = "done" /\ \A o \in Poll : slot'[o] # q
                           THEN Missing    \* nobody refers to the slot any more
                           ELSE got[q]]
  /\ floor' = [floor EXCEPT ![p] = Nothing]

Usable == entry # None /\ fresh

\* The entry is fresh: it is the answer.
Hit(p) ==
  /\ pc[p] = "new"
  /\ Usable
  /\ Answer(p)
  /\ UNCHANGED <<disk, cache, closed, kind, made, acked>>

\* It is not, and the poll goes on to step s.
Miss(p, s) ==
  /\ pc[p] = "new"
  /\ ~Usable
  /\ Goto(p, s)
  /\ floor' = [floor EXCEPT ![p] = [acked |-> acked, newest |-> newest]]
  /\ UNCHANGED <<disk, entry, fresh, closed, got, newest, kind, made, acked>>

\* Mutant: c.pending is not compared with nil.
JoinNil(p) ==
  /\ Miss(p, "wait")
  /\ slot' = [slot EXCEPT ![p] = pending]
  /\ UNCHANGED pending

\* Somebody refreshes: wait for that slot.
Join(p) ==
  /\ Miss(p, "wait")
  /\ pending # None
  /\ slot' = [slot EXCEPT ![p] = pending]
  /\ UNCHANGED pending

\* Mutant: the poll refreshes although somebody else does.
RefreshAnyway(p) ==
  /\ Miss(p, "config")
  /\ pending' = p
  /\ UNCHANGED slot

\* Nobody does: this poll is the refresher.
Refresh(p) ==
  /\ Miss(p, "config")
  /\ pending = None
  /\ pending' = p
  /\ UNCHANGED slot

NextPart(s) ==
  CASE s = "config" -> "store" [] s = "store" -> "status" [] s = "status" -> "publish"

\* collectState reads one part.
Collect(p) ==
  /\ pc[p] \in Part
  /\ got' = [got EXCEPT ![p][pc[p]] = disk[pc[p]]]
  /\ Goto(p, NextPart(pc[p]))
  /\ UNCHANGED <<disk, cache, slot, closed, newest, floor, kind, made, acked>>

\* Mutant: a poll that cannot read the config answers at once.
CollectFailsReturns(p) ==
  /\ "probe" \in Faults
  /\ pc[p] \in Part
  /\ IF pc[p] = "config"
     THEN Answer(p) /\ UNCHANGED closed
     ELSE Goto(p, NextPart(pc[p])) /\ UNCHANGED polls
  /\ UNCHANGED <<disk, cache, kind, made, acked>>

\* It cannot.  Without the config collectState returns at once; without the
\* store or the status it adds a warning and goes on.
CollectFails(p) ==
  /\ "probe" \in Faults
  /\ pc[p] \in Part
  /\ Goto(p, IF pc[p] = "config" THEN "publish" ELSE NextPart(pc[p]))
  /\ UNCHANGED <<disk, cache, polls, kind, made, acked>>

\* The payload becomes the entry and the slot's payload, under c.mu.
Publish(p) ==
  /\ pc[p] = "publish"
  /\ entry' = got[p]
  /\ fresh' = TRUE
  /\ pending' = None
  /\ Goto(p, "close")
  /\ UNCHANGED <<disk, polls, kind, made, acked>>

\* close(slot.done), and the refresher answers what it collected.
Close(p) ==
  /\ pc[p] = "close"
  /\ closed' = closed \cup {p}
  /\ Answer(p)
  /\ UNCHANGED <<disk, cache, kind, made, acked>>

\* The slot a poll waits on is closed: its payload is the answer.
Wake(p) ==
  /\ pc[p] = "wait"
  /\ slot[p] \in closed
  /\ Answer(p)
  /\ UNCHANGED <<disk, cache, closed, kind, made, acked>>

\* stateCacheTTL passes.
Expire ==
  /\ entry # None /\ fresh
  /\ fresh' = FALSE
  /\ UNCHANGED <<disk, entry, pending, pc, polls, kind, made, acked>>

-----------------------------------------------------------------------------
(* The requests that change what is shown.                                 *)

\* Write w changes part x.
Change(w, x) ==
  /\ disk' = [disk EXCEPT ![x] = @ + 1]
  /\ made' = [made EXCEPT ![w][x] = disk[x] + 1]

\* The request is over; whether it answered success is for acked to tell.
Finish(w) ==
  /\ Goto(w, "done")
  /\ kind' = [kind EXCEPT ![w] = None]

\* A request is taken up.
Arrive(w) ==
  /\ pc[w] = "new"
  /\ \E k \in Kinds :
       /\ kind' = [kind EXCEPT ![w] = k]
       /\ Goto(w, CASE k = "enable" -> "storeWrite"
                    [] k = "service" -> "svc"
                    [] OTHER -> "write")
  /\ UNCHANGED <<disk, cache, polls, made, acked>>

\* mutateConfig writes the config; writeMu is free.
WriteConfig(w) ==
  /\ pc[w] = "write"
  /\ \A v \in Write : pc[v] \notin {"restart", "invalidate"}
  /\ Change(w, "config")
  /\ Goto(w, "restart")
  /\ UNCHANGED <<cache, polls, kind, acked>>

Restart(w) ==
  /\ pc[w] = "restart"
  /\ Change(w, "status")
  /\ Goto(w, "invalidate")
  /\ UNCHANGED <<cache, polls, kind, acked>>

\* Restart fails, before or after the service was disturbed; mutateConfig
\* returns without dropping the entry.  A failed enable puts its client back.
RestartFails(w) ==
  /\ "restart" \in Faults
  /\ pc[w] = "restart"
  /\ \E n \in {0, 1} : disk' = [disk EXCEPT !["status"] = @ + n]
  /\ IF kind[w] = "enable"
     THEN Goto(w, "undo") /\ UNCHANGED kind
     ELSE Finish(w)
  /\ UNCHANGED <<cache, polls, made, acked>>

\* invalidateState.  A disable still has to write the disabled store; the
\* other mutations are answered with success.
Invalidate(w) ==
  /\ pc[w] = "invalidate"
  /\ entry' = None
  /\ fresh' = FALSE
  /\ IF kind[w] = "disable"
     THEN Goto(w, "storeWrite") /\ UNCHANGED <<kind, acked>>
     ELSE Finish(w) /\ acked' = Later(acked, made[w])
  /\ UNCHANGED <<disk, pending, polls, made>>

\* The disabled store is written: the first step of an enable, the last of a
\* disable.
WriteStore(w) ==
  /\ pc[w] = "storeWrite"
  /\ Change(w, "store")
  /\ IF kind[w] = "enable"
     THEN Goto(w, "write") /\ UNCHANGED <<kind, acked>>
     ELSE Finish(w) /\ acked' = Later(acked, made'[w])
  /\ UNCHANGED <<cache, polls>>

\* The roll-back of an enable that failed.
Undo(w) ==
  /\ pc[w] = "undo"
  /\ Change(w, "store")
  /\ Finish(w)
  /\ UNCHANGED <<cache, polls, acked>>

\* Start, stop and restart do not touch the cache.
ServiceAction(w) ==
  /\ pc[w] = "svc"
  /\ Change(w, "status")
  /\ Finish(w)
  /\ UNCHANGED <<cache, polls, acked>>

-----------------------------------------------------------------------------
PollStep(p) ==
  \/ Hit(p) \/ Join(p) \/ Refresh(p)
  \/ Collect(p) \/ CollectFails(p) \/ Publish(p) \/ Close(p) \/ Wake(p)

WriteStep(w) ==
  \/ Arrive(w) \/ WriteConfig(w) \/ Restart(w) \/ RestartFails(w)
  \/ Invalidate(w) \/ WriteStore(w) \/ Undo(w) \/ ServiceAction(w)

\* Every request has been served: the instance has nothing left to do.
Terminated ==
  /\ \A q \in Poll \cup Write : pc[q] = "done"
  /\ UNCHANGED vars

Next ==
  \/ \E p \in Poll : PollStep(p)
  \/ \E w \in Write : WriteStep(w)
  \/ Expire
  \/ Terminated

Spec == Init /\ [][Next]_vars

\* A goroutine that can run runs; the probes have deadlines (state.go:90,109).
FairSpec == Spec /\ \A p \in Poll : WF_vars(pc[p] # "new" /\ PollStep(p))

-----------------------------------------------------------------------------
(* What the cache promises.                                                *)

\* "exactly ONE goroutine refreshes" (state.go:24): however polls, writes and
\* the TTL interleave, at most one poll is between its first probe and its
\* publication, and it is the one c.pending names.
SingleProbe == \A p \in Poll : pc[p] \in Refreshing <=> pending = p

\* No poll waits on a slot that nobody is going to close, whatever fails while
\* the slot's owner collects (state.go:74-100).
NobodyStranded ==
  \A p \in Poll :
    pc[p] = "wait" => slot[p] \in closed \/ pc[slot[p]] \in Refreshing \cup {"close"}

\* Payload a shows no part in an older version than b does.
NotOlder(a, b) == \A x \in Part : a[x] = 0 \/ a[x] >= b[x]

Answers(p) == pc[p] # "done" /\ pc'[p] = "done"

\* The dashboard never goes back in time: a poll that begins after another
\* was answered shows every part it shows at least as new as that answer,
\* whatever is read, cached, dropped and waited for in between.
MonotoneView ==
  [][\A p \in Poll :
       Answers(p) => NotOlder(Reply(p), IF pc[p] = "new" THEN newest ELSE floor[p].newest)]_vars

\* A poll that was taken up is answered.
EveryPollAnswered == \A p \in Poll : pc[p] # "new" ~> pc[p] = "done"

\* "so post-mutation pollers see the new state immediately instead of waiting
\* up to stateCacheTTL" (state.go:47-48): a poll that begins after a mutation
\* was answered with success shows what that mutation made.
SeesAnsweredMutations ==
  [][\A p \in Poll :
       Answers(p) => NotOlder(Reply(p), IF pc[p] = "new" THEN acked ELSE floor[p].acked)]_vars

=============================================================================
