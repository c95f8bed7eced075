----------------------------- MODULE MCProgress -----------------------------
(***************************************************************************)
(* What must eventually happen, in four parts of the system that do not    *)
(* wait for each other: the requests of Panel, the polls of StateCache,    *)
(* the log tailer of LogTail and the cron job of Watchdog.  A behaviour is *)
(* one of the part chosen at the start; the others stay as they are.       *)
(***************************************************************************)
EXTENDS LogTail

CONSTANTS
  Id, Name, Req, MaxInFlight, Ops, Faults,   \* Panel's
  c1, c2, n1, n2,                            \* a live client and a disabled one
  Poll,                                      \* StateCache's polls
  Writer,                                    \* StateCache's writes
  Run, Threshold                             \* Watchdog's

VARIABLES
  part,                                                     \* the part that runs
  config, bak, store, xray, writeMu, reqPC, arg, snap,      \* Panel's
  held, listed, answer, born, raced,
  version, entry, fresh, pending, cachePC, slot, closed,    \* StateCache's
  got, kind, made, acked, newest, floor,
  healthy, fails, alerted, dogPC, new, last, row, tame      \* Watchdog's

Requests == INSTANCE Panel WITH
  file <- config, pc <- reqPC, seen <- listed,
  InitFile <- [clients |-> <<[id |-> c1, name |-> n1]>>, reality |-> "good"],
  InitStore <- <<[id |-> c2, name |-> n2]>>

Cache == INSTANCE StateCache WITH
  disk <- version, pc <- cachePC, Write <- Writer, Faults <- {"probe", "restart"},
  Kinds <- {"edit", "disable", "enable", "service"}

Dog == INSTANCE Watchdog WITH pc <- dogPC

ASSUME ProgressAssumption == TailAssumption /\ Dog!WatchdogAssumption

panelVars == <<config, bak, store, xray, writeMu, reqPC, arg, snap,
               held, listed, answer, born, raced>>
cacheVars == <<version, entry, fresh, pending, cachePC, slot, closed, got,
               kind, made, acked, newest, floor>>
dogVars   == <<healthy, fails, alerted, dogPC, new, last, row, tame>>
allVars   == <<part, panelVars, cacheVars, vars, dogVars>>

ProgressInit ==
  /\ part \in {"panel", "cache", "tail", "watchdog"}
  /\ Requests!Init /\ Cache!Init /\ Init /\ Dog!Init
  /\ part # "tail" => file = None
  /\ part # "watchdog" => healthy

ProgressNext ==
  \/ part = "panel"    /\ Requests!Next /\ UNCHANGED <<part, cacheVars, vars, dogVars>>
  \/ part = "cache"    /\ Cache!Next    /\ UNCHANGED <<part, panelVars, vars, dogVars>>
  \/ part = "tail"     /\ Next          /\ UNCHANGED <<part, panelVars, cacheVars, dogVars>>
  \/ part = "watchdog" /\ Dog!Next      /\ UNCHANGED <<part, panelVars, cacheVars, vars>>

\* The fairness of each part, for the part that runs.
ProgressSpec ==
  /\ ProgressInit /\ [][ProgressNext]_allVars
  /\ \A r \in Req : WF_panelVars(part = "panel" /\ Requests!Step(r))
  /\ \A p \in Poll : WF_cacheVars(part = "cache" /\ cachePC[p] # "new" /\ Cache!PollStep(p))
  /\ WF_vars(part = "tail" /\ FollowStep)
  /\ WF_vars(part = "tail" /\ Create)
  /\ \A r \in Run : WF_dogVars(part = "watchdog" /\ Dog!RunStep(r))
  /\ WF_dogVars(part = "watchdog" /\ \E r \in Run : Dog!Start(r))

\* Panel: a request that was taken up is answered.
RequestsEnd == part = "panel" => Requests!EveryRequestEnds

\* StateCache: a poll that was taken up is answered.
EveryPollAnswered == part = "cache" => Cache!EveryPollAnswered

\* LogTail: a line that stays in the file is emitted.
LinesAreShown == part = "tail" => EveryLineIsShown

\* Watchdog: DOWN and RECOVERED in turn.
CardsAlternate == Dog!CardsAlternate

\* Watchdog: an outage that lasts is flagged, and so is its end.
LastingStateIsFlagged == part = "watchdog" => Dog!LastingStateIsFlagged

=============================================================================
