------------------------------- MODULE LogHub -------------------------------
(***************************************************************************)
(* The live log view: one file tailer shared by every browser tab          *)
(* (internal/logs/hub.go, the goroutine around Streamer.Follow in          *)
(* internal/logs/stream.go, and the SSE session of internal/http/logs.go). *)
(*                                                                         *)
(* A session is one GET /api/logs/{which}/stream.  The first Subscribe     *)
(* starts a streamer, two goroutines that share a context and a channel:   *)
(* Follow reads the file and pushes lines into the channel, fanOut takes   *)
(* them out and offers each to every subscriber.  A streamer is named      *)
(* after the session that started it.                                      *)
(*                                                                         *)
(* Lines are numbered in the order they are appended; the file only grows  *)
(* here (LogTail has its truncation, its rotation and partial lines).      *)
(* Heartbeats and the length of the backfill are left out.                 *)
(***************************************************************************)
EXTENDS Naturals, Sequences, FiniteSets

CONSTANTS
  Session,   \* SSE sessions, each opened once
  None,      \* no streamer
  BufLines,  \* capacity of a subscriber's channel (128)
  InLines,   \* capacity of a streamer's channel (64)
  MaxLines   \* bound: lines ever appended

ASSUME HubAssumption ==
  /\ None \notin Session
  /\ BufLines \in Nat \ {0} /\ InLines \in Nat \ {0} /\ MaxLines \in Nat

VARIABLES
  log,        \* lines appended so far
  pc,         \* where each session is
  subs,       \* h.subs
  ch,         \* the lines in each subscriber's channel
  current,    \* the streamer h.cancel belongs to, or None
  cancelled,  \* the streamers whose context is cancelled
  follow,     \* where each streamer's Follow is
  pos,        \* the last line Follow has read
  pushed,     \* the last line Follow has pushed into its channel
  in,         \* each streamer's channel
  fan,        \* where each streamer's fanOut is
  line,       \* the line fanOut has in hand, 0 for none
  handed,     \* history: the last line fanOut has offered to the subscribers
  shown,      \* history: the last line each session was sent or has in ch
  from        \* history: the streamers each session has lines from

sessions  == <<pc, ch, shown, from>>
hub       == <<subs, current, cancelled>>
streamers == <<follow, pos, pushed, in, fan, line, handed>>
vars      == <<log, sessions, hub, streamers>>

Lines == 0..MaxLines

TypeOK ==
  /\ log \in Lines
  /\ pc \in [Session -> {"new", "seeded", "live", "leaving", "done"}]
  /\ subs \subseteq Session
  /\ ch \in [Session -> Seq(Lines)] /\ \A s \in Session : Len(ch[s]) <= BufLines
  /\ current \in Session \cup {None}
  /\ cancelled \subseteq Session
  /\ follow \in [Session -> {"none", "start", "tick", "push", "gone"}]
  /\ pos \in [Session -> Lines] /\ pushed \in [Session -> Lines]
  /\ in \in [Session -> Seq(Lines)] /\ \A g \in Session : Len(in[g]) <= InLines
  /\ fan \in [Session -> {"none", "select", "deliver", "gone"}]
  /\ line \in [Session -> Lines] /\ handed \in [Session -> Lines]
  /\ shown \in [Session -> Lines] /\ from \in [Session -> SUBSET Session]

Init ==
  /\ log = 0
  /\ pc = [s \in Session |-> "new"]
  /\ subs = {}
  /\ ch = [s \in Session |-> <<>>]
  /\ current = None
  /\ cancelled = {}
  /\ follow = [g \in Session |-> "none"]
  /\ pos = [g \in Session |-> 0] /\ pushed = [g \in Session |-> 0]
  /\ in = [g \in Session |-> <<>>]
  /\ fan = [g \in Session |-> "none"]
  /\ line = [g \in Session |-> 0] /\ handed = [g \in Session |-> 0]
  /\ shown = [s \in Session |-> 0] /\ from = [s \in Session |-> {}]

-----------------------------------------------------------------------------
(* Sessions.                                                               *)

\* startLocked: two goroutines that have not run yet.
Start(g) ==
  /\ current' = g
  /\ follow' = [follow EXCEPT ![g] = "start"]
  /\ fan' = [fan EXCEPT ![g] = "select"]

\* The backfill: the last lines of the file, or none when it cannot be read or
\* was not asked for.
Backfill(s) ==
  /\ pc[s] = "new"
  /\ pc' = [pc EXCEPT ![s] = "seeded"]
  /\ \E n \in {0, log} : shown' = [shown EXCEPT ![s] = n]
  /\ UNCHANGED <<log, ch, from, hub, streamers>>

\* The first subscriber starts the streamer.
Subscribe(s) ==
  /\ pc[s] = "seeded"
  /\ pc' = [pc EXCEPT ![s] = "live"]
  /\ subs' = subs \cup {s}
  /\ IF Cardinality(subs') = 1 THEN Start(s) ELSE UNCHANGED <<current, follow, fan>>
  /\ UNCHANGED <<log, ch, shown, from, cancelled, pos, pushed, in, line, handed>>

\* streamSSEFromChan sends a line to the browser.
Show(s) ==
  /\ pc[s] = "live"
  /\ ch[s] # <<>>
  /\ ch' = [ch EXCEPT ![s] = Tail(@)]
  /\ UNCHANGED <<log, pc, shown, from, hub, streamers>>

\* The request's context ends.
Leave(s) ==
  /\ pc[s] = "live"
  /\ pc' = [pc EXCEPT ![s] = "leaving"]
  /\ UNCHANGED <<log, ch, shown, from, hub, streamers>>

\* Mutant: the streamer is stopped whoever leaves.
UnsubscribeStops(s) ==
  /\ pc[s] = "leaving"
  /\ pc' = [pc EXCEPT ![s] = "done"]
  /\ subs' = subs \ {s}
  /\ ch' = [ch EXCEPT ![s] = <<>>]
  /\ shown' = [shown EXCEPT ![s] = 0] /\ from' = [from EXCEPT ![s] = {}]
  /\ cancelled' = cancelled \cup ({current} \ {None})
  /\ current' = None
  /\ UNCHANGED <<log, streamers>>

\* The deferred unsub: the channel is closed, and the last one to leave
\* cancels the streamer's context.
Unsubscribe(s) ==
  /\ pc[s] = "leaving"
  /\ pc' = [pc EXCEPT ![s] = "done"]
  /\ subs' = subs \ {s}
  /\ ch' = [ch EXCEPT ![s] = <<>>]
  /\ shown' = [shown EXCEPT ![s] = 0] /\ from' = [from EXCEPT ![s] = {}]
  /\ IF subs' = {} /\ current # None
     THEN cancelled' = cancelled \cup {current} /\ current' = None
     ELSE UNCHANGED <<current, cancelled>>
  /\ UNCHANGED <<log, streamers>>

-----------------------------------------------------------------------------
(* Follow.                                                                 *)

\* Mutant: the file is read from its start.
SeekStart(g) ==
  /\ follow[g] = "start"
  /\ follow' = [follow EXCEPT ![g] = "tick"]
  /\ UNCHANGED <<log, sessions, hub, pos, pushed, in, fan, line, handed>>

\* The initial stat: only what is appended from here on is read.
SeekEnd(g) ==
  /\ follow[g] = "start"
  /\ follow' = [follow EXCEPT ![g] = "tick"]
  /\ pos' = [pos EXCEPT ![g] = log]
  /\ pushed' = [pushed EXCEPT ![g] = log]
  /\ handed' = [handed EXCEPT ![g] = log]
  /\ UNCHANGED <<log, sessions, hub, in, fan, line>>

\* A tick finds that the file has grown and reads it to its end.
Read(g) ==
  /\ follow[g] = "tick"
  /\ log > pos[g]
  /\ pos' = [pos EXCEPT ![g] = log]
  /\ follow' = [follow EXCEPT ![g] = "push"]
  /\ UNCHANGED <<log, sessions, hub, pushed, in, fan, line, handed>>

\* Mutant: a line is dropped when the channel is full.
PushDrops(g) ==
  /\ follow[g] = "push"
  /\ pushed' = [pushed EXCEPT ![g] = @ + 1]
  /\ in' = IF Len(in[g]) < InLines THEN [in EXCEPT ![g] = Append(@, pushed'[g])] ELSE in
  /\ follow' = [follow EXCEPT ![g] = IF pushed'[g] = pos[g] THEN "tick" ELSE "push"]
  /\ UNCHANGED <<log, sessions, hub, pos, fan, line, handed>>

\* Mutant: the channel has no capacity to respect.
PushUnbounded(g) ==
  /\ follow[g] = "push"
  /\ pushed' = [pushed EXCEPT ![g] = @ + 1]
  /\ in' = [in EXCEPT ![g] = Append(@, pushed'[g])]
  /\ follow' = [follow EXCEPT ![g] = IF pushed'[g] = pos[g] THEN "tick" ELSE "push"]
  /\ UNCHANGED <<log, sessions, hub, pos, fan, line, handed>>

\* The next line read is pushed; Follow waits while the channel is full.
Push(g) ==
  /\ follow[g] = "push"
  /\ Len(in[g]) < InLines
  /\ pushed' = [pushed EXCEPT ![g] = @ + 1]
  /\ in' = [in EXCEPT ![g] = Append(@, pushed'[g])]
  /\ follow' = [follow EXCEPT ![g] = IF pushed'[g] = pos[g] THEN "tick" ELSE "push"]
  /\ UNCHANGED <<log, sessions, hub, pos, fan, line, handed>>

\* Mutant: the push of a line is not a select with ctx.Done.
FollowStopsAtTick(g) ==
  /\ follow[g] = "tick"
  /\ g \in cancelled
  /\ follow' = [follow EXCEPT ![g] = "gone"]
  /\ UNCHANGED <<log, sessions, hub, pos, pushed, in, fan, line, handed>>

\* ctx.Done, in either select; the channel is closed.
FollowStops(g) ==
  /\ follow[g] \in {"tick", "push"}
  /\ g \in cancelled
  /\ follow' = [follow EXCEPT ![g] = "gone"]
  /\ UNCHANGED <<log, sessions, hub, pos, pushed, in, fan, line, handed>>

-----------------------------------------------------------------------------
(* fanOut.                                                                 *)

Take(g) ==
  /\ fan[g] = "select"
  /\ in[g] # <<>>
  /\ line' = [line EXCEPT ![g] = Head(in[g])]
  /\ in' = [in EXCEPT ![g] = Tail(@)]
  /\ fan' = [fan EXCEPT ![g] = "deliver"]
  /\ UNCHANGED <<log, sessions, hub, follow, pos, pushed, handed>>

\* Mutant: the send to a subscriber waits for room.
DeliverWaits(g) ==
  /\ fan[g] = "deliver"
  /\ \A s \in subs : Len(ch[s]) < BufLines
  /\ ch' = [s \in Session |-> IF s \in subs THEN Append(ch[s], line[g]) ELSE ch[s]]
  /\ UNCHANGED <<shown, from>>
  /\ handed' = [handed EXCEPT ![g] = line[g]]
  /\ line' = [line EXCEPT ![g] = 0]
  /\ fan' = [fan EXCEPT ![g] = "select"]
  /\ UNCHANGED <<log, pc, hub, follow, pos, pushed, in>>

\* Under h.mu: whoever is subscribed now and has room gets the line.
Deliver(g) ==
  /\ fan[g] = "deliver"
  /\ LET room == {s \in subs : Len(ch[s]) < BufLines}
     IN  /\ ch' = [s \in Session |-> IF s \in room THEN Append(ch[s], line[g]) ELSE ch[s]]
         /\ shown' = [s \in Session |-> IF s \in room THEN line[g] ELSE shown[s]]
         /\ from' = [s \in Session |-> IF s \in room THEN from[s] \cup {g} ELSE from[s]]
  /\ handed' = [handed EXCEPT ![g] = line[g]]
  /\ line' = [line EXCEPT ![g] = 0]
  /\ fan' = [fan EXCEPT ![g] = "select"]
  /\ UNCHANGED <<log, pc, hub, follow, pos, pushed, in>>

\* ctx.Done, or the channel is closed and empty.
FanStops(g) ==
  /\ fan[g] = "select"
  /\ g \in cancelled \/ (follow[g] = "gone" /\ in[g] = <<>>)
  /\ fan' = [fan EXCEPT ![g] = "gone"]
  /\ in' = [in EXCEPT ![g] = <<>>]
  /\ UNCHANGED <<log, sessions, hub, follow, pos, pushed, line, handed>>

-----------------------------------------------------------------------------
\* xray appends a line (external).
AppendLine ==
  /\ log < MaxLines
  /\ log' = log + 1
  /\ UNCHANGED <<sessions, hub, streamers>>

SessionStep(s) == Backfill(s) \/ Subscribe(s) \/ Show(s) \/ Leave(s) \/ Unsubscribe(s)
FollowStep(g)  == SeekEnd(g) \/ Read(g) \/ Push(g) \/ FollowStops(g)
FanStep(g)     == Take(g) \/ Deliver(g) \/ FanStops(g)

\* Every session is over and every goroutine has ended.
Terminated ==
  /\ \A s \in Session : /\ pc[s] = "done"
                        /\ follow[s] \in {"none", "gone"}
                        /\ fan[s] \in {"none", "gone"}
  /\ UNCHANGED vars

Next ==
  \/ AppendLine
  \/ \E s \in Session : SessionStep(s) \/ FollowStep(s) \/ FanStep(s)
  \/ Terminated

Spec == Init /\ [][Next]_vars

\* Goroutines that can run do.  A select whose ctx.Done is ready picks among
\* the ready cases at random: it does not pass ctx.Done over for ever.  A
\* session that left unsubscribes; nothing says that a browser reads.
FairSpec ==
  /\ Spec
  /\ \A g \in Session : /\ WF_vars(FollowStep(g)) /\ WF_vars(FollowStops(g))
                        /\ WF_vars(FanStep(g))    /\ SF_vars(FanStops(g))
                        /\ WF_vars(Unsubscribe(g))

-----------------------------------------------------------------------------
(* What the hub promises.                                                  *)

\* "started lazily when the first subscriber arrives, stopped when the last
\* leaves" (hub.go:8-11): in whatever order sessions come and go, there is a
\* streamer that has not been told to stop exactly when there are
\* subscribers, it is the one h.cancel stops, and there is only one.
OneStreamerForSubscribers ==
  /\ subs # {} <=> current # None
  /\ \A g \in Session : follow[g] # "none" /\ g \notin cancelled <=> g = current

\* A tab shows the log in order (logs.go:181-198, hub.go:79-97): a line comes
\* again or behind a later one only when the session joined a streamer that
\* had lines on their way which the backfill has shown too, or when a streamer
\* that was told to stop still hands lines out, beside the one in service.
Gets(s, g) == fan[g] = "deliver" /\ fan'[g] = "select" /\ ch'[s] # ch[s]

RepeatsExplained ==
  [][\A s, g \in Session :
       Gets(s, g) /\ line[g] <= shown[s] =>
         \/ from[s] = {} /\ g # s
         \/ from'[s] \cap cancelled # {}]_vars

\* Between the file and the subscribers no line is lost, repeated or
\* reordered, although it crosses two goroutines and a bounded channel
\* (hub.go:79-97): a streamer offers line after line.
LineAfterLine ==
  [][\A g \in Session :
       fan[g] = "deliver" /\ fan'[g] = "select" => handed'[g] = handed[g] + 1]_vars

\* A streamer that was told to stop ends, both its goroutines, even when it
\* was pushing into a full channel that nobody drains any more.
CancelledStreamerEnds ==
  \A g \in Session : g \in cancelled ~> follow[g] = "gone" /\ fan[g] = "gone"

\* "never stalling the streamer or other subscribers" (hub.go:13-15): a line
\* that is in the file after the streamer looked is offered to the
\* subscribers, however slowly the browsers read, unless the streamer is told
\* to stop.
LinesReachSubscribers ==
  \A g \in Session : \A n \in 1..MaxLines :
    follow[g] = "tick" /\ pos[g] < n /\ n <= log ~> handed[g] >= n \/ g \in cancelled

=============================================================================
