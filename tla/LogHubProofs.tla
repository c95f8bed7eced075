---------------------------- MODULE LogHubProofs ----------------------------
(***************************************************************************)
(* Theorems about LogHub, for any set of sessions, any capacities and any  *)
(* number of lines.  Subscribers and streamers are tied together by h.mu,  *)
(* under which both change; a streamer's lines by the channel between its  *)
(* two goroutines, of which each end moves by one line at a time.          *)
(***************************************************************************)
EXTENDS LogHub, FiniteSetTheorems, TLAPS

-----------------------------------------------------------------------------
(* The invariant.                                                          *)

\* h.subs holds the sessions between Subscribe and unsub, a finite set; what
\* a session has not subscribed for has not begun.
Subscribed ==
  /\ subs = {s \in Session : pc[s] \in {"live", "leaving"}}
  /\ IsFiniteSet(subs)
  /\ \A s \in Session :
       pc[s] \in {"new", "seeded"} => follow[s] = "none" /\ ch[s] = <<>> /\ from[s] = {}

\* The two goroutines of a streamer start together, and only what was started
\* is cancelled or has handed lines to anybody.
Started ==
  /\ \A g \in Session : follow[g] = "none" <=> fan[g] = "none"
  /\ \A g \in cancelled : follow[g] # "none"
  /\ \A s \in Session : \A g \in from[s] : follow[g] # "none"

\* The last line that left the channel between Follow and fanOut.
Out(g) == IF fan[g] = "deliver" THEN line[g] ELSE handed[g]

\* Until Follow has looked at the file nothing moves; from then on it pushes
\* what it has read, and as long as fanOut runs, the channel holds the lines
\* after the last that was taken out of it, one after the other, up to the
\* last that was pushed.
InFlight ==
  \A g \in Session :
    /\ follow[g] \in {"none", "start"} =>
         /\ pos[g] = 0 /\ pushed[g] = 0 /\ in[g] = <<>>
         /\ fan[g] # "deliver" /\ handed[g] = 0
    /\ handed[g] <= log /\ pushed[g] <= pos[g] /\ pos[g] <= log
    /\ follow[g] = "push" => pushed[g] < pos[g]
    /\ fan[g] = "deliver" => line[g] = handed[g] + 1
    /\ fan[g] \in {"select", "deliver"} =>
         /\ pushed[g] = Out(g) + Len(in[g])
         /\ \A i \in 1..Len(in[g]) : in[g][i] = Out(g) + i

\* What a session has seen is in the file, and no later than what its
\* streamer has handed out, if that streamer is in service.
SeenBefore ==
  \A s \in Session :
    /\ shown[s] <= log
    /\ from[s] = {} /\ follow[s] \notin {"none", "start"} => shown[s] <= handed[s]
    /\ from[s] \cap cancelled = {} => \A g \in from[s] : shown[s] <= handed[g]

HubInv ==
  TypeOK /\ Subscribed /\ Started /\ OneStreamerForSubscribers /\ InFlight /\ SeenBefore

-----------------------------------------------------------------------------
(* Lemmas.                                                                 *)

\* Taking a line out of a channel moves the rest up by one.
LEMMA TakenChannel ==
  ASSUME NEW q \in Seq(Lines), q # <<>>
  PROVE  /\ Head(q) = q[1] /\ Head(q) \in Lines
         /\ Tail(q) \in Seq(Lines) /\ Len(Tail(q)) = Len(q) - 1 /\ Len(q) \in Nat \ {0}
         /\ \A i \in 1..Len(Tail(q)) : Tail(q)[i] = q[i + 1]
OBVIOUS

\* Pushing a line puts it behind the others.
LEMMA PushedChannel ==
  ASSUME NEW q \in Seq(Lines), NEW n \in Lines
  PROVE  /\ Append(q, n) \in Seq(Lines) /\ Len(Append(q, n)) = Len(q) + 1 /\ Len(q) \in Nat
         /\ \A i \in 1..Len(q) : Append(q, n)[i] = q[i]
         /\ Append(q, n)[Len(q) + 1] = n
OBVIOUS

\* A subscriber that joins is the only one exactly when there was none.
LEMMA OnlySubscriber ==
  ASSUME NEW S, IsFiniteSet(S), NEW s, s \notin S
  PROVE  /\ IsFiniteSet(S \cup {s})
         /\ Cardinality(S \cup {s}) = 1 <=> S = {}
<1>1. Cardinality(S \cup {s}) = Cardinality(S) + 1 /\ IsFiniteSet(S \cup {s})
  BY FS_AddElement
<1>2. Cardinality(S) \in Nat
  BY FS_CardinalityType
<1>3. Cardinality(S) = 0 <=> S = {}
  BY FS_EmptySet
<1> QED
  BY <1>1, <1>2, <1>3

\* Lines, positions and lengths are natural numbers.
LEMMA LineNumbers ==
  ASSUME TypeOK
  PROVE  /\ log \in Nat /\ MaxLines \in Nat /\ log <= MaxLines
         /\ \A g \in Session : /\ pos[g] \in Nat /\ pushed[g] \in Nat /\ handed[g] \in Nat
                               /\ line[g] \in Nat /\ shown[g] \in Nat
                               /\ Len(in[g]) \in Nat /\ Out(g) \in Nat
<1>1. \A n \in Lines : n \in Nat /\ n <= MaxLines
  BY HubAssumption DEF Lines
<1>2. \A g \in Session : Len(in[g]) \in Nat
  BY DEF TypeOK
<1>3. \A g \in Session : /\ pos[g] \in Lines /\ pushed[g] \in Lines /\ handed[g] \in Lines
                         /\ line[g] \in Lines /\ shown[g] \in Lines
  BY DEF TypeOK
<1> QED
  BY <1>1, <1>2, <1>3, HubAssumption DEF TypeOK, Out

\* The invariant holds at the start.
LEMMA HubInit == Init => HubInv
<1> SUFFICES ASSUME Init PROVE HubInv
  OBVIOUS
<1>1. TypeOK
  BY HubAssumption DEF Init, TypeOK, Lines
<1>2. Subscribed
  BY FS_EmptySet DEF Init, Subscribed
<1>3. Started /\ OneStreamerForSubscribers
  BY HubAssumption DEF Init, Started, OneStreamerForSubscribers
<1>4. InFlight /\ SeenBefore
  BY DEF Init, InFlight, SeenBefore
<1> QED
  BY <1>1, <1>2, <1>3, <1>4 DEF HubInv

-----------------------------------------------------------------------------
(* Sessions keep the invariant.                                            *)

\* The backfill shows the end of the file.
LEMMA BackfillKeeps ==
  ASSUME HubInv, NEW s \in Session, Backfill(s)
  PROVE  HubInv'
<1> USE HubAssumption DEF HubInv, Backfill, hub, streamers
<1>1. TypeOK'
  BY DEF TypeOK, Lines
<1>2. Subscribed'
  BY DEF Subscribed, TypeOK
<1>3. Started' /\ OneStreamerForSubscribers' /\ InFlight'
  BY DEF Started, OneStreamerForSubscribers, InFlight, Out
<1>4. SeenBefore'
  <2>1. from[s] = {} /\ follow[s] = "none" /\ shown'[s] <= log
    BY DEF Subscribed, TypeOK, Lines
  <2>2. \A t \in Session \ {s} : shown'[t] = shown[t]
    BY DEF TypeOK
  <2> QED
    BY <2>1, <2>2 DEF SeenBefore
<1> QED
  BY <1>1, <1>2, <1>3, <1>4

\* A first subscriber starts a streamer of its own.
LEMMA SubscribeKeeps ==
  ASSUME HubInv, NEW s \in Session, Subscribe(s)
  PROVE  HubInv'
<1> USE HubAssumption DEF HubInv, Subscribe
<1>1. s \notin subs /\ follow[s] = "none" /\ fan[s] = "none" /\ s \notin cancelled
  BY DEF Subscribed, Started
<1>2. IsFiniteSet(subs') /\ (Cardinality(subs') = 1 <=> subs = {})
  BY <1>1, OnlySubscriber DEF Subscribed
<1>3. TypeOK'
  BY DEF TypeOK, Start
<1>4. Subscribed'
  BY <1>2 DEF Subscribed, TypeOK, Start
<1>5. CASE subs = {}
  <2>1. Start(s) /\ current = None
    BY <1>2, <1>5 DEF OneStreamerForSubscribers
  <2>2. Started'
    BY <2>1 DEF Start, Started, TypeOK
  <2>3. OneStreamerForSubscribers'
    BY <1>1, <2>1 DEF Start, OneStreamerForSubscribers, TypeOK
  <2>4. InFlight'
    BY <1>1, <2>1 DEF Start, InFlight, Out, TypeOK
  <2>5. SeenBefore'
    BY <1>1, <2>1 DEF Start, SeenBefore, TypeOK
  <2> QED
    BY <1>3, <1>4, <2>2, <2>3, <2>4, <2>5
<1>6. CASE subs # {}
  <2>1. UNCHANGED <<current, follow, fan>>
    BY <1>2, <1>6
  <2>2. Started' /\ InFlight' /\ SeenBefore'
    BY <2>1 DEF Started, InFlight, Out, SeenBefore
  <2>3. OneStreamerForSubscribers'
    BY <1>6, <2>1 DEF OneStreamerForSubscribers
  <2> QED
    BY <1>3, <1>4, <2>2, <2>3
<1> QED
  BY <1>5, <1>6

\* A line that is shown was in the session's channel.
LEMMA ShowKeeps ==
  ASSUME HubInv, NEW s \in Session, Show(s)
  PROVE  HubInv'
<1> USE HubAssumption DEF HubInv, Show, hub, streamers
<1>1. TypeOK'
  BY TakenChannel DEF TypeOK
<1>2. Subscribed'
  BY DEF Subscribed, TypeOK
<1>3. Started' /\ OneStreamerForSubscribers' /\ InFlight' /\ SeenBefore'
  BY DEF Started, OneStreamerForSubscribers, InFlight, Out, SeenBefore
<1> QED
  BY <1>1, <1>2, <1>3

\* A session that leaves is still a subscriber until it unsubscribes.
LEMMA LeaveKeeps ==
  ASSUME HubInv, NEW s \in Session, Leave(s)
  PROVE  HubInv'
<1> USE HubAssumption DEF HubInv, Leave, hub, streamers
<1>1. TypeOK'
  BY DEF TypeOK
<1>2. Subscribed'
  BY DEF Subscribed, TypeOK
<1>3. Started' /\ OneStreamerForSubscribers' /\ InFlight' /\ SeenBefore'
  BY DEF Started, OneStreamerForSubscribers, InFlight, Out, SeenBefore
<1> QED
  BY <1>1, <1>2, <1>3

\* The last one to unsubscribe cancels the streamer.
LEMMA UnsubscribeKeeps ==
  ASSUME HubInv, NEW s \in Session, Unsubscribe(s)
  PROVE  HubInv'
<1> USE HubAssumption DEF HubInv, Unsubscribe, streamers
<1>1. s \in subs /\ current # None /\ current \in Session
  BY DEF Subscribed, OneStreamerForSubscribers, TypeOK
<1>2. TypeOK'
  <2>1. <<>> \in Seq(Lines) /\ Len(<<>>) = 0 /\ 0 \in Lines
    BY DEF Lines
  <2> QED
    BY <1>1, <2>1 DEF TypeOK
<1>3. Subscribed'
  <2>1. IsFiniteSet(subs')
    BY FS_RemoveElement DEF Subscribed
  <2> QED
    BY <2>1 DEF Subscribed, TypeOK
<1>4. Started'
  BY <1>1 DEF Started, OneStreamerForSubscribers, TypeOK
<1>5. OneStreamerForSubscribers'
  BY <1>1 DEF OneStreamerForSubscribers
<1>6. InFlight'
  BY DEF InFlight, Out
<1>7. SeenBefore'
  <2>1. cancelled \subseteq cancelled'
    OBVIOUS
  <2>2. \A t \in Session \ {s} : shown'[t] = shown[t] /\ from'[t] = from[t]
    BY DEF TypeOK
  <2>3. shown'[s] = 0 /\ from'[s] = {} /\ log >= 0 /\ handed[s] >= 0
    BY DEF TypeOK, Lines
  <2>4. \A t \in Session \ {s} :
          from'[t] \cap cancelled' = {} => \A g \in from'[t] : shown'[t] <= handed[g]
    BY <2>1, <2>2 DEF SeenBefore
  <2> QED
    BY <2>2, <2>3, <2>4 DEF SeenBefore
<1> QED
  BY <1>2, <1>3, <1>4, <1>5, <1>6, <1>7

-----------------------------------------------------------------------------
(* Follow keeps the invariant.                                             *)

\* A follower begins at the end of the file.
LEMMA SeekEndKeeps ==
  ASSUME HubInv, NEW g \in Session, SeekEnd(g)
  PROVE  HubInv'
<1> USE HubAssumption DEF HubInv, SeekEnd, sessions, hub
<1>1. TypeOK'
  BY DEF TypeOK
<1>2. Subscribed' /\ Started' /\ OneStreamerForSubscribers'
  BY DEF Subscribed, Started, OneStreamerForSubscribers, TypeOK
<1>3. \A h \in Session \ {g} : /\ handed'[h] = handed[h] /\ pushed'[h] = pushed[h]
                               /\ pos'[h] = pos[h] /\ follow'[h] = follow[h]
  BY DEF TypeOK
<1>4. /\ handed'[g] = log /\ pushed'[g] = log /\ pos'[g] = log /\ follow'[g] = "tick"
      /\ in[g] = <<>> /\ fan[g] # "deliver" /\ log \in Nat
  BY DEF InFlight, TypeOK, Lines
<1>5. InFlight'
  BY <1>3, <1>4 DEF InFlight, Out
<1>6. SeenBefore'
  <2>1. \A h \in Session : handed[h] <= handed'[h] \/ h = g
    BY <1>3 DEF TypeOK, Lines
  <2>2. \A s \in Session : from[s] \subseteq Session /\ shown[s] <= log
    BY DEF SeenBefore, TypeOK
  <2> QED
    BY <1>3, <1>4, <2>2 DEF SeenBefore
<1> QED
  BY <1>1, <1>2, <1>5, <1>6

\* A follower takes up the next lines.
LEMMA ReadKeeps ==
  ASSUME HubInv, NEW g \in Session, Read(g)
  PROVE  HubInv'
<1> USE HubAssumption DEF HubInv, Read, sessions, hub
<1>1. TypeOK'
  BY DEF TypeOK
<1>2. Subscribed' /\ Started' /\ OneStreamerForSubscribers' /\ SeenBefore'
  BY DEF Subscribed, Started, OneStreamerForSubscribers, SeenBefore, TypeOK
<1>3. \A h \in Session \ {g} : pos'[h] = pos[h] /\ follow'[h] = follow[h]
  BY DEF TypeOK
<1>4. pos'[g] = log /\ follow'[g] = "push" /\ pushed[g] < log
  BY LineNumbers DEF InFlight, TypeOK
<1>5. \A h \in Session : Out(h)' = Out(h)
  BY DEF Out
<1>6. InFlight'
  BY <1>3, <1>4, <1>5, LineNumbers DEF InFlight
<1> QED
  BY <1>1, <1>2, <1>6

\* A line goes into the streamer's channel.
LEMMA PushKeeps ==
  ASSUME HubInv, NEW g \in Session, Push(g)
  PROVE  HubInv'
<1> USE HubAssumption DEF HubInv, Push, sessions, hub
<1> DEFINE n == pushed[g] + 1
<1>1. n \in Lines /\ n <= pos[g] /\ pos[g] <= log /\ pushed'[g] = n
  BY DEF InFlight, TypeOK, Lines
<1>2. /\ in'[g] = Append(in[g], n) /\ in'[g] \in Seq(Lines)
      /\ Len(in'[g]) = Len(in[g]) + 1 /\ Len(in[g]) \in Nat
      /\ \A i \in 1..Len(in[g]) : in'[g][i] = in[g][i]
      /\ in'[g][Len(in[g]) + 1] = n
  BY <1>1, PushedChannel DEF TypeOK
<1>3. TypeOK'
  BY <1>1, <1>2 DEF TypeOK
<1>4. Subscribed' /\ Started' /\ OneStreamerForSubscribers' /\ SeenBefore'
  BY DEF Subscribed, Started, OneStreamerForSubscribers, SeenBefore, TypeOK
<1>5. \A h \in Session \ {g} : /\ in'[h] = in[h] /\ pushed'[h] = pushed[h]
                               /\ follow'[h] = follow[h]
  BY DEF TypeOK
<1>6. follow'[g] = (IF n = pos[g] THEN "tick" ELSE "push")
  BY <1>1 DEF TypeOK
<1>7. Out(g)' = Out(g) /\ Out(g) \in Nat
  BY DEF Out, TypeOK, Lines
<1>8. ASSUME fan[g] \in {"select", "deliver"}
      PROVE  /\ pushed'[g] = Out(g) + Len(in'[g])
             /\ \A i \in 1..Len(in'[g]) : in'[g][i] = Out(g) + i
  <2>1. pushed[g] = Out(g) + Len(in[g]) /\ \A i \in 1..Len(in[g]) : in[g][i] = Out(g) + i
    BY <1>8 DEF InFlight
  <2>2. pushed'[g] = Out(g) + Len(in'[g])
    BY <1>1, <1>2, <1>7, <2>1
  <2>3. ASSUME NEW i \in 1..Len(in'[g])
        PROVE  in'[g][i] = Out(g) + i
    <3>1. i \in 1..Len(in[g]) \/ i = Len(in[g]) + 1
      BY <1>2
    <3> QED
      BY <1>2, <1>7, <2>1, <3>1
  <2> QED
    BY <2>2, <2>3
<1>9. InFlight'
  <2>1. ASSUME NEW h \in Session, h # g
        PROVE  /\ Out(h)' = Out(h) /\ in'[h] = in[h] /\ pushed'[h] = pushed[h]
               /\ follow'[h] = follow[h]
    BY <1>5, <2>1 DEF Out
  <2>2. n \in Nat /\ pos[g] \in Nat
    BY <1>1 DEF TypeOK, Lines
  <2> QED
    BY <1>1, <1>6, <1>7, <1>8, <2>1, <2>2 DEF InFlight
<1> QED
  BY <1>3, <1>4, <1>9

\* A follower whose streamer was cancelled ends.
LEMMA FollowStopsKeeps ==
  ASSUME HubInv, NEW g \in Session, FollowStops(g)
  PROVE  HubInv'
<1> USE HubAssumption DEF HubInv, FollowStops, sessions, hub
<1>1. TypeOK'
  BY DEF TypeOK
<1>2. Subscribed' /\ Started' /\ OneStreamerForSubscribers' /\ SeenBefore'
  BY DEF Subscribed, Started, OneStreamerForSubscribers, SeenBefore, TypeOK
<1>3. InFlight'
  BY DEF InFlight, Out, TypeOK
<1> QED
  BY <1>1, <1>2, <1>3

-----------------------------------------------------------------------------
(* fanOut keeps the invariant.                                             *)

\* The fan-out takes a line from the channel.
LEMMA TakeKeeps ==
  ASSUME HubInv, NEW g \in Session, Take(g)
  PROVE  HubInv'
<1> USE HubAssumption DEF HubInv, Take, sessions, hub
<1>1. /\ line'[g] = in[g][1] /\ in'[g] = Tail(in[g]) /\ line'[g] \in Lines
      /\ in'[g] \in Seq(Lines) /\ Len(in'[g]) = Len(in[g]) - 1 /\ Len(in[g]) \in Nat \ {0}
      /\ \A i \in 1..Len(in'[g]) : in'[g][i] = in[g][i + 1]
  BY TakenChannel DEF TypeOK
<1>2. TypeOK'
  BY <1>1 DEF TypeOK
<1>3. Subscribed' /\ Started' /\ OneStreamerForSubscribers' /\ SeenBefore'
  BY DEF Subscribed, Started, OneStreamerForSubscribers, SeenBefore, TypeOK
<1>4. /\ Out(g) = handed[g] /\ handed[g] \in Nat
      /\ pushed[g] = handed[g] + Len(in[g])
      /\ \A i \in 1..Len(in[g]) : in[g][i] = handed[g] + i
  BY LineNumbers DEF Out, InFlight
<1>5. line'[g] = handed[g] + 1 /\ Out(g)' = handed[g] + 1
  BY <1>1, <1>4 DEF Out, TypeOK
<1>6. pushed[g] = Out(g)' + Len(in'[g])
  BY <1>1, <1>4, <1>5
<1>7. \A i \in 1..Len(in'[g]) : in'[g][i] = Out(g)' + i
  BY <1>1, <1>4, <1>5
<1>8. ASSUME NEW h \in Session, h # g
      PROVE  Out(h)' = Out(h) /\ in'[h] = in[h] /\ fan'[h] = fan[h] /\ line'[h] = line[h]
  BY <1>8 DEF Out, TypeOK
<1>9. follow[g] \notin {"none", "start"} /\ fan'[g] = "deliver"
  BY DEF InFlight, TypeOK
<1>10. InFlight'
  BY <1>5, <1>6, <1>7, <1>8, <1>9 DEF InFlight
<1> QED
  BY <1>2, <1>3, <1>10

\* A line goes into a subscriber's channel or is dropped.
LEMMA DeliverKeeps ==
  ASSUME HubInv, NEW g \in Session, Deliver(g)
  PROVE  HubInv'
<1> USE HubAssumption DEF HubInv, Deliver, hub
<1> DEFINE room == {s \in subs : Len(ch[s]) < BufLines}
<1>1. /\ line[g] = handed[g] + 1 /\ handed[g] \in Nat /\ line[g] \in Lines
      /\ handed'[g] = line[g] /\ follow[g] \notin {"none", "start"}
      /\ fan'[g] = "select"
  BY DEF InFlight, TypeOK, Lines
<1>2. line[g] <= log
  BY <1>1 DEF InFlight, Out, TypeOK, Lines
<1>3. TypeOK'
  <2>1. ASSUME NEW s \in Session
        PROVE  ch'[s] \in Seq(Lines) /\ Len(ch'[s]) <= BufLines
    <3>1. CASE s \in room
      BY <1>1, <3>1, PushedChannel DEF TypeOK
    <3>2. CASE s \notin room
      BY <3>2 DEF TypeOK
    <3> QED
      BY <3>1, <3>2
  <2>2. ch' \in [Session -> Seq(Lines)]
    BY <2>1
  <2>3. shown' \in [Session -> Lines] /\ from' \in [Session -> SUBSET Session]
    BY <1>1 DEF TypeOK
  <2>4. line' \in [Session -> Lines] /\ handed' \in [Session -> Lines] /\ 0 \in Lines
    BY <1>1 DEF TypeOK, Lines
  <2> QED
    BY <2>1, <2>2, <2>3, <2>4 DEF TypeOK
<1>4. Subscribed'
  <2>1. \A s \in Session : pc[s] \in {"new", "seeded"} => s \notin room
    BY DEF Subscribed
  <2>2. \A s \in Session \ room : ch'[s] = ch[s] /\ from'[s] = from[s]
    OBVIOUS
  <2> QED
    BY <2>1, <2>2 DEF Subscribed
<1>5. Started'
  BY <1>1 DEF Started, TypeOK
<1>6. OneStreamerForSubscribers'
  BY DEF OneStreamerForSubscribers
<1>7. InFlight'
  <2>1. Out(g)' = Out(g)
    BY <1>1 DEF Out
  <2>2. ASSUME NEW h \in Session, h # g
        PROVE  /\ Out(h)' = Out(h) /\ fan'[h] = fan[h] /\ line'[h] = line[h]
               /\ handed'[h] = handed[h]
    BY <2>2 DEF Out, TypeOK
  <2> QED
    BY <1>1, <1>2, <2>1, <2>2 DEF InFlight
<1>8. SeenBefore'
  <2>1. ASSUME NEW h \in Session
        PROVE  handed[h] <= handed'[h]
    <3>1. handed'[h] = handed[h] \/ h = g
      BY DEF TypeOK
    <3> QED
      BY <1>1, <3>1, LineNumbers
  <2>2. ASSUME NEW s \in Session
        PROVE  /\ shown'[s] <= log
               /\ from'[s] = {} /\ follow[s] \notin {"none", "start"} => shown'[s] <= handed'[s]
               /\ from'[s] \cap cancelled = {} => \A h \in from'[s] : shown'[s] <= handed'[h]
    <3>1. CASE s \in room
      <4>1. shown'[s] = line[g] /\ from'[s] = from[s] \cup {g}
        BY <3>1
      <4>2. ASSUME from'[s] \cap cancelled = {}, NEW h \in from'[s]
            PROVE  h = g
        BY <1>1, <4>1, <4>2 DEF OneStreamerForSubscribers, Started, TypeOK
      <4>3. line[g] <= handed'[g]
        BY <1>1
      <4> QED
        BY <1>2, <4>1, <4>2, <4>3
    <3>2. CASE s \notin room
      <4>1. shown'[s] = shown[s] /\ from'[s] = from[s]
        BY <3>2
      <4>2. from[s] \subseteq Session /\ shown[s] \in Nat
            /\ \A h \in Session : handed[h] \in Nat /\ handed'[h] \in Nat
        BY <1>1, LineNumbers DEF TypeOK
      <4> QED
        BY <2>1, <4>1, <4>2 DEF SeenBefore
    <3> QED
      BY <3>1, <3>2
  <2> QED
    BY <2>2 DEF SeenBefore
<1> QED
  BY <1>3, <1>4, <1>5, <1>6, <1>7, <1>8

\* A fan-out whose streamer was cancelled ends.
LEMMA FanStopsKeeps ==
  ASSUME HubInv, NEW g \in Session, FanStops(g)
  PROVE  HubInv'
<1> USE HubAssumption DEF HubInv, FanStops, sessions, hub
<1>1. TypeOK'
  BY DEF TypeOK
<1>2. Subscribed' /\ Started' /\ OneStreamerForSubscribers' /\ SeenBefore'
  BY DEF Subscribed, Started, OneStreamerForSubscribers, SeenBefore, TypeOK
<1>3. InFlight'
  BY DEF InFlight, Out, TypeOK
<1> QED
  BY <1>1, <1>2, <1>3

\* The file grows.
LEMMA AppendLineKeeps ==
  ASSUME HubInv, AppendLine
  PROVE  HubInv'
<1> USE HubAssumption DEF HubInv, AppendLine, sessions, hub, streamers
<1>1. TypeOK'
  BY DEF TypeOK, Lines
<1>2. Subscribed' /\ Started' /\ OneStreamerForSubscribers'
  BY DEF Subscribed, Started, OneStreamerForSubscribers
<1>3. \A h \in Session : Out(h)' = Out(h)
  BY DEF Out
<1>4. InFlight' /\ SeenBefore'
  BY <1>3, LineNumbers DEF InFlight, SeenBefore
<1> QED
  BY <1>1, <1>2, <1>4

\* Every step keeps the invariant.
LEMMA HubStep ==
  ASSUME HubInv, [Next]_vars
  PROVE  HubInv'
<1>1. ASSUME NEW s \in Session, SessionStep(s)
      PROVE  HubInv'
  BY <1>1, BackfillKeeps, SubscribeKeeps, ShowKeeps, LeaveKeeps, UnsubscribeKeeps
     DEF SessionStep
<1>2. ASSUME NEW g \in Session, FollowStep(g)
      PROVE  HubInv'
  BY <1>2, SeekEndKeeps, ReadKeeps, PushKeeps, FollowStopsKeeps DEF FollowStep
<1>3. ASSUME NEW g \in Session, FanStep(g)
      PROVE  HubInv'
  BY <1>3, TakeKeeps, DeliverKeeps, FanStopsKeeps DEF FanStep
<1>4. CASE UNCHANGED vars
  <2> USE <1>4 DEF vars, sessions, hub, streamers, HubInv
  <2>1. TypeOK' /\ Subscribed' /\ Started' /\ OneStreamerForSubscribers' /\ SeenBefore'
    BY DEF TypeOK, Subscribed, Started, OneStreamerForSubscribers, SeenBefore
  <2>2. InFlight'
    BY DEF InFlight, Out
  <2> QED
    BY <2>1, <2>2
<1> QED
  BY <1>1, <1>2, <1>3, <1>4, AppendLineKeeps DEF Next, Terminated

-----------------------------------------------------------------------------
(* The theorems.                                                           *)

\* The invariant of the hub, its sessions and its streamers always holds.
THEOREM HubInvariant == Spec => []HubInv
<1> QED
  BY HubInit, HubStep, PTL DEF Spec

\* Every variable keeps its type; no channel exceeds its capacity.
THEOREM HubTypeCorrect == Spec => []TypeOK
<1>1. HubInv => TypeOK
  BY DEF HubInv
<1> QED
  BY <1>1, HubInvariant, PTL

\* There is a streamer in service exactly when there are subscribers, and it
\* is the one that unsubscribing stops (hub.go:32-75), whatever the number of
\* sessions and the order in which they come and go.
THEOREM OneStreamer == Spec => []OneStreamerForSubscribers
<1>1. HubInv => OneStreamerForSubscribers
  BY DEF HubInv
<1> QED
  BY <1>1, HubInvariant, PTL

\* What a fanOut does with the line it has in hand.
LEMMA OnlyDeliverHands ==
  ASSUME HubInv, [Next]_vars, NEW g \in Session, fan[g] = "deliver", fan'[g] = "select"
  PROVE  Deliver(g)
<1>1. ASSUME NEW h \in Session, SessionStep(h) PROVE FALSE
  <2>1. CASE Subscribe(h)
    <3>1. pc[h] = "seeded" /\ fan' \in {fan, [fan EXCEPT ![h] = "select"]}
      BY <2>1 DEF Subscribe, Start, streamers
    <3>2. fan[h] = "none"
      BY <3>1 DEF HubInv, Subscribed, Started
    <3> QED
      BY <3>1, <3>2 DEF HubInv, TypeOK
  <2>2. CASE ~Subscribe(h)
    <3>1. fan' = fan
      BY <1>1, <2>2 DEF SessionStep, Backfill, Show, Leave, Unsubscribe, streamers
    <3> QED
      BY <3>1
  <2> QED
    BY <2>1, <2>2
<1>2. ASSUME NEW h \in Session, FollowStep(h) PROVE FALSE
  BY <1>2 DEF FollowStep, SeekEnd, Read, Push, FollowStops
<1>3. ASSUME NEW h \in Session, FanStep(h) PROVE Deliver(g)
  BY <1>3 DEF FanStep, Take, Deliver, FanStops, HubInv, TypeOK
<1>4. CASE AppendLine \/ UNCHANGED vars
  BY <1>4 DEF AppendLine, vars, streamers
<1> QED
  BY <1>1, <1>2, <1>3, <1>4 DEF Next, Terminated

\* A streamer offers line after line to the subscribers (hub.go:79-97): across
\* two goroutines and a channel of any capacity nothing is lost, repeated or
\* reordered.
THEOREM LinesInOrder == Spec => LineAfterLine
<1>1. ASSUME HubInv, [Next]_vars, NEW g \in Session, fan[g] = "deliver", fan'[g] = "select"
      PROVE  handed'[g] = handed[g] + 1
  <2>1. Deliver(g)
    BY <1>1, OnlyDeliverHands
  <2> QED
    BY <1>1, <2>1 DEF Deliver, HubInv, InFlight, TypeOK
<1>2. HubInv /\ [Next]_vars =>
        [\A g \in Session :
           fan[g] = "deliver" /\ fan'[g] = "select" => handed'[g] = handed[g] + 1]_vars
  BY <1>1
<1> QED
  BY <1>2, HubInvariant, PTL DEF Spec, LineAfterLine

\* A line that a tab gets again, or behind a later one, has one of the two
\* explanations: the backfill had it already and the session joined a running
\* streamer, or a cancelled streamer has handed lines to the session too.
THEOREM RepeatsAreExplained == Spec => RepeatsExplained
<1>1. ASSUME HubInv, [Next]_vars, NEW s \in Session, NEW g \in Session,
             Gets(s, g), line[g] <= shown[s]
      PROVE  (from[s] = {} /\ g # s) \/ from'[s] \cap cancelled # {}
  <2>1. Deliver(g)
    BY <1>1, OnlyDeliverHands DEF Gets
  <2>2. from'[s] = from[s] \cup {g}
    BY <1>1, <2>1 DEF Deliver, Gets, HubInv, TypeOK
  <2>3. /\ line[g] = handed[g] + 1 /\ handed[g] \in Nat /\ shown[s] \in Nat
        /\ follow[g] \notin {"none", "start"}
    BY <1>1, LineNumbers DEF Gets, HubInv, InFlight
  <2>4. CASE from[s] = {}
    <3>1. g # s
      BY <1>1, <2>3, <2>4 DEF HubInv, SeenBefore
    <3> QED
      BY <2>4, <3>1
  <2>5. CASE from[s] # {} /\ from'[s] \cap cancelled = {}
    <3>1. \A h \in from[s] : h \in Session /\ h \notin cancelled /\ h = current
      BY <1>1, <2>2, <2>5 DEF HubInv, OneStreamerForSubscribers, Started, TypeOK
    <3>2. g = current
      BY <1>1, <2>2, <2>3, <2>5 DEF HubInv, OneStreamerForSubscribers
    <3>3. g \in from[s] /\ from[s] \cap cancelled = {}
      BY <2>2, <2>5, <3>1, <3>2
    <3>4. shown[s] <= handed[g]
      BY <1>1, <3>3 DEF HubInv, SeenBefore
    <3> QED
      BY <1>1, <2>3, <3>4
  <2> QED
    BY <2>4, <2>5
<1>2. HubInv /\ [Next]_vars =>
        [\A s, g \in Session :
           Gets(s, g) /\ line[g] <= shown[s] =>
             \/ from[s] = {} /\ g # s
             \/ from'[s] \cap cancelled # {}]_vars
  BY <1>1
<1> QED
  BY <1>2, HubInvariant, PTL DEF Spec, RepeatsExplained
=============================================================================
