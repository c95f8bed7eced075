-------------------------- MODULE StateCacheProofs --------------------------
(***************************************************************************)
(* Theorems about StateCache, for any set of polls and of writes.  A poll  *)
(* becomes the refresher only when c.pending is nil, c.pending names it    *)
(* until it publishes, and no other poll touches c.pending meanwhile.      *)
(***************************************************************************)
EXTENDS StateCache, TLAPS

\* The later of two payloads is a payload.
LEMMA LaterType ==
  ASSUME NEW a \in Payload, NEW b \in Payload
  PROVE  Later(a, b) \in Payload
BY DEF Later, Payload

\* What a poll that answers now answers is a payload.
LEMMA ReplyType ==
  ASSUME TypeOK, NEW p \in Poll, pc[p] = "new" => entry # None
  PROVE  Reply(p) \in Payload
BY DEF Reply, TypeOK

\* Answering keeps the types.
LEMMA AnswerType ==
  ASSUME TypeOK, NEW p \in Poll, Answer(p), Reply(p) \in Payload
  PROVE  /\ pc' \in [Poll \cup Write -> Steps]
         /\ \A q \in Poll : pc'[q] = "wait" => slot'[q] \in Poll
         /\ slot' \in [Poll -> Poll \cup {None}]
         /\ got' \in [Poll -> Payload]
         /\ newest' \in Payload
         /\ floor' \in [Poll -> [acked : Payload, newest : Payload]]
<1>1. Missing \in Payload /\ Nothing \in [acked : Payload, newest : Payload]
  BY DEF Missing, Nothing, Payload
<1>2. newest' \in Payload
  BY LaterType DEF Answer, TypeOK
<1>3. got' \in [Poll -> Payload]
  BY <1>1 DEF Answer, TypeOK
<1>4. floor' \in [Poll -> [acked : Payload, newest : Payload]]
  BY <1>1 DEF Answer, TypeOK
<1> QED
  BY <1>2, <1>3, <1>4 DEF Answer, Goto, TypeOK, Steps

\* Changing a part keeps the versions' types.
LEMMA ChangeType ==
  ASSUME TypeOK, NEW w \in Write, NEW x \in Part, Change(w, x)
  PROVE  disk' \in Payload /\ made' \in [Write -> Payload]
<1>1. disk[x] + 1 \in Nat /\ disk[x] \in Nat
  BY DEF TypeOK, Payload
<1> QED
  BY <1>1 DEF Change, TypeOK, Payload

\* Every step keeps the types.
LEMMA TypeStep ==
  ASSUME TypeOK, [Next]_vars
  PROVE  TypeOK'
<1> USE CacheAssumption
<1>1. ASSUME NEW p \in Poll, PollStep(p)
      PROVE  TypeOK'
  <2>1. CASE Hit(p)
    <3>1. Reply(p) \in Payload
      BY <2>1, ReplyType DEF Hit, Usable
    <3> QED
      BY <2>1, <3>1, AnswerType DEF Hit, TypeOK, cache
  <2>2. CASE Join(p)
    BY <2>2 DEF Join, Miss, Goto, TypeOK, Steps
  <2>3. CASE Refresh(p)
    BY <2>3 DEF Refresh, Miss, Goto, TypeOK, Steps
  <2>4. CASE Collect(p)
    <3>1. disk[pc[p]] \in Nat /\ NextPart(pc[p]) \in Steps /\ NextPart(pc[p]) # "wait"
      BY <2>4 DEF Collect, TypeOK, Payload, NextPart, Part, Steps
    <3>2. got' \in [Poll -> Payload]
      BY <2>4, <3>1 DEF Collect, TypeOK, Payload
    <3> QED
      BY <2>4, <3>1, <3>2 DEF Collect, Goto, TypeOK, cache
  <2>5. CASE CollectFails(p)
    <3>1. NextPart(pc[p]) \in Steps /\ NextPart(pc[p]) # "wait"
      BY <2>5 DEF CollectFails, NextPart, Part, Steps
    <3> QED
      BY <2>5, <3>1 DEF CollectFails, Goto, TypeOK, cache, polls, Steps
  <2>6. CASE Publish(p)
    BY <2>6 DEF Publish, Goto, TypeOK, polls, Steps
  <2>7. CASE Close(p)
    <3>1. Reply(p) \in Payload
      BY <2>7, ReplyType DEF Close
    <3> QED
      BY <2>7, <3>1, AnswerType DEF Close, TypeOK, cache
  <2>8. CASE Wake(p)
    <3>1. Reply(p) \in Payload
      BY <2>8, ReplyType DEF Wake
    <3> QED
      BY <2>8, <3>1, AnswerType DEF Wake, TypeOK, cache
  <2> QED
    BY <1>1, <2>1, <2>2, <2>3, <2>4, <2>5, <2>6, <2>7, <2>8 DEF PollStep
<1>2. ASSUME NEW w \in Write, WriteStep(w)
      PROVE  TypeOK'
  <2>1. CASE Arrive(w)
    BY <2>1 DEF Arrive, Goto, TypeOK, cache, polls, Steps
  <2>2. CASE WriteConfig(w) \/ Restart(w) \/ Undo(w) \/ ServiceAction(w)
    <3>1. disk' \in Payload /\ made' \in [Write -> Payload]
      BY <2>2, ChangeType DEF WriteConfig, Restart, Undo, ServiceAction, Part
    <3> QED
      BY <2>2, <3>1 DEF WriteConfig, Restart, Undo, ServiceAction, Finish, Goto, TypeOK,
                        cache, polls, Steps
  <2>3. CASE RestartFails(w)
    <3>1. disk' \in Payload
      BY <2>3 DEF RestartFails, TypeOK, Payload, Part
    <3> QED
      BY <2>3, <3>1 DEF RestartFails, Finish, Goto, TypeOK, cache, polls, Steps
  <2>4. CASE Invalidate(w)
    <3>1. acked' \in Payload
      BY <2>4, LaterType DEF Invalidate, TypeOK
    <3> QED
      BY <2>4, <3>1 DEF Invalidate, Finish, Goto, TypeOK, polls, Steps
  <2>5. CASE WriteStore(w)
    <3>1. disk' \in Payload /\ made' \in [Write -> Payload]
      BY <2>5, ChangeType DEF WriteStore, Part
    <3>2. acked' \in Payload
      BY <2>5, <3>1, LaterType DEF WriteStore, TypeOK
    <3> QED
      BY <2>5, <3>1, <3>2 DEF WriteStore, Finish, Goto, TypeOK, cache, polls, Steps
  <2> QED
    BY <1>2, <2>1, <2>2, <2>3, <2>4, <2>5 DEF WriteStep
<1>3. CASE Expire
  BY <1>3 DEF Expire, TypeOK, polls
<1>4. CASE UNCHANGED vars
  BY <1>4 DEF TypeOK, vars, cache, polls
<1> QED
  BY <1>1, <1>2, <1>3, <1>4 DEF Next, Terminated

\* The types hold at the start.
LEMMA TypeInit == Init => TypeOK
<1>1. First \in Payload /\ Missing \in Payload
  BY DEF First, Missing, Payload
<1>2. Nothing \in [acked : Payload, newest : Payload]
  BY <1>1 DEF Nothing
<1> QED
  BY <1>1, <1>2 DEF Init, TypeOK, Steps

\* Every variable keeps its type; in particular a poll that waits has a slot
\* to wait on.
THEOREM CacheTypeCorrect == Spec => []TypeOK
<1>1. TypeOK /\ [Next]_vars => TypeOK'
  BY TypeStep
<1> QED
  BY <1>1, TypeInit, PTL DEF Spec

\* Every step keeps the refreshes apart.
LEMMA SingleStep ==
  ASSUME TypeOK, SingleProbe, [Next]_vars
  PROVE  SingleProbe'
<1> USE CacheAssumption
<1>1. ASSUME NEW p \in Poll, PollStep(p)
      PROVE  SingleProbe'
  <2>1. CASE Hit(p) \/ Close(p) \/ Wake(p)
    BY <2>1 DEF Hit, Close, Wake, Answer, Goto, TypeOK, SingleProbe, Refreshing, cache
  <2>2. CASE Join(p)
    BY <2>2 DEF Join, Miss, Goto, TypeOK, SingleProbe, Refreshing
  <2>3. CASE Refresh(p)
    BY <2>3 DEF Refresh, Miss, Goto, TypeOK, SingleProbe, Refreshing
  <2>4. CASE Collect(p) \/ CollectFails(p)
    BY <2>4 DEF Collect, CollectFails, NextPart, Part, Goto, TypeOK, SingleProbe,
                Refreshing, cache
  <2>5. CASE Publish(p)
    BY <2>5 DEF Publish, Goto, TypeOK, SingleProbe, Refreshing
  <2> QED
    BY <1>1, <2>1, <2>2, <2>3, <2>4, <2>5 DEF PollStep
<1>2. ASSUME NEW w \in Write, WriteStep(w)
      PROVE  SingleProbe'
  <2>1. pending' = pending /\ \A p \in Poll : pc'[p] = pc[p]
    BY <1>2 DEF WriteStep, Arrive, WriteConfig, Restart, RestartFails, Invalidate,
                WriteStore, Undo, ServiceAction, Finish, Goto, TypeOK, cache
  <2> QED
    BY <2>1 DEF SingleProbe
<1>3. CASE Expire \/ UNCHANGED vars
  BY <1>3 DEF Expire, SingleProbe, vars, cache
<1> QED
  BY <1>1, <1>2, <1>3 DEF Next, Terminated

\* "exactly ONE goroutine refreshes": at most one poll probes at any time, and
\* it is the one c.pending names, for any number of polls and writes.
THEOREM OneRefreshes == Spec => []SingleProbe
<1>1. Init => SingleProbe
  BY CacheAssumption DEF Init, SingleProbe, Refreshing
<1>2. TypeOK /\ SingleProbe /\ [Next]_vars => SingleProbe'
  BY SingleStep
<1> QED
  BY <1>1, <1>2, CacheTypeCorrect, PTL DEF Spec

\* Every step keeps the waiting polls supplied with somebody who will close
\* the slot they wait on.
LEMMA StrandedStep ==
  ASSUME TypeOK, SingleProbe, NobodyStranded, [Next]_vars
  PROVE  NobodyStranded'
<1> USE CacheAssumption
<1>1. ASSUME NEW p \in Poll, PollStep(p)
      PROVE  NobodyStranded'
  <2>1. CASE Hit(p) \/ Close(p) \/ Wake(p)
    <3>1. /\ pc' = [pc EXCEPT ![p] = "done"] /\ slot' = [slot EXCEPT ![p] = None]
          /\ pc[p] \notin Refreshing /\ closed \subseteq closed'
          /\ pc[p] = "close" => p \in closed'
      BY <2>1 DEF Hit, Close, Wake, Answer, Goto, Refreshing
    <3> QED
      BY <3>1 DEF NobodyStranded, TypeOK
  <2>2. CASE Join(p)
    <3>1. /\ pending \in Poll /\ pc[pending] \in Refreshing /\ pc[p] = "new"
          /\ pc' = [pc EXCEPT ![p] = "wait"] /\ slot' = [slot EXCEPT ![p] = pending]
          /\ closed' = closed
      BY <2>2 DEF Join, Miss, Goto, TypeOK, SingleProbe
    <3> QED
      BY <3>1 DEF NobodyStranded, TypeOK, Refreshing
  <2>3. CASE Refresh(p)
    BY <2>3 DEF Refresh, Miss, Goto, NobodyStranded, TypeOK, Refreshing
  <2>4. CASE Collect(p) \/ CollectFails(p)
    <3>1. /\ pc[p] \in Part /\ pc' = [pc EXCEPT ![p] = pc'[p]] /\ pc'[p] \in Refreshing
          /\ slot' = slot /\ closed' = closed
      BY <2>4 DEF Collect, CollectFails, Goto, NextPart, Part, TypeOK, Refreshing, polls
    <3> QED
      BY <3>1 DEF NobodyStranded, TypeOK, Part, Refreshing
  <2>5. CASE Publish(p)
    BY <2>5 DEF Publish, Goto, NobodyStranded, TypeOK, Refreshing, polls
  <2> QED
    BY <1>1, <2>1, <2>2, <2>3, <2>4, <2>5 DEF PollStep
<1>2. ASSUME NEW w \in Write, WriteStep(w)
      PROVE  NobodyStranded'
  <2>1. UNCHANGED polls /\ \A p \in Poll : pc'[p] = pc[p]
    BY <1>2 DEF WriteStep, Arrive, WriteConfig, Restart, RestartFails, Invalidate,
                WriteStore, Undo, ServiceAction, Finish, Goto, TypeOK
  <2> QED
    BY <2>1 DEF NobodyStranded, TypeOK, polls
<1>3. CASE Expire \/ UNCHANGED vars
  BY <1>3 DEF Expire, NobodyStranded, vars, polls
<1> QED
  BY <1>1, <1>2, <1>3 DEF Next, Terminated

\* No poll waits on a slot that nobody is going to close (state.go:74-100):
\* whatever fails while the refresher collects, it still publishes and closes,
\* for any number of polls.
THEOREM NobodyIsStranded == Spec => []NobodyStranded
<1>1. Init => NobodyStranded
  BY CacheAssumption DEF Init, NobodyStranded
<1>2. TypeOK /\ SingleProbe /\ NobodyStranded /\ [Next]_vars => NobodyStranded'
  BY StrandedStep
<1> QED
  BY <1>1, <1>2, CacheTypeCorrect, OneRefreshes, PTL DEF Spec

-----------------------------------------------------------------------------
(* The view never goes back.                                               *)

\* No version in sight is newer than the disk's, and no poll began with more
\* than was answered.
WithinDisk ==
  \A x \in Part :
    /\ newest[x] <= disk[x]
    /\ entry # None => entry[x] <= disk[x]
    /\ \A p \in Poll : got[p][x] <= disk[x] /\ floor[p].newest[x] <= newest[x]

\* The entry is at least as new as every answer and every slot's payload.
EntryNewest ==
  /\ entry # None => /\ NotOlder(entry, newest)
                     /\ \A q \in Poll : q # pending => NotOlder(entry, got[q])
  /\ pending # None => ~Usable

\* So is what the refresher has collected so far.
RefreshNewest ==
  \A p \in Poll :
    pending = p => /\ NotOlder(got[p], newest)
                   /\ \A q \in Poll : q # p => NotOlder(got[p], got[q])

\* What a poll is going to answer is at least as new as what was answered
\* when it began.
ReplyNewEnough ==
  \A p \in Poll :
    /\ pc[p] = "new" => got[p] = Missing
    /\ pc[p] \in Refreshing \cup {"close"} => NotOlder(got[p], floor[p].newest)
    /\ pc[p] = "wait" => NotOlder(got[slot[p]], floor[p].newest)

\* Only a poll that is over has closed its slot.
ClosedDone == \A p \in closed : pc[p] = "done"

View == WithinDisk /\ EntryNewest /\ RefreshNewest /\ ReplyNewEnough /\ ClosedDone

\* Payloads are compared part by part.
LEMMA LaterFacts ==
  ASSUME NEW a \in Payload, NEW b \in Payload, NEW c \in Payload
  PROVE  /\ NotOlder(a, b) /\ NotOlder(a, c) => NotOlder(a, Later(b, c))
         /\ NotOlder(a, a) /\ NotOlder(a, Missing)
         /\ \A x \in Part : Later(b, c)[x] >= b[x] /\ Later(b, c)[x] \in {b[x], c[x]}
<1>1. \A x \in Part : a[x] \in Nat /\ b[x] \in Nat /\ c[x] \in Nat
  BY DEF Payload
<1> QED
  BY <1>1 DEF NotOlder, Later, Missing

\* What answering does to the collected payloads: one that somebody may still
\* answer stays, any other is dropped or stays.
LEMMA AnswerEffect ==
  ASSUME TypeOK, NEW p \in Poll, Answer(p), pc[p] \notin Refreshing
  PROVE  /\ pc' = [pc EXCEPT ![p] = "done"]
         /\ \A q \in Poll : got'[q] \in {got[q], Missing}
         /\ \A q \in Poll \ {p} : pc[q] # "done" => got'[q] = got[q]
         /\ \A q \in Poll \ {p} : slot'[q] = slot[q] /\ floor'[q] = floor[q]
         /\ \A q \in Poll \ {p} : pc[q] = "wait" => got'[slot'[q]] = got[slot[q]]
         /\ floor'[p] = Nothing
         /\ newest' = Later(newest, Reply(p))
<1>1. pc' = [pc EXCEPT ![p] = "done"] /\ newest' = Later(newest, Reply(p))
  BY DEF Answer, Goto
<1>2. \A q \in Poll \ {p} : slot'[q] = slot[q] /\ floor'[q] = floor[q]
  BY DEF Answer, TypeOK
<1>3. \A q \in Poll : got'[q] \in {got[q], Missing}
  BY DEF Answer
<1>4. \A q \in Poll \ {p} : pc[q] # "done" => got'[q] = got[q]
  BY <1>1 DEF Answer, TypeOK
<1>5. ASSUME NEW q \in Poll \ {p}, pc[q] = "wait"
      PROVE  got'[slot'[q]] = got[slot[q]]
  <2>1. slot[q] \in Poll /\ slot'[q] = slot[q]
    BY <1>2, <1>5 DEF TypeOK
  <2> QED
    BY <2>1 DEF Answer
<1>6. floor'[p] = Nothing
  BY DEF Answer, TypeOK
<1> QED
  BY <1>1, <1>2, <1>3, <1>4, <1>5, <1>6

\* An answer that is not newer than the entry, than what the refresher has
\* collected and than the disk keeps the view.
LEMMA AnswerKeepsView ==
  ASSUME TypeOK, TypeOK', SingleProbe, View, NEW p \in Poll, Answer(p),
         pc[p] \notin Refreshing, Reply(p) \in Payload,
         UNCHANGED <<disk, entry, fresh, pending>>, closed' \subseteq closed \cup {p},
         \A x \in Part : Reply(p)[x] <= disk[x],
         entry # None => NotOlder(entry, Reply(p)),
         \A r \in Poll : pending = r => NotOlder(got[r], Reply(p))
  PROVE  View'
<1> USE CacheAssumption
<1> DEFINE R == Reply(p)
<1>0. /\ pc' = [pc EXCEPT ![p] = "done"]
      /\ \A q \in Poll : got'[q] \in {got[q], Missing}
      /\ \A q \in Poll \ {p} : pc[q] # "done" => got'[q] = got[q]
      /\ \A q \in Poll \ {p} : slot'[q] = slot[q] /\ floor'[q] = floor[q]
      /\ \A q \in Poll \ {p} : pc[q] = "wait" => got'[slot'[q]] = got[slot[q]]
      /\ floor'[p] = Nothing
      /\ newest' = Later(newest, R)
  BY AnswerEffect
<1>1. /\ R \in Payload /\ newest \in Payload /\ disk \in Payload
      /\ \A q \in Poll : got[q] \in Payload /\ floor[q].newest \in Payload
      /\ entry # None => entry \in Payload
      /\ Missing \in Payload
  BY DEF TypeOK, Missing, Payload
<1> HIDE DEF R
<1>2. WithinDisk'
  <2> SUFFICES ASSUME NEW x \in Part
               PROVE  /\ newest'[x] <= disk'[x]
                      /\ entry' # None => entry'[x] <= disk'[x]
                      /\ \A q \in Poll : got'[q][x] <= disk'[x] /\ floor'[q].newest[x] <= newest'[x]
    BY DEF WithinDisk
  <2>1. newest'[x] >= newest[x] /\ newest'[x] \in {newest[x], R[x]}
    BY <1>0, <1>1, LaterFacts
  <2>2. newest[x] \in Nat /\ R[x] \in Nat /\ disk[x] \in Nat
    BY <1>1 DEF Payload
  <2>3. newest[x] <= disk[x] /\ R[x] <= disk[x]
    BY DEF View, WithinDisk, R
  <2>4. ASSUME NEW q \in Poll
        PROVE  got'[q][x] <= disk[x] /\ floor'[q].newest[x] <= newest'[x]
    <3>1. got[q][x] <= disk[x] /\ floor[q].newest[x] <= newest[x]
      BY DEF View, WithinDisk
    <3>2. got[q][x] \in Nat /\ floor[q].newest[x] \in Nat
      BY <1>1 DEF Payload
    <3>3. got'[q][x] <= disk[x]
      BY <1>0, <3>1, <2>2 DEF Missing
    <3>4. floor'[q].newest[x] \in {floor[q].newest[x], 0}
      BY <1>0 DEF Nothing, Missing
    <3> QED
      BY <2>1, <2>2, <3>1, <3>2, <3>3, <3>4
  <2> QED
    BY <2>1, <2>2, <2>3, <2>4 DEF View, WithinDisk
<1>3. EntryNewest'
  <2>1. entry # None => NotOlder(entry, newest')
    BY <1>0, <1>1, LaterFacts DEF View, EntryNewest, R
  <2>2. ASSUME NEW q \in Poll, entry # None, q # pending
        PROVE  NotOlder(entry, got'[q])
    <3>1. NotOlder(entry, got[q])
      BY <2>2 DEF View, EntryNewest
    <3> QED
      BY <1>0, <1>1, <2>2, <3>1, LaterFacts
  <2>3. pending # None => ~Usable
    BY DEF View, EntryNewest
  <2> QED
    BY <2>1, <2>2, <2>3 DEF EntryNewest, Usable
<1>4. RefreshNewest'
  <2> SUFFICES ASSUME NEW r \in Poll, pending = r
               PROVE  /\ NotOlder(got'[r], newest')
                      /\ \A q \in Poll : q # r => NotOlder(got'[r], got'[q])
    BY DEF RefreshNewest
  <2>1. r # p /\ got'[r] = got[r]
    BY <1>0 DEF SingleProbe, Refreshing
  <2>2. NotOlder(got[r], newest')
    BY <1>0, <1>1, LaterFacts DEF View, RefreshNewest, R
  <2>3. ASSUME NEW q \in Poll, q # r
        PROVE  NotOlder(got[r], got'[q])
    <3>1. NotOlder(got[r], got[q])
      BY <2>3 DEF View, RefreshNewest
    <3> QED
      BY <1>0, <1>1, <3>1, LaterFacts
  <2> QED
    BY <2>1, <2>2, <2>3
<1>5. ReplyNewEnough'
  <2> SUFFICES ASSUME NEW q \in Poll
               PROVE  /\ pc'[q] = "new" => got'[q] = Missing
                      /\ pc'[q] \in Refreshing \cup {"close"} => NotOlder(got'[q], floor'[q].newest)
                      /\ pc'[q] = "wait" => NotOlder(got'[slot'[q]], floor'[q].newest)
    BY DEF ReplyNewEnough
  <2>1. CASE q = p
    BY <1>0, <2>1 DEF TypeOK, Refreshing
  <2>2. CASE q # p
    <3>1. pc'[q] = pc[q] /\ floor'[q] = floor[q]
      BY <1>0, <2>2
    <3> QED
      BY <1>0, <2>2, <3>1 DEF View, ReplyNewEnough, Refreshing
  <2> QED
    BY <2>1, <2>2
<1>6. ClosedDone'
  BY <1>0 DEF View, ClosedDone, TypeOK
<1> QED
  BY <1>2, <1>3, <1>4, <1>5, <1>6 DEF View

\* A poll that finds no usable entry begins with what was answered so far.
LEMMA MissKeepsView ==
  ASSUME TypeOK, TypeOK', SingleProbe, SingleProbe', View, NEW p \in Poll,
         Join(p) \/ Refresh(p)
  PROVE  View'
<1> USE CacheAssumption
<1>1. /\ newest \in Payload /\ acked \in Payload
      /\ \A q \in Poll : got[q] \in Payload
  BY DEF TypeOK
<1>2. /\ pc[p] = "new" /\ ~Usable
      /\ UNCHANGED <<disk, entry, fresh, got, newest>>
      /\ floor'[p].newest = newest
      /\ \A q \in Poll \ {p} : /\ pc'[q] = pc[q] /\ floor'[q] = floor[q]
                               /\ slot'[q] = slot[q]
  BY DEF Join, Refresh, Miss, Goto, TypeOK
<1>3. got[p] = Missing
  BY <1>2 DEF View, ReplyNewEnough
<1>4. WithinDisk'
  <2>1. \A q \in Poll : \A x \in Part : floor'[q].newest[x] <= newest[x]
    <3>1. \A x \in Part : newest[x] \in Nat
      BY <1>1 DEF Payload
    <3> QED
      BY <1>2, <3>1 DEF View, WithinDisk
  <2> QED
    BY <1>2, <2>1 DEF View, WithinDisk
<1>5. NotOlder(Missing, newest) /\ \A q \in Poll : NotOlder(Missing, got[q])
  BY DEF NotOlder, Missing
<1>8. ClosedDone'
  <2>1. closed' = closed
    BY DEF Join, Refresh, Miss
  <2> QED
    BY <1>2, <2>1 DEF View, ClosedDone, TypeOK
<1>6. CASE Join(p)
  <2>1. pending' = pending /\ slot'[p] = pending /\ pc'[p] = "wait" /\ pending \in Poll
    BY <1>6 DEF Join, Miss, Goto, TypeOK
  <2>2. EntryNewest'
    BY <1>2, <2>1 DEF View, EntryNewest, Usable
  <2>3. RefreshNewest'
    BY <1>2, <2>1 DEF View, RefreshNewest
  <2>4. ReplyNewEnough'
    <3>1. NotOlder(got[pending], newest)
      BY <2>1 DEF View, RefreshNewest
    <3> QED
      BY <1>2, <2>1, <3>1 DEF View, ReplyNewEnough, Refreshing
  <2> QED
    BY <1>4, <1>8, <2>2, <2>3, <2>4 DEF View
<1>7. CASE Refresh(p)
  <2>1. pending = None /\ pending' = p /\ pc'[p] = "config" /\ slot' = slot
    BY <1>7 DEF Refresh, Miss, Goto, TypeOK
  <2>2. EntryNewest'
    BY <1>2, <2>1 DEF View, EntryNewest, Usable
  <2>3. RefreshNewest'
    BY <1>2, <1>3, <1>5, <2>1 DEF RefreshNewest
  <2>4. ReplyNewEnough'
    BY <1>2, <1>3, <1>5, <2>1 DEF View, ReplyNewEnough, Refreshing
  <2> QED
    BY <1>4, <1>8, <2>2, <2>3, <2>4 DEF View
<1> QED
  BY <1>6, <1>7

\* Collecting a part shows the disk's version of it, which nothing exceeds.
LEMMA CollectKeepsView ==
  ASSUME TypeOK, TypeOK', SingleProbe, SingleProbe', View, NEW p \in Poll,
         Collect(p) \/ CollectFails(p)
  PROVE  View'
<1> USE CacheAssumption
<1>1. /\ newest \in Payload /\ disk \in Payload
      /\ \A q \in Poll : got[q] \in Payload /\ got'[q] \in Payload /\ floor[q].newest \in Payload
  BY DEF TypeOK
<1>2. /\ pc[p] \in Part /\ pc'[p] \in Refreshing
      /\ UNCHANGED <<disk, entry, fresh, pending, slot, newest, floor>>
      /\ \A q \in Poll \ {p} : pc'[q] = pc[q] /\ got'[q] = got[q]
      /\ \A x \in Part : got'[p][x] \in {got[p][x], disk[x]}
  BY DEF Collect, CollectFails, NextPart, Part, Refreshing, Goto, TypeOK, cache, polls, Payload
<1>3. pending = p
  BY <1>2 DEF SingleProbe, Refreshing, Part
<1>4. \A x \in Part : /\ newest[x] \in Nat /\ disk[x] \in Nat /\ newest[x] <= disk[x]
                      /\ \A q \in Poll : /\ got[q][x] \in Nat /\ got[q][x] <= disk[x]
                                         /\ floor[q].newest[x] \in Nat
                                         /\ floor[q].newest[x] <= newest[x]
  BY <1>1 DEF View, WithinDisk, Payload
<1>5. WithinDisk'
  <2>1. \A x \in Part : \A q \in Poll : got'[q][x] <= disk[x]
    BY <1>2, <1>4
  <2> QED
    BY <1>2, <2>1 DEF View, WithinDisk
<1>6. EntryNewest'
  BY <1>2, <1>3 DEF View, EntryNewest, Usable
<1>7. ASSUME NEW b \in Payload, NotOlder(got[p], b), \A x \in Part : b[x] <= disk[x]
      PROVE  NotOlder(got'[p], b)
  <2>1. \A x \in Part : b[x] \in Nat
    BY DEF Payload
  <2> QED
    BY <1>2, <1>4, <1>7, <2>1 DEF NotOlder
<1>8. RefreshNewest'
  <2>1. NotOlder(got'[p], newest)
    BY <1>1, <1>3, <1>4, <1>7 DEF View, RefreshNewest
  <2>2. ASSUME NEW q \in Poll, q # p
        PROVE  NotOlder(got'[p], got[q])
    BY <1>1, <1>3, <1>4, <1>7, <2>2 DEF View, RefreshNewest
  <2> QED
    BY <1>2, <1>3, <2>1, <2>2 DEF RefreshNewest
<1>9. ReplyNewEnough'
  <2> SUFFICES ASSUME NEW q \in Poll
               PROVE  /\ pc'[q] = "new" => got'[q] = Missing
                      /\ pc'[q] \in Refreshing \cup {"close"} => NotOlder(got'[q], floor[q].newest)
                      /\ pc'[q] = "wait" => NotOlder(got'[slot[q]], floor[q].newest)
    BY <1>2 DEF ReplyNewEnough
  <2>1. CASE q = p
    <3>1. NotOlder(got[p], floor[p].newest)
      BY <1>2 DEF View, ReplyNewEnough, Refreshing, Part
    <3>2. \A x \in Part : floor[p].newest[x] <= disk[x]
      BY <1>4
    <3> QED
      BY <1>1, <1>2, <1>7, <2>1, <3>1, <3>2 DEF Refreshing
  <2>2. CASE q # p
    <3>1. pc'[q] = pc[q] /\ got'[q] = got[q]
      BY <1>2, <2>2
    <3>2. ASSUME pc[q] = "wait"
          PROVE  NotOlder(got'[slot[q]], floor[q].newest)
      <4>1. slot[q] \in Poll /\ NotOlder(got[slot[q]], floor[q].newest)
        BY <3>2 DEF TypeOK, View, ReplyNewEnough
      <4>2. \A x \in Part : floor[q].newest[x] <= disk[x]
        BY <1>4
      <4> QED
        BY <1>1, <1>2, <1>7, <4>1, <4>2
    <3> QED
      BY <3>1, <3>2 DEF View, ReplyNewEnough
  <2> QED
    BY <2>1, <2>2
<1>10. ClosedDone'
  <2>1. closed' = closed /\ pc[p] # "done"
    BY <1>2 DEF Collect, CollectFails, polls, Part
  <2> QED
    BY <1>2, <2>1 DEF View, ClosedDone, TypeOK
<1> QED
  BY <1>5, <1>6, <1>8, <1>9, <1>10 DEF View

\* Every step keeps the view.
LEMMA ViewStep ==
  ASSUME TypeOK, TypeOK', SingleProbe, SingleProbe', View, [Next]_vars
  PROVE  View'
<1> USE CacheAssumption
<1>1. ASSUME NEW p \in Poll, PollStep(p)
      PROVE  View'
  <2>1. CASE Hit(p)
    <3>1. /\ Answer(p) /\ pc[p] = "new" /\ entry # None /\ Reply(p) = entry
          /\ UNCHANGED <<disk, entry, fresh, pending, closed>> /\ Usable
      BY <2>1 DEF Hit, Usable, Reply, cache
    <3>2. Reply(p) \in Payload /\ NotOlder(entry, entry)
      BY <3>1, LaterFacts DEF TypeOK
    <3>3. pending = None
      BY <3>1 DEF View, EntryNewest
    <3>4. \A x \in Part : Reply(p)[x] <= disk[x]
      BY <3>1 DEF View, WithinDisk
    <3> QED
      BY <3>1, <3>2, <3>3, <3>4, AnswerKeepsView DEF Refreshing
  <2>2. CASE Join(p) \/ Refresh(p)
    BY <2>2, MissKeepsView
  <2>3. CASE Collect(p) \/ CollectFails(p)
    BY <2>3, CollectKeepsView
  <2>4. CASE Publish(p)
    <3>1. /\ pc[p] = "publish" /\ pending = p /\ p # None
      BY <2>4 DEF Publish, SingleProbe, Refreshing
    <3>2. /\ entry' = got[p] /\ pending' = None /\ UNCHANGED <<disk, slot, got, newest, floor>>
          /\ pc' = [pc EXCEPT ![p] = "close"]
      BY <2>4 DEF Publish, Goto, polls
    <3>3. WithinDisk'
      BY <3>2 DEF View, WithinDisk
    <3>4. EntryNewest'
      <4>1. NotOlder(got[p], got[p])
        BY LaterFacts DEF TypeOK
      <4> QED
        BY <3>1, <3>2, <4>1 DEF View, RefreshNewest, EntryNewest
    <3>5. RefreshNewest'
      BY <3>2 DEF RefreshNewest
    <3>6. ReplyNewEnough'
      BY <3>1, <3>2 DEF View, ReplyNewEnough, Refreshing, TypeOK
    <3>7. ClosedDone'
      <4>1. closed' = closed
        BY <2>4 DEF Publish, polls
      <4> QED
        BY <3>1, <3>2, <4>1 DEF View, ClosedDone, TypeOK
    <3> QED
      BY <3>3, <3>4, <3>5, <3>6, <3>7 DEF View
  <2>5. CASE Close(p)
    <3>1. /\ Answer(p) /\ pc[p] = "close" /\ Reply(p) = got[p]
          /\ UNCHANGED <<disk, entry, fresh, pending>> /\ closed' = closed \cup {p}
      BY <2>5 DEF Close, Reply, cache
    <3>2. Reply(p) \in Payload /\ pending # p
      BY <3>1 DEF TypeOK, SingleProbe, Refreshing
    <3>3. /\ \A x \in Part : Reply(p)[x] <= disk[x]
          /\ entry # None => NotOlder(entry, Reply(p))
          /\ \A r \in Poll : pending = r => NotOlder(got[r], Reply(p))
      BY <3>1, <3>2 DEF View, WithinDisk, EntryNewest, RefreshNewest
    <3> QED
      BY <3>1, <3>2, <3>3, AnswerKeepsView DEF Refreshing
  <2>6. CASE Wake(p)
    <3>1. /\ Answer(p) /\ pc[p] = "wait" /\ Reply(p) = got[slot[p]] /\ slot[p] \in Poll
          /\ slot[p] \in closed /\ UNCHANGED <<disk, entry, fresh, pending, closed>>
      BY <2>6 DEF Wake, Reply, cache, TypeOK
    <3>2. pending # slot[p]
      BY <3>1 DEF View, ClosedDone, SingleProbe, Refreshing
    <3>3. Reply(p) \in Payload
      BY <3>1 DEF TypeOK
    <3>4. /\ \A x \in Part : Reply(p)[x] <= disk[x]
          /\ entry # None => NotOlder(entry, Reply(p))
          /\ \A r \in Poll : pending = r => NotOlder(got[r], Reply(p))
      BY <3>1, <3>2 DEF View, WithinDisk, EntryNewest, RefreshNewest
    <3> QED
      BY <3>1, <3>3, <3>4, AnswerKeepsView DEF Refreshing
  <2> QED
    BY <1>1, <2>1, <2>2, <2>3, <2>4, <2>5, <2>6 DEF PollStep
<1>2. ASSUME NEW w \in Write, WriteStep(w)
      PROVE  View'
  <2>1. /\ UNCHANGED <<pending, slot, got, newest, floor>>
        /\ \A p \in Poll : pc'[p] = pc[p]
        /\ UNCHANGED <<entry, fresh>> \/ entry' = None
    BY <1>2 DEF WriteStep, Arrive, WriteConfig, Restart, RestartFails, Invalidate,
                WriteStore, Undo, ServiceAction, Finish, Goto, TypeOK, cache, polls
  <2>2. \A x \in Part : disk[x] <= disk'[x]
    <3>1. \A x \in Part : disk[x] \in Nat
      BY DEF TypeOK, Payload
    <3>2. disk' = disk \/ \E x \in Part, n \in {0, 1} : disk' = [disk EXCEPT ![x] = @ + n]
      BY <1>2 DEF WriteStep, Arrive, WriteConfig, Restart, RestartFails, Invalidate,
                  WriteStore, Undo, ServiceAction, Change, Part
    <3>3. disk \in [Part -> Nat]
      BY DEF TypeOK, Payload
    <3>4. ASSUME NEW x \in Part, NEW n \in {0, 1}, disk' = [disk EXCEPT ![x] = @ + n],
                 NEW y \in Part
          PROVE  disk[y] <= disk'[y]
      BY <3>1, <3>3, <3>4
    <3>5. CASE disk' = disk
      BY <3>1, <3>5
    <3> QED
      BY <3>2, <3>4, <3>5
  <2>3. WithinDisk'
    <3> SUFFICES ASSUME NEW x \in Part
                 PROVE  /\ newest[x] <= disk'[x]
                        /\ entry' # None => entry'[x] <= disk'[x]
                        /\ \A p \in Poll : got[p][x] <= disk'[x] /\ floor[p].newest[x] <= newest[x]
      BY <2>1 DEF WithinDisk
    <3>1. /\ newest[x] \in Nat /\ disk[x] \in Nat /\ disk'[x] \in Nat
          /\ entry # None => entry[x] \in Nat
          /\ \A p \in Poll : got[p][x] \in Nat
      BY DEF TypeOK, Payload
    <3>2. disk[x] <= disk'[x]
      BY <2>2
    <3> QED
      BY <2>1, <3>1, <3>2 DEF View, WithinDisk
  <2>4. EntryNewest'
    BY <2>1 DEF View, EntryNewest, Usable
  <2>5. RefreshNewest'
    BY <2>1 DEF View, RefreshNewest
  <2>6. ReplyNewEnough'
    BY <2>1 DEF View, ReplyNewEnough
  <2>7. ClosedDone'
    <3>1. closed' = closed
      BY <1>2 DEF WriteStep, Arrive, WriteConfig, Restart, RestartFails, Invalidate,
                  WriteStore, Undo, ServiceAction, polls
    <3> QED
      BY <2>1, <3>1 DEF View, ClosedDone, TypeOK
  <2> QED
    BY <2>3, <2>4, <2>5, <2>6, <2>7 DEF View
<1>3. CASE Expire
  BY <1>3 DEF Expire, View, WithinDisk, EntryNewest, RefreshNewest, ReplyNewEnough, ClosedDone, Usable,
              polls
<1>4. CASE UNCHANGED vars
  BY <1>4 DEF View, WithinDisk, EntryNewest, RefreshNewest, ReplyNewEnough, ClosedDone, Usable,
              vars, cache, polls
<1> QED
  BY <1>1, <1>2, <1>3, <1>4 DEF Next, Terminated

\* The view holds at the start.
LEMMA ViewInit == Init => View
BY CacheAssumption DEF Init, View, WithinDisk, EntryNewest, RefreshNewest, ReplyNewEnough, ClosedDone,
   First, Missing, Nothing, Refreshing

\* The dashboard never goes back in time, for any number of polls and writes:
\* a poll that begins after another was answered shows nothing older.
THEOREM ViewIsMonotone == Spec => MonotoneView
<1> DEFINE Forward ==
      \A p \in Poll :
        Answers(p) => NotOlder(Reply(p), IF pc[p] = "new" THEN newest ELSE floor[p].newest)
<1>1. TypeOK /\ SingleProbe /\ View /\ [Next]_vars => [Forward]_vars
  <2> SUFFICES ASSUME TypeOK, SingleProbe, View, Next, NEW p \in Poll, Answers(p)
               PROVE  NotOlder(Reply(p), IF pc[p] = "new" THEN newest ELSE floor[p].newest)
    OBVIOUS
  <2>1. Hit(p) \/ Close(p) \/ Wake(p)
    <3>1. ASSUME NEW q \in Poll, PollStep(q)
          PROVE  Hit(p) \/ Close(p) \/ Wake(p)
      BY <3>1 DEF PollStep, Hit, Join, Refresh, Miss, Collect, CollectFails, Publish, Close,
                  Wake, Answer, Answers, Goto, TypeOK, NextPart, Part
    <3>2. ASSUME NEW w \in Write, WriteStep(w)
          PROVE  FALSE
      BY <3>2, CacheAssumption
         DEF WriteStep, Arrive, WriteConfig, Restart, RestartFails, Invalidate, WriteStore,
             Undo, ServiceAction, Finish, Goto, TypeOK, Answers
    <3> QED
      BY <3>1, <3>2 DEF Next, Expire, Terminated, vars, Answers
  <2>2. CASE Hit(p)
    BY <2>2 DEF Hit, Usable, Reply, View, EntryNewest
  <2>3. CASE Close(p)
    BY <2>3 DEF Close, Reply, View, ReplyNewEnough
  <2>4. CASE Wake(p)
    BY <2>4 DEF Wake, Reply, View, ReplyNewEnough
  <2> QED
    BY <2>1, <2>2, <2>3, <2>4
<1>2. TypeOK /\ SingleProbe /\ View /\ TypeOK' /\ SingleProbe' /\ [Next]_vars => View'
  BY ViewStep
<1>3. Spec => []View
  BY <1>2, ViewInit, CacheTypeCorrect, OneRefreshes, PTL DEF Spec
<1> QED
  BY <1>1, <1>3, CacheTypeCorrect, OneRefreshes, PTL DEF Spec, MonotoneView

=============================================================================
