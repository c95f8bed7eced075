--------------------------- MODULE WatchdogProofs ---------------------------
(***************************************************************************)
(* The cards of the watchdog alternate, for any number of runs and every   *)
(* threshold: as long as no two runs overlap and the router stays up, the  *)
(* counter and the flag under /tmp say what the probes and the cards were, *)
(* but for the steps between a probe and its echo, and between a card and  *)
(* its flag.                                                               *)
(***************************************************************************)
EXTENDS Watchdog, TLAPS

\* The flag says which card went out last.
Flagged == alerted = "DOWN" <=> last = "DOWN"

\* What a run that is alone knows at each of its steps.
Knows(r) ==
  /\ pc[r] \in {"probe", "wasDown", "wasUp", "sendDown", "recovered", "up", "down"} => fails = row
  /\ pc[r] \notin {"up", "down"} => Flagged
  /\ pc[r] \in {"zero", "wasDown", "recovered", "up"} => row = 0
  /\ pc[r] = "read" => row = Up(fails)
  /\ pc[r] = "write" => row = new[r]
  /\ pc[r] \in {"wasUp", "sendDown"} => row = Threshold
  /\ pc[r] = "recovered" => alerted = "DOWN"
  /\ pc[r] = "sendDown" => alerted # "DOWN"
  /\ pc[r] = "up" => last = "RECOVERED"
  /\ pc[r] = "down" => last = "DOWN"

Apart == \A q, r \in Run : pc[q] # "idle" /\ pc[r] # "idle" => q = r

AtRest == (\A r \in Run : pc[r] = "idle") => fails = row /\ Flagged

\* The inductive invariant.
DogInv ==
  /\ TypeOK
  /\ tame => Apart /\ AtRest /\ \A r \in Run : pc[r] # "idle" => Knows(r)

-----------------------------------------------------------------------------
\* Every step keeps the types.
LEMMA TypeStep ==
  ASSUME WatchdogAssumption, TypeOK, [Next]_vars
  PROVE  TypeOK'
<1> DEFINE Counts == 0..Threshold
<1>0. Threshold \in Nat /\ 0 \in Counts /\ \A n \in Counts : Up(n) \in Counts
  BY DEF WatchdogAssumption, Up
<1> USE <1>0 DEF TypeOK, Goto, files, history
<1>1. ASSUME NEW r \in Run, Start(r) PROVE TypeOK'
  BY <1>1 DEF Start
<1>2. ASSUME NEW r \in Run, Probe(r) PROVE TypeOK'
  BY <1>2 DEF Probe
<1>3. ASSUME NEW r \in Run, Zero(r) PROVE TypeOK'
  BY <1>3 DEF Zero
<1>4. ASSUME NEW r \in Run, WasDown(r) PROVE TypeOK'
  BY <1>4 DEF WasDown
<1>5. ASSUME NEW r \in Run, ReadFails(r) PROVE TypeOK'
  <2>1. PICK prev \in 0..Threshold : new' = [new EXCEPT ![r] = Up(prev)]
    BY <1>5 DEF ReadFails
  <2> QED
    BY <1>5, <2>1 DEF ReadFails
<1>6. ASSUME NEW r \in Run, WriteFails(r) PROVE TypeOK'
  BY <1>6 DEF WriteFails
<1>7. ASSUME NEW r \in Run, WasUp(r) PROVE TypeOK'
  BY <1>7 DEF WasUp
<1>8. ASSUME NEW r \in Run, Send(r) PROVE TypeOK'
  BY <1>8 DEF Send
<1>9. ASSUME NEW r \in Run, Flag(r) PROVE TypeOK'
  BY <1>9 DEF Flag
<1>10. CASE Change
  BY <1>10 DEF Change
<1>11. CASE Reboot
  BY <1>11 DEF Reboot
<1>12. CASE UNCHANGED vars
  BY <1>12 DEF vars
<1> QED
  BY <1>1, <1>2, <1>3, <1>4, <1>5, <1>6, <1>7, <1>8, <1>9, <1>10, <1>11, <1>12
  DEF Next, RunStep

\* When runs do not overlap, a step of one finds the others idle.
LEMMA Alone ==
  ASSUME DogInv, tame, NEW r \in Run, pc[r] # "idle"
  PROVE  /\ \A q \in Run \ {r} : pc[q] = "idle"
         /\ Knows(r)
BY DEF DogInv, Apart

\* A step of a run that is alone keeps the invariant, if it leaves behind what
\* is known at its next step, or at rest when the run ends.
LEMMA AloneStep ==
  ASSUME NEW r \in Run, \A q \in Run \ {r} : pc'[q] = "idle", TypeOK',
         pc'[r] # "idle" => Knows(r)',
         pc'[r] = "idle" => (fails = row /\ Flagged)'
  PROVE  DogInv'
<1>1. Apart'
  BY DEF Apart
<1>2. AtRest'
  BY DEF AtRest
<1>3. \A q \in Run : pc'[q] # "idle" => Knows(q)'
  OBVIOUS
<1> QED
  BY <1>1, <1>2, <1>3 DEF DogInv

\* The invariant is inductive.
LEMMA DogStep ==
  ASSUME WatchdogAssumption, DogInv, [Next]_vars
  PROVE  DogInv'
<1>t. TypeOK /\ TypeOK'
  BY TypeStep DEF DogInv
<1>0. CASE ~tame'
  BY <1>0, <1>t DEF DogInv
<1>a. ASSUME NEW r \in Run, tame', RunStep(r)
      PROVE  DogInv'
  <2>1. tame /\ pc[r] # "idle"
    BY <1>a DEF RunStep, Probe, Zero, WasDown, ReadFails, WriteFails, WasUp, Send, Flag, history
  <2>2. (\A q \in Run \ {r} : pc[q] = "idle") /\ Knows(r)
    BY <2>1, Alone
  <2>3. \A q \in Run \ {r} : pc'[q] = "idle"
    BY <1>a, <1>t, <2>2
    DEF RunStep, Probe, Zero, WasDown, ReadFails, WriteFails, WasUp, Send, Flag, Goto, TypeOK
  <2> USE DEF Knows, Flagged, Goto, TypeOK, WatchdogAssumption, files, history
  <2>4. CASE Probe(r)
    <3>1. \/ healthy' /\ pc'[r] = "zero" /\ row' = 0
          \/ ~healthy' /\ pc'[r] = "read" /\ row' = Up(row)
      BY <1>t, <2>4 DEF Probe
    <3>2. /\ fails = row /\ Flagged
          /\ UNCHANGED <<fails, alerted, last>>
      BY <2>2, <2>4 DEF Probe
    <3>3. pc'[r] # "idle" /\ Knows(r)'
      BY <3>1, <3>2 DEF Up
    <3> QED
      BY <1>t, <2>3, <3>3, AloneStep
  <2>5. CASE Zero(r)
    <3>1. pc'[r] # "idle" /\ Knows(r)'
      BY <1>t, <2>2, <2>5 DEF Zero
    <3> QED
      BY <1>t, <2>3, <3>1, AloneStep
  <2>6. CASE WasDown(r)
    <3>0. SaysDown = {alerted = "DOWN"}
      BY <2>2, <2>6 DEF WasDown, SaysDown
    <3>1. pc'[r] = IF alerted = "DOWN" THEN "recovered" ELSE "idle"
      BY <3>0, <1>t, <2>6 DEF WasDown
    <3>2. pc'[r] # "idle" => Knows(r)'
      BY <3>1, <2>2, <2>6 DEF WasDown
    <3>3. pc'[r] = "idle" => (fails = row /\ Flagged)'
      BY <2>2, <2>6 DEF WasDown
    <3> QED
      BY <1>t, <2>3, <3>2, <3>3, AloneStep
  <2>7. CASE ReadFails(r)
    <3>1. ~ \E q \in Run : pc[q] = "write"
      BY <2>2, <2>7 DEF ReadFails
    <3>2. new'[r] = Up(fails)
      BY <3>1, <1>t, <2>7 DEF ReadFails
    <3>3. pc'[r] # "idle" /\ Knows(r)'
      BY <1>t, <2>2, <2>7, <3>2 DEF ReadFails
    <3> QED
      BY <1>t, <2>3, <3>3, AloneStep
  <2>8. CASE WriteFails(r)
    <3>1. /\ pc'[r] = IF new[r] >= Threshold THEN "wasUp" ELSE "idle"
          /\ fails' = row' /\ row' = row /\ row = new[r]
          /\ Flagged'
      BY <1>t, <2>2, <2>8 DEF WriteFails
    <3>2. new[r] >= Threshold => new[r] = Threshold
      <4>1. new[r] \in 0..Threshold /\ Threshold \in Nat
        BY <1>t
      <4> HIDE DEF TypeOK
      <4> QED
        BY <4>1
    <3>3. pc'[r] # "idle" => Knows(r)'
      BY <3>1, <3>2
    <3> QED
      BY <1>t, <2>3, <3>1, <3>3, AloneStep
  <2>9. CASE WasUp(r)
    <3>0. SaysDown = {alerted = "DOWN"}
      BY <2>2, <2>9 DEF WasUp, SaysDown
    <3>1. pc'[r] = IF alerted # "DOWN" THEN "sendDown" ELSE "idle"
      BY <3>0, <1>t, <2>9 DEF WasUp
    <3>2. pc'[r] # "idle" => Knows(r)'
      BY <3>1, <2>2, <2>9 DEF WasUp
    <3>3. pc'[r] = "idle" => (fails = row /\ Flagged)'
      BY <2>2, <2>9 DEF WasUp
    <3> QED
      BY <1>t, <2>3, <3>2, <3>3, AloneStep
  <2>10. CASE Send(r)
    <3>1. pc'[r] # "idle" /\ Knows(r)'
      BY <1>t, <2>2, <2>10 DEF Send
    <3> QED
      BY <1>t, <2>3, <3>1, AloneStep
  <2>11. CASE Flag(r)
    <3>1. pc'[r] = "idle" /\ (fails = row /\ Flagged)'
      BY <1>t, <2>2, <2>11 DEF Flag
    <3> QED
      BY <1>t, <2>3, <3>1, AloneStep
  <2> QED
    BY <1>a, <2>4, <2>5, <2>6, <2>7, <2>8, <2>9, <2>10, <2>11 DEF RunStep
<1>b. ASSUME NEW r \in Run, tame', Start(r)
      PROVE  DogInv'
  <2>1. tame /\ \A q \in Run : pc[q] = "idle"
    BY <1>b DEF Start
  <2>2. fails = row /\ Flagged
    BY <2>1 DEF DogInv, AtRest
  <2>3. /\ pc'[r] = "probe"
        /\ \A q \in Run \ {r} : pc'[q] = "idle"
    BY <1>b, <1>t, <2>1 DEF Start, Goto, TypeOK
  <2>4. Knows(r)'
    BY <1>b, <2>2, <2>3 DEF Start, Knows, Flagged, files
  <2> QED
    BY <1>t, <2>3, <2>4, AloneStep
<1>c. CASE Change
  BY <1>c, <1>t DEF Change, history, DogInv, Apart, AtRest, Knows, Flagged
<1>d. CASE Reboot
  BY <1>0, <1>d DEF Reboot
<1>e. CASE UNCHANGED vars
  BY <1>e, <1>t DEF vars, files, history, DogInv, Apart, AtRest, Knows, Flagged
<1> QED
  BY <1>0, <1>a, <1>b, <1>c, <1>d, <1>e DEF Next

\* The invariant holds at the start.
LEMMA DogStart ==
  ASSUME WatchdogAssumption, Init
  PROVE  DogInv
<1>1. 0 \in 0..Threshold
  BY DEF WatchdogAssumption
<1>2. TypeOK
  BY <1>1 DEF Init, TypeOK
<1> QED
  BY <1>2 DEF Init, DogInv, Apart, AtRest, Flagged

\* In every state of disk-watchdog's files and runs: unless two runs overlapped
\* or the router rebooted, the counter is the number of failed probes in a row
\* and the flag is the last card, but for what the run under way is about to
\* write.
THEOREM DogInvariant == WatchdogAssumption => (Spec => []DogInv)
<1> SUFFICES ASSUME WatchdogAssumption PROVE Spec => []DogInv
  OBVIOUS
<1>1. Init => DogInv
  BY DogStart
<1>2. DogInv /\ [Next]_vars => DogInv'
  BY DogStep
<1> QED
  BY <1>1, <1>2, PTL DEF Spec

\* "Telegram alerts fire on DOWN (after N consecutive fails) and on RECOVERED":
\* runs that do not overlap, on a router that stays up, send DOWN and RECOVERED
\* in turn, DOWN only while the last Threshold probes failed and RECOVERED only
\* after a probe that did not.
THEOREM CardsAreInTurn == WatchdogAssumption => (Spec => CardsAlternate)
<1> SUFFICES ASSUME WatchdogAssumption PROVE Spec => CardsAlternate
  OBVIOUS
<1> DEFINE InTurn == \A r \in Run : tame =>
       /\ pc[r] = "sendDown"  /\ pc'[r] = "down" => last # "DOWN" /\ row = Threshold
       /\ pc[r] = "recovered" /\ pc'[r] = "up"   => last = "DOWN" /\ row = 0
<1>1. DogInv => InTurn
  BY DEF DogInv, Knows, Flagged
<1>2. DogInv /\ [Next]_vars => [InTurn]_vars
  BY <1>1
<1> HIDE DEF InTurn
<1>3. Spec => [][InTurn]_vars
  BY <1>2, DogInvariant, PTL DEF Spec
<1> QED
  BY <1>3 DEF CardsAlternate, InTurn

=============================================================================
