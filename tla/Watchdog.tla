------------------------------ MODULE Watchdog ------------------------------
(***************************************************************************)
(* disk-watchdog (deploy/disk-watchdog): cron starts it every minute; it   *)
(* probes the backup disk, tries to heal it, counts failures in a row and  *)
(* sends a card when the disk goes down and when it is back.               *)
(*                                                                         *)
(* What it knows from minute to minute is two files under /tmp, which a    *)
(* reboot of the router wipes.  Nothing keeps a slow run (a card may take  *)
(* ten seconds, a probe of a dying disk any time) from overlapping the     *)
(* next one.  The two checks, disk and Samba, have files of their own and  *)
(* the same code; here there is one.                                       *)
(***************************************************************************)
EXTENDS Naturals, FiniteSets

CONSTANTS
  Run,       \* the processes cron may have running at a time
  Threshold  \* FAIL_THRESHOLD

\* Assumed where it gets its value.
WatchdogAssumption == Threshold \in Nat \ {0}

VARIABLES
  healthy,  \* the service works
  fails,    \* $STATE_DIR/$name, a missing file counting 0
  alerted,  \* $STATE_DIR/$name.alerted; "" when missing
  pc,       \* where each run is
  new,      \* the count a run is about to write
  last,     \* history: the last card sent, "" for none
  row,      \* history: failed probes in a row
  tame      \* history: no two runs overlapped and no reboot came

files   == <<healthy, fails, alerted>>
history == <<last, row, tame>>
vars    == <<files, pc, new, history>>

\* Beyond the threshold numbers make no difference.
Up(n) == IF n < Threshold THEN n + 1 ELSE n

TypeOK ==
  /\ healthy \in BOOLEAN /\ tame \in BOOLEAN
  /\ fails \in 0..Threshold /\ new \in [Run -> 0..Threshold] /\ row \in 0..Threshold
  /\ alerted \in {"", "UP", "DOWN"} /\ last \in {"", "RECOVERED", "DOWN"}
  /\ pc \in [Run -> {"idle", "probe", "zero", "wasDown", "recovered", "up",
                     "read", "write", "wasUp", "sendDown", "down"}]

Init ==
  /\ healthy \in BOOLEAN
  /\ fails = 0 /\ alerted = ""
  /\ pc = [r \in Run |-> "idle"]
  /\ new = [r \in Run |-> 0]
  /\ last = "" /\ row = 0 /\ tame = TRUE

Goto(r, s) == pc' = [pc EXCEPT ![r] = s]

-----------------------------------------------------------------------------
\* cron.
Start(r) ==
  /\ pc[r] = "idle"
  /\ Goto(r, "probe")
  /\ tame' = (tame /\ \A q \in Run : pc[q] = "idle")
  /\ UNCHANGED <<files, new, last, row>>

\* eval "$cmd"; a service that does not work may be healed on the spot.
Probe(r) ==
  /\ pc[r] = "probe"
  /\ healthy' \in {healthy, TRUE}
  /\ Goto(r, IF healthy' THEN "zero" ELSE "read")
  /\ row' = IF healthy' THEN 0 ELSE Up(row)
  /\ UNCHANGED <<fails, alerted, new, last, tame>>

\* echo 0 > "$state_file"
Zero(r) ==
  /\ pc[r] = "zero"
  /\ fails' = 0
  /\ Goto(r, "wasDown")
  /\ UNCHANGED <<healthy, alerted, new, history>>

\* [ "$(cat "$alerted_file")" = "DOWN" ]: a file another run has just truncated
\* to write it does not say so.
SaysDown ==
  {alerted = "DOWN"} \cup (IF \E q \in Run : pc[q] \in {"up", "down"} THEN {FALSE} ELSE {})

WasDown(r) ==
  /\ pc[r] = "wasDown"
  /\ \E down \in SaysDown : Goto(r, IF down THEN "recovered" ELSE "idle")
  /\ UNCHANGED <<files, new, history>>

\* prev=$(cat "$state_file"): a file another run has just truncated to write
\* it counts 0.
ReadFails(r) ==
  /\ pc[r] = "read"
  /\ \E prev \in {fails} \cup (IF \E q \in Run : pc[q] = "write" THEN {0} ELSE {}) :
       new' = [new EXCEPT ![r] = Up(prev)]
  /\ Goto(r, "write")
  /\ UNCHANGED <<files, history>>

\* Mutant: the card goes out one failure early.
WriteFailsEarly(r) ==
  /\ pc[r] = "write"
  /\ fails' = new[r]
  /\ Goto(r, IF new[r] + 1 >= Threshold THEN "wasUp" ELSE "idle")
  /\ new' = [new EXCEPT ![r] = 0]
  /\ UNCHANGED <<healthy, alerted, history>>

WriteFails(r) ==
  /\ pc[r] = "write"
  /\ fails' = new[r]
  /\ Goto(r, IF new[r] >= Threshold THEN "wasUp" ELSE "idle")
  /\ new' = [new EXCEPT ![r] = 0]
  /\ UNCHANGED <<healthy, alerted, history>>

WasUp(r) ==
  /\ pc[r] = "wasUp"
  /\ \E down \in SaysDown : Goto(r, IF down THEN "idle" ELSE "sendDown")
  /\ UNCHANGED <<files, new, history>>

\* send_card; whether it arrives makes no difference to the script.
Send(r) ==
  /\ \/ pc[r] = "recovered" /\ last' = "RECOVERED" /\ Goto(r, "up")
     \/ pc[r] = "sendDown"  /\ last' = "DOWN"      /\ Goto(r, "down")
  /\ UNCHANGED <<files, new, row, tame>>

\* Mutant: the flag is written for DOWN only.
FlagDownOnly(r) ==
  /\ pc[r] \in {"up", "down"}
  /\ alerted' = IF pc[r] = "up" THEN alerted ELSE "DOWN"
  /\ Goto(r, "idle")
  /\ UNCHANGED <<healthy, fails, new, history>>

\* echo "UP", or "DOWN", > "$alerted_file"
Flag(r) ==
  /\ pc[r] \in {"up", "down"}
  /\ alerted' = IF pc[r] = "up" THEN "UP" ELSE "DOWN"
  /\ Goto(r, "idle")
  /\ UNCHANGED <<healthy, fails, new, history>>

-----------------------------------------------------------------------------
\* The disk drops off the bus or is plugged in again; smbd dies (external).
Change ==
  /\ healthy' = ~healthy
  /\ UNCHANGED <<fails, alerted, pc, new, history>>

\* /tmp is a tmpfs.
Reboot ==
  /\ fails' = 0 /\ alerted' = ""
  /\ pc' = [r \in Run |-> "idle"]
  /\ new' = [r \in Run |-> 0]
  /\ tame' = FALSE
  /\ UNCHANGED <<healthy, last, row>>

RunStep(r) ==
  \/ Probe(r) \/ Zero(r) \/ WasDown(r)
  \/ ReadFails(r) \/ WriteFails(r) \/ WasUp(r)
  \/ Send(r) \/ Flag(r)

Next == (\E r \in Run : Start(r) \/ RunStep(r)) \/ Change \/ Reboot

Spec == Init /\ [][Next]_vars

\* cron goes on starting it, and a run ends (a probe that hangs for ever in
\* the kernel is not considered).
FairSpec ==
  /\ Spec
  /\ \A r \in Run : WF_vars(RunStep(r))
  /\ WF_vars(\E r \in Run : Start(r))

-----------------------------------------------------------------------------
(* Properties.                                                             *)

\* "Telegram alerts fire on DOWN (after N consecutive fails) and on RECOVERED"
\* (disk-watchdog:14-15): runs that do not overlap, on a router that stays up,
\* send DOWN and RECOVERED in turn, DOWN only while the last N probes failed
\* and RECOVERED only after a probe that did not.
CardsAlternate ==
  [][\A r \in Run : tame =>
       /\ pc[r] = "sendDown"  /\ pc'[r] = "down" => last # "DOWN" /\ row = Threshold
       /\ pc[r] = "recovered" /\ pc'[r] = "up"   => last = "DOWN" /\ row = 0]_vars

\* "it keeps watching - and can alert" (disk-watchdog:5-6): whatever runs
\* overlapped and whenever the router rebooted before, an outage that lasts
\* ends up flagged as one that was alerted, and a service that works for good
\* as one that was not.  Without overlap and reboot a DOWN card says so.
LastingStateIsFlagged ==
  LET Alone == Cardinality({r \in Run : pc[r] # "idle"}) <= 1
  IN  <>[]Alone /\ ~[]<><<Reboot>>_vars =>
        /\ <>[]~healthy => <>[](alerted = "DOWN" /\ (tame => last = "DOWN"))
        /\ <>[]healthy  => <>[](alerted # "DOWN" /\ (tame => last # "DOWN"))

=============================================================================
