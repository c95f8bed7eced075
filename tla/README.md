# TLA+ models of the xray panel

`xray-panel` is a small Go server on an OpenWrt router. It edits the config of
an xray + Reality VPN server, restarts xray, shows its state, its log and its
traffic. This directory holds TLA+ models of the parts whose correctness
depends on the order of events, the TLC configurations that check them, and
theorems with proofs for TLAPS.

## 1. The system

### Components

| part (source) | state | operations | hard behaviour | models |
|---|---|---|---|---|
| `mutateConfig`, edits (`internal/http/mutate.go`, `internal/xray/clients.go`, `config.go`) | `/etc/xray/config.json`, `config.json.bak`, `writeMu` | read, edit, back up, rename, test, restart | concurrent requests, failures between steps, a config that is rejected stays on disk | `XrayConfig`, `ConfigRegistry`, `Panel` |
| client handlers (`internal/http/clients.go`) | the client a disable or enable carries between two files | create, patch, delete, disable, enable; link and QR only read | two files that change one after the other, roll-back | `Panel` |
| disabled store (`internal/store/disabled.go`) | `disabled.json` | List, Add, Remove: read, then write, no lock | overlapping read-modify-writes | `Panel` |
| service manager and handlers (`internal/service/service.go`, `internal/http/service.go`) | what xray runs | start, stop, restart, `xray -test` | not under `writeMu`; two shell-outs per restart | `Panel` |
| server admin (`internal/http/server_admin.go`) | realitySettings, api, stats, policy, routing, inbounds, `Cfg.StatsAPI` | PATCH reality, regenerate-keys, enable-stats, enable-online-tracking | three places to keep in step (config, `panel.yaml`, memory), hand-written blocks, partial failure | `AdminBlocks`, `ServerAdmin`; PATCH reality in `Panel` |
| `/api/state` cache (`internal/http/state.go`) | entry, pending slot | hit, wait, refresh, invalidate | single flight against mutations, failures, the TTL | `StateCache` |
| public-key cache (`internal/http/server.go`) | `pubKey` | derive, invalidate | derive racing invalidate | `ServerAdmin` |
| log hub, SSE sessions (`internal/logs/hub.go`, `internal/http/logs.go`) | subscribers, two channels, streamer goroutines | backfill, subscribe, unsubscribe, follow, fan out | goroutines that outlive their cancellation, slow browsers | `LogHub`; `tailFile` in `LogTail` |
| tailer (`internal/logs/stream.go`) | cursor, inode, partial line | tick: stat, read, split | truncation and rotation between two steps | `LogTail` |
| activity (`internal/http/activity.go`, `internal/xray/stats.go`) | last bytes and last activity per user | poll, reset | polls that overlap, reset racing a poll, idle window, shapes of the CLI's output | `ActivityTracker`, `StatsOutput` |
| panel config (`internal/config/config.go`) | `panel.yaml`, its `.bak` and `.tmp` | load, `WriteStatsAPI` | rewrite of the file the panel starts from | `ServerAdmin` |
| disk watchdog (`deploy/disk-watchdog`) | failure counter, alerted flag in `/tmp` | probe, heal, count, send a card | overlapping runs, reboots | `Watchdog` |
| auth (`internal/http/auth.go`, `languard.go`) | memo of bcrypt results | hit, admit | none left (see Not modelled) | no |
| backup script (`deploy/xray-panel-backup`) | hash of the last snapshot | snapshot, upload, prune | partial failure | no |
| links, QR, UI, runner, browser code | none | formatting, exec | none | no |

### Interaction

`net/http` serves each request on a goroutine. Edits of the config go through
`mutateConfig`, one at a time; the disabled store and the service actions do
not. `mutateConfig` ends with a restart of xray and, when that succeeds, with
dropping the `/api/state` entry. A poll of `/api/state` reads the config, the
store and the service without any lock they are written under. The hub shares
one tailer among the browser tabs; tailer, fan-out and sessions meet at two
bounded channels. A tab of the Activity view polls xray's counters and feeds
one tracker, user by user, without a lock around the poll. enable-stats writes
the config, then memory, then `panel.yaml`, and only the first under `writeMu`.
The process keeps its files over a crash and nothing else.

### What makes the parts correct

- *Config and store*: no UUID twice in a file, no key lost, no key in both
  files, a delete is final, edits of the config are atomic, a bad edit can be
  undone from `.bak`, xray is never restarted with an untested config, and what
  xray runs differs from the file only when somebody was told.
- *State cache*: one probe at a time, nobody waits for ever, the dashboard
  never goes back in time, and it shows what has been answered.
- *Logs*: one live streamer exactly while somebody listens, line after line,
  streamers that were cancelled end, a browser that does not read harms nobody
  else, and reading in pieces, truncation and rotation do not garble or hide
  lines; a snapshot is the last lines, whole.
- *Admin*: the public key that is handed out belongs to the private key on disk,
  the stats API is wired once and known to the panel when it said so, what the
  operator wrote by hand is kept, and `panel.yaml` always loads.
- *Activity*: a user with recent traffic is shown, one that does nothing any
  more disappears, a reset starts from nothing.
- *Watchdog*: DOWN and RECOVERED in turn, and an outage that lasts is alerted.

## 2. Modules

`Spec` is the safety part of each specification, `FairSpec` adds the fairness.
Definitions a comment calls *Mutant* are not part of the model: each is a
plausible bug in one definition, and the property paired with it in
`PROJECT.json` must fail when it takes that definition's place.

### XrayConfig: the edits
Pure operators. An edit maps a config to the *set* of configs it may become:
empty when the closure handed to `mutateConfig` returns an error. A client is
its UUID and its name; flow is carried verbatim by every operation and is left
out. The block `realitySettings` is `"good"` or `"bad"`, according to what
`xray -test` says of it: the handlers validate its shape only, so both occur.
There is a VLESS inbound with realitySettings.

### ConfigRegistry: the abstract specification
One variable, the file. A step applies one whole edit to the present contents.
This is what the comment on `mutateConfig` promises.

### Panel: requests, files, xray
`file`, `bak`, `store`, `xray` are what survives a crash; `writeMu` is the
mutex; for each request, `pc` is its next step and `arg`, `snap`, `held`,
`seen`, `answer` what its goroutine has in hand. `born` is a history variable:
every UUID that was ever in one of the files. `raced` is another: two requests
that use the disabled store (`StoreOps`) were in flight at once.

A step is one access to something shared. Of `mutateConfig`: `Lock`, `ReadEdit`
or `EditRefused`, `Backup`, `Commit` (the rename), `TestPasses`/`TestFails`,
`InitRestart`/`InitRestartFails`. Of the store: `RemoveRead`, `RemoveWrite`,
`AddRead`, `AddWrite`. Of service control: `ServiceTest`, `ServiceAction`.
`AfterMutate` is what each handler does when `mutateConfig` returns. Faults are
a CONSTANT: `"io"` (a file operation fails; `os.WriteFile` may leave `.bak`
cut short), `"cancel"` (the request's context ends, so a shell-out fails or is
killed), `"init"` (the init script fails, having done something or nothing) and
`"crash"` (the panel dies and procd starts it again).

Left out: the `.bak` of the disabled store, which no code reads; malformed
requests, which are answered before anything is touched; link, QR and status,
which change nothing.

### StateCache: `/api/state`
Polls against writes. A payload holds the *version* of each of its three parts
(config, store, status), 0 for a part that could not be read. Time is one
event, `Expire`. `Hit`, `Join`, `Refresh`, `Collect`, `CollectFails`,
`Publish`, `Close`, `Wake` are the sections of `handleState` between its locks,
channel operations and reads; `WriteConfig`, `Restart`, `Invalidate`,
`WriteStore`, `Undo`, `ServiceAction` are the effects of the other requests in
the order the handlers have them. `made`, `acked`, `newest`, `floor` are
history.

### LogHub: sessions, streamers, channels
A streamer is two goroutines (`follow`, `fan`) that share a context and a
channel, named after the session whose `Subscribe` started it. Lines are
numbers; the file grows by whole lines. Unsubscribing cancels a streamer but
does not wait for it, so streamers overlap in the model as they do in the code.
`Backfill` shows the end of the file before `Subscribe`; `shown` and `from` are
history: the last line a session got and the streamers it got lines from. The
heartbeats touch nothing shared.

### LogTail: one `Follow` against its file
Characters, lines of `Width` characters, a file that is written in pieces,
removed, created and truncated. `Stat` and `ReadNew` are two steps, and
anything may happen in between. Bounds: the file is disturbed between two
lines, and a new file has an inode number that is not in use.

`Snapshot` is `tailFile`: the same file read from `Budget` characters before
the end that an earlier stat returned.

### AdminBlocks: the blocks the admin handlers edit
Pure operators over the key pair, api, stats, policy, routing and the inbounds.
A block is absent, the JSON null, malformed or an object of which the entries
the code looks at are kept, and a flag for whatever the operator wrote beside
them: `mergeOnlineFlag`, `policyHasOnlineFlag` and `mergeRoutingRule` treat
these cases differently (a null on the way to the flag makes `mergeOnlineFlag`
assign into a nil map: the request is cut off and the deferred unlock runs).

### ServerAdmin: config, panel.yaml and memory
`conf`, `yaml`, `yamlBak`, `yamlTmp` survive a crash; `statsAPI` and `pubKey`
are the panel's memory. `mutateConfig`, which `Panel` has in full, is taken
together to `Lock`, `Edit`, `Write`, `Restart`/`RestartFails`; around it are the
steps the handlers take without a lock: `Generate`, `Preread`, `Target` before,
`Invalidate`, `AssignHalf`/`Assign`, `WriteYamlBak`, `WriteYamlTmp`,
`RenameYaml` after. `Lookup` and `StoreKey` are the two critical sections of
`publicKey`. A Go string is two words, so an assignment to `Cfg.StatsAPI` that
races a read is two steps and the read in between may see either value or cut
the request off. `crossed` is history: the links that had read the config when
a regenerate replaced its key.

### StatsOutput, ActivityTracker: the Activity view
`StatsOutput` prints what xray prints and parses it as `stats.go` does. A string
is a sequence of tokens, `>` is one of them, and every other token stands for
other characters, so an email can have `>` and `>>>` anywhere. `Split` is
`strings.Split`: it cuts at the leftmost separator, then at the leftmost of what
is left, so in a row of `>` every third one ends a separator (`Cuts`). Of
`user>>>alice>>>>online`, the name of the client `alice>`, the second part is
`alice`. The output of the sessions is a JSON value without a tag that says
which shape it is, and `ParseOnline` tries the readings in the order of the code:
a wrapper or not, a map, strings, rows. `Plain` emails are those that come back:
no separator in them and no `>` at the end. `ActivityTracker` reads both outputs
with these parsers. It has
xray's counters and sessions, polls (`QueryUsers`, `QueryOnline`, one `Observe`
per user under the tracker's lock, `Respond`), resets (`Zero`, `Clear`), and the
restarts of xray and of the panel. Time is kept as ages in ticks up to
`Idle + 1`. `quiet`, `recent`, `era`, `asof`, `moved`, `clean` are history.

### Watchdog: the cron job
One check of `disk-watchdog`: two files, each access a step, runs that may
overlap, and a reboot that wipes both. A file that another run is about to write
may be read empty: the counter as 0, the flag as not DOWN (`SaysDown`). `last`,
`row`, `tame` are history.

### MCPanel, MCStateCache, MCServerAdmin, MCActivityTracker, MCProgress
Instances: initial files as definitions, symmetry of interchangeable requests.
`MCProgress` extends `LogTail` and puts instances of `Panel`, `StateCache` and
`Watchdog` beside it for what must eventually happen; a behaviour is one of the
four, chosen at the start, each with its own fairness. What it checks of an
instance it defines under the same name; `LinesAreShown` is `EveryLineIsShown`.

### PanelProofs, PanelKeyProofs, StateCacheProofs, LogHubProofs, LogTailProofs, ServerAdminProofs, ActivityTrackerProofs, WatchdogProofs
Lemmas and theorems (section 4). Each extends the module it is about;
`PanelKeyProofs` extends `PanelProofs`, and `ActivityTrackerProofs` extends
`MCActivityTracker`, whose `OutputParses` it proves.

## 3. Runs

| run | question | instance |
|---|---|---|
| `PanelConcurrent` | what holds however requests interleave and whatever fails | 3 requests at once, all 9 operations, all 4 faults, 3 UUIDs, 2 names |
| `Progress` | does everything that was begun end | 2 requests with all operations and faults; 2 polls and 1 write; a log of 3 lines of 3 characters with 2 disturbances; a watchdog with 2 runs and a threshold of 3 |
| `StateCacheSafety` | single flight, no stranded poll, no step back in time | 3 polls, 1 write of any kind, probes and restarts fail |
| `LogHub` | streamers, order and delivery of lines | 2 sessions, 3 lines, channels of 1 line |
| `ServerAdmin` | do config, `panel.yaml` and memory agree | 3 requests of 4 kinds, 4 faults, 4 keys, 8 installed configs |
| `ActivityTracker` | who is shown | 1 user, 2 tabs that poll for ever, 1 reset, restarts; 3 emails for the parsers |
| `DisableLosesKey` (violation) | is a key ever lost | reality, disable, one at a time |
| `StoreRaceLosesKey` (violation) | is a key ever lost when nothing fails | disable and enable at once |
| `EnableRollbackDuplicates` (violation) | is a client ever in both files | one enable, its restart fails |
| `RestartRace` (violation) | does a restart load what was tested | restart and PATCH reality at once |
| `StaleAfterEdit` (violation) | does a poll see what was answered before it | 2 polls, 1 edit |
| `StaleKey` (violation) | does the cached public key belong to the key on disk | 2 of link and regenerate, restarts fail |

**Why the bounds are enough.** Three UUIDs are one live client, one disabled
and one new; two names make a clash and its absence possible. Every hazard of
`Panel` is between two requests, and the third lets one happen on what two
others left behind; the store race takes two, the loss after a rejected edit
takes two. Three polls are the refresher, one that waits for it and one that
comes later.
Channels of one line are full after one line, which is when drops and blocked
pushes happen; with two sessions a streamer can be replaced while it dies, and
one of two subscribers can leave. Two disturbances let the file be
replaced, or truncated, once more after the tailer recovered. A window of 4 of 9
characters begins inside, before and behind a line. Three admin requests are a
link, a regenerate and one that comes after; the eight configs have every shape
of policy and routing the code distinguishes, an inbound that is not VLESS in
front, and none. The tracker has an entry per user and polls hand users over one
by one, so one user meets every race; two polls overlap, and a tick more than
the window is every longer time. One byte and one zeroing are enough for a
counter that moves, stands and goes back; the parsers get every pair of twelve
emails: all of one or two tokens `alice` and `>`, the separator, rows of `>`
after a name, a name with a separator at its end, before another name and before
`traffic`, and the word `users`. Two runs of the watchdog
overlap in every way two runs can.

Every invariant, every action property and the refinement that a passing run
checks is also proved without these bounds (section 4), so for them the
instances only have to be large enough to show that the mutants fail. The
bounds matter for what is left to TLC: the liveness properties. Counters bounded
in guards: `MaxInFlight` (requests served at once), `MaxLines`, `MaxEvents`, `MaxBytes`, `MaxEra`.

**Deadlock** is checked in every run but `Progress`; `Terminated` is the state
in which every request was answered and every goroutine ended. In `Progress` a
log whose lines are written and whose tailer waits in `LogTail` is at its end.

### What the passing runs show

- `IdsUnique`: no UUID is twice in a file, although enable and disable move
  clients between files without a common lock.
- `RestartOnlyTested`: a mutation restarts xray with the config its own test
  accepted, although the path could be written in between: `writeMu` is held.
- `DivergenceIsReported`: when xray runs something else than the file, a
  mutation is under way or one was answered with an error (or cut off).
- `NameClashOnlyByEnable`: two live clients share a name only when one of them
  came back from the disabled store.
- `BackupIsPrevious`: whenever the config is replaced, `.bak` holds exactly
  what was replaced, also when backups failed half-way before.
- `RefinesRegistry`: the file changes by whole edits of its present contents.
- `KeyHasOnePlace`, `DeletedStaysDeleted`: as long as no two requests that use
  the disabled store overlap, and whatever other requests do meanwhile, a key is
  lost only after a disable or an enable of that client was answered with an
  error or cut off, and is in both files only after an enable of it was answered
  with an error; and a delete that was answered with success is final.
- `RequestsEnd`: no path keeps `writeMu`.
- `SingleProbe`, `NobodyStranded`, `MonotoneView`, `EveryPollAnswered`: the
  single-flight cache does what its comment says, also when every probe fails.
- `OneStreamerForSubscribers`, `LineAfterLine`, `CancelledStreamerEnds`,
  `LinesReachSubscribers`: the hub keeps one live streamer, in order, never
  blocked by a slow browser.
- `RepeatsExplained`: a tab sees a line again, or behind a later one, in two
  cases only: it joined a running streamer that had lines on their way which the
  backfill had shown, or a streamer that was cancelled still hands out lines
  beside the one in service.
- `ChunksDoNotMatter`, `InOrder`, `LinesAreShown`: the tailer's lines do not
  depend on where its reads end; truncation repeats nothing; rotation hides
  nothing, even one between two ticks. (A file that is replaced between the stat
  and the read can be shown twice, which is why `InOrder` speaks of files that
  were not removed.) `SnapshotIsSuffix`: what `tailFile` returns is a run of
  the last lines, whole at the front, also when the file changed since its stat.
- `StaleKeyExplained`: the key in memory is wrong for two reasons only, the
  regenerate of the finding below, and a link that stores what it derived from
  the old private key after the new one was invalidated.
- `EnableStatsIsHonest`: an enable-stats answered with success holds in all
  three places from then on, over crashes and other requests; and xray has its
  stats API without the panel knowing only after somebody was told of a failure.
- `OnlineSticks`, `ApiWiredOnce`, `OwnEntriesKept`: the two handlers that write
  the policy do not undo each other, the api inbound and rule come once, every
  routing rule keeps its place, and what the operator wrote into the policy
  survives, but for an enable-stats, which replaces it.
- `YamlLoads`: the panel can start after any failure or crash of
  `WriteStatsAPI`.
- `HiddenIsIdle`, `IdleUsersDisappear`: nobody with traffic inside the window is
  hidden, whatever order two polls observe their totals in, except when a
  counter was zeroed and counted up to the remembered number; and idle users
  leave the tab in the end, after resets, restarts and overlapping polls.
- `CleanSlate`: after a reset no poll overlapped, only users with traffic or a
  session since count as active.
- `OutputParses`: counters and sessions come back from each wrapper and shape.
  The exceptions: the counters of an email that is not plain are left out (and
  never credited to another one); among strings its sessions are lost or counted
  for another client; a client named `users` alone in a flat map is an error.
- `CardsAlternate`: without overlap and reboot the watchdog's cards alternate,
  DOWN after the threshold only. `LastingStateIsFlagged`: with overlaps and
  reboots before, a lasting outage, or a lasting recovery, is flagged in the end.

### Findings

Six runs show that something a comment or a document says does not hold; the
findings in `PROJECT.json` quote it.

- `DisableLosesKey`: a config that `xray -test` rejected stays on disk. The next
  disable removes its client from the file, its restart is refused, and the
  handler returns before it stores the client.
- `StoreRaceLosesKey`: `Add` and `Remove` overlap and the later write drops
  what the other did.
- `EnableRollbackDuplicates`: an enable whose restart fails puts the client
  back into the store although the config on disk has it.
- `RestartRace`: the operator's restart is not under `writeMu`; the config is
  replaced between its test and the init script.
- `StaleAfterEdit`: a refresh that read the config before a mutation publishes
  it after `invalidateState` and is served for up to 3 s.
- `StaleKey`: a regenerate-keys whose restart fails has replaced the private key
  on disk and returns before it invalidates the public key in memory.

### Observations

Met while modelling, reproducible with these modules by changing a constant or
adding an invariant, and without a run of their own because they are further
consequences of the same gaps:

- A delete and an enable of the same disabled client at once: the enable holds
  it in memory, the delete finds it nowhere and answers 204, the enable makes
  it live (`DeletedStaysDeleted` without `~raced`; `clients.go:138-155`).
- A start after a rejected edit loads the rejected config, although
  `service.go:28-30` says that start does not load one.
- A disable writes the store after the cache entry was dropped: a refresh in
  between is cached with the client in neither list (`SeesAnsweredMutations`
  with `Kinds = {"disable"}`; `clients.go:180`).
- Two `Follow` goroutines can run at once for a while, although `hub.go:8-9`
  says at most one: a cancelled one is not waited for.
- For the same reason a new subscriber can be sent a line twice or out of order
  (`RepeatsExplained` without its last disjunct), and lines between the backfill
  and the seek of a new streamer are not shown at all (`logs.go:181-198`).
- `tailFile` drops the first line of its window also when the window begins
  exactly at a line (`SnapshotIsSuffix` asks for a suffix, not for the longest).
- An enable-stats whose restart failed is refused for ever after ("already
  enabled") while `/api/activity` keeps advising it (`server_admin.go:173`); it
  also replaces the operator's policy as a whole (`server_admin.go:183`).
- A routing rule for the tag `api` that the operator wrote before there was an
  api block gets a second one beside it when enable-stats adds the block, since
  it appends its own without looking (`mergeRoutingRule`): the theorem about
  `ApiWiredOnce` needs the hypothesis that there was none.
- Two enable-online-tracking at once both restart xray, although the handler is
  called idempotent (`server_admin.go:245-246`): the flag is read before the
  lock. A null block in the policy makes it panic.
- A poll that queried the counters before a reset and observes them after it
  fills the tracker again (`CleanSlate` without `clean`; `activity.go:194`).
- A client named `users` who is online alone is an error in the flat shape of
  the sessions (`stats.go:132`).
- A client with `>>>` in its name, or with `>` at the end of it, is left out of
  the counters: `user>>>alice>>>>traffic>>>uplink` has the parts `user`, `alice`,
  `>traffic` and `uplink` (`stats.go:245-255`). The comment above says "Emails may
  contain ">" in theory, so we only split on the outer ">>>" separator"
  (`stats.go:241-243`), which is so for a `>` elsewhere in the name. In the string
  shape the sessions of `alice>` count for `alice` (`stats.go:182-189`).
- Two watchdog runs that overlap can send their cards in one order and write
  their flags in the other: the last card says RECOVERED while the flag says
  DOWN, and the lasting outage is not alerted again (`LastingStateIsFlagged`
  without `tame`). A card that could not be sent is not tried again.
- A truncation after which the file grows back to the cursor before the next
  tick is not noticed (`stream.go:83`), and the lines before the cursor are not
  shown (`EveryLineIsShown` without its `"truncate"` disjunct).

### Fairness

- `Panel`: weak fairness of each request's next step. The Go scheduler runs
  what can run, `sync.Mutex` is starvation-free, files and shell-outs end
  (every shell-out has the deadline of its request). Arrival and crashes are
  not fair.
- `StateCache`: weak fairness of each poll that was taken up. The probes run
  under deadlines of 5 and 8 s. Writes and `Expire` are not fair.
- `LogHub`: weak fairness of each goroutine and of `ctx.Done()` in `Follow`,
  which stays ready once the context is cancelled; strong fairness of the branch
  `<-ctx.Done()` of `fanOut`, which is ready again and again while lines come:
  Go picks among the ready cases of a `select` at random. Unsubscribing (a
  `defer`) is fair; that a browser reads or leaves, or that a line is appended,
  is not.
- `LogTail`: weak fairness of the tailer (its ticker) and of the re-creation of
  a log that was removed; the properties are void while there is no file.
- `ActivityTracker`: weak fairness of each tab (it polls on a timer, and its
  queries run under a deadline of 5 s) and of the clock. Traffic, sessions,
  resets and restarts are not fair.
- `Watchdog`: weak fairness of cron and of each run; a probe that hangs for ever
  in the kernel is outside of it. `ServerAdmin` states none.
- `Progress` conjoins the four specifications' fairness, each for the part that
  runs.

### Refinement

`Panel` implements `ConfigRegistry`: `Registry == INSTANCE ConfigRegistry WITH
file <- file, InitFile <- InitFile`, and `RefinesRegistry == Registry!Spec` is a
PROPERTY of `PanelConcurrent` and a theorem.

## 4. Proofs

Checked by TLAPS, for every value of the constants that satisfies the named
assumptions of the modules, which TLC evaluates in the runs:

- `PanelAssumption`: the initial config is accepted and no UUID occurs twice in
  the two initial files.
- `CacheAssumption`, `HubAssumption`, `ActivityAssumption`, `AdminAssumption`:
  the sets and numbers have their types, channels hold at least one line, the
  kinds and faults are the ones named, and `None` and the marks of a block are
  not among the values they are told from.
- `TailAssumption` (a line has a character beside its newline, a file is never
  `None`, budgets are positive) and `WatchdogAssumption` (the threshold is
  positive) are operators that `MCProgress` assumes, which gives the constants
  their values; the theorems have them as hypotheses.
- Three theorems need the initial files to be as their property supposes, and
  say so: `NamesClashOnlyByEnable` (the names of the initial config differ),
  `EnableStatsHonest` (no initial config has an api block) and `ApiIsWiredOnce`
  (an initial config has the api inbound and rule at most once, both with an api
  block, and no rule for the API without one).

| theorem | says |
|---|---|
| `PanelProofs!Invariant` | the inductive invariant below always holds |
| `PanelProofs!TypeCorrect` | `[]TypeOK` |
| `PanelProofs!UuidsStayUnique` | `[]IdsUnique` |
| `PanelProofs!MutationsRestartTested` | `[]RestartOnlyTested` |
| `PanelProofs!BackupsArePrevious` | `BackupIsPrevious` |
| `PanelProofs!Refinement` | `Panel` implements `ConfigRegistry` |
| `PanelKeyProofs!KeyInvariant` | where the client is that a request is about |
| `PanelKeyProofs!KeysHaveOnePlace` | `[]KeyHasOnePlace` |
| `PanelKeyProofs!DeletesAreFinal` | `[]DeletedStaysDeleted` |
| `PanelKeyProofs!DivergencesAreReported` | `[]DivergenceIsReported` |
| `PanelKeyProofs!NamesClashOnlyByEnable` | `[]NameClashOnlyByEnable` |
| `StateCacheProofs!CacheTypeCorrect` | `[]TypeOK` |
| `StateCacheProofs!OneRefreshes` | `[]SingleProbe` |
| `StateCacheProofs!NobodyIsStranded` | `[]NobodyStranded` |
| `StateCacheProofs!ViewIsMonotone` | `MonotoneView` |
| `LogHubProofs!HubInvariant` | the inductive invariant below always holds |
| `LogHubProofs!HubTypeCorrect` | `[]TypeOK` |
| `LogHubProofs!OneStreamer` | `[]OneStreamerForSubscribers` |
| `LogHubProofs!LinesInOrder` | `LineAfterLine` |
| `LogHubProofs!RepeatsAreExplained` | `RepeatsExplained` |
| `LogTailProofs!TailInvariant` | what the file holds and where `Follow` is |
| `LogTailProofs!TailTypeCorrect` | `[]TypeOK` |
| `LogTailProofs!SnapshotsAreSuffixes` | `[]SnapshotIsSuffix` |
| `LogTailProofs!ChunksGlueTogether` | `[]ChunksDoNotMatter` |
| `LogTailProofs!LinesAreInOrder` | `[]InOrder` |
| `ServerAdminProofs!AdminInvariant` | the inductive invariant below always holds |
| `ServerAdminProofs!AdminTypeCorrect` | `[]TypeOK` |
| `ServerAdminProofs!YamlAlwaysLoads` | `[]YamlLoads` |
| `ServerAdminProofs!StaleKeysAreExplained` | `[]StaleKeyExplained` |
| `ServerAdminProofs!OnlineTrackingSticks` | `[]OnlineSticks` |
| `ServerAdminProofs!EnableStatsHonest` | `[]EnableStatsIsHonest` |
| `ServerAdminProofs!ApiIsWiredOnce` | `[]ApiWiredOnce` |
| `ServerAdminProofs!OwnEntriesAreKept` | `OwnEntriesKept` |
| `ActivityTrackerProofs!CountersComeBack` | `parseStats` returns the printed counters of the plain emails and no others, for every set of emails over any tokens |
| `ActivityTrackerProofs!SessionsAreRead` | `parseOnlineUsers` returns the printed sessions from every shape, but for its two exceptions |
| `ActivityTrackerProofs!OutputIsUnderstood` | `[]OutputParses` |
| `ActivityTrackerProofs!ActivityInvariant` | the inductive invariant below always holds |
| `ActivityTrackerProofs!ActivityTypeCorrect` | `[]TypeOK` |
| `ActivityTrackerProofs!SlateIsClean` | `[]CleanSlate` |
| `ActivityTrackerProofs!OnlyIdleAreHidden` | `HiddenIsIdle` |
| `WatchdogProofs!DogInvariant` | the counter and the flag are what the probes and cards were |
| `WatchdogProofs!CardsAreInTurn` | `CardsAlternate` |

**Panel: the config.** `IdsUnique` alone is not inductive: what `Commit` writes
was computed two steps before. The invariant adds that `writeMu` is held exactly
by the request in the critical section, so that only one request is in it; that
what this request is about to write *is* an edit of the file as it is now; that
after `Backup` the backup is the file; that before `restart` the file is
accepted; and that lists a request last read from the store have no UUID
twice. A request outside the critical section cannot change the file, so it
keeps all of this; inside it each step establishes the next part. That an edit
keeps UUIDs apart is a lemma per edit; for create it rests on the fresh UUID
being in no file and in no other request (`born`). The refinement follows:
`Commit` is the only step that changes the file, and by the invariant it applies
an edit to the present contents; every other step stutters.

**Panel: keys, answers and the running xray.** `KeyHasOnePlace` relates two
files that change one after the other to what was answered, so its invariant
follows the client through the handlers. `Asked`: a request keeps what it was
asked for, and has in hand the client it was asked about. As long as no two
requests that use the store overlapped, `OneStoreUser`: what a request has read
from the store is the store. `Placed` says, for each step of a delete, disable
and enable, which of the two files have the client: an enable that holds the
lock has removed its client from the store; a disable behind its write has taken
it out of the config. `Kept` is then the property itself, in which a client that
a request has in hand is not lost yet. Between two of its steps nobody else
changes the store (`OneStoreUser`), and the edits of the config that may come in
between (create, patch, settings) bring no known UUID in and take none out. A
delete is final by the same invariant. `DivergenceIsReported` has an invariant
of its own (`Reported`): xray runs something else than the file only while there
is a mutation between its rename and its answer, or one that failed or was cut
off. `NameClashOnlyByEnable` follows from the edits: create and patch compare
with the names that are there under the lock, an enable does not.

**StateCache.** `SingleProbe` is inductive with the types: a poll refreshes only
when `pending` is nil, and `pending` names it until it publishes. With it so is
`NobodyStranded`: who joins, joins the slot of the refresher, and the refresher
closes it whatever fails. For `MonotoneView` the invariant relates versions: no
payload is ahead of the disk; the entry, and what the refresher has read so far
and will yet read, are at least as new as anything answered before; a slot that
is waited on or closed carries a payload at least as new as what the polls that
wait on it had seen answered when they began. The step that needs the argument
is `Publish`, which replaces the entry: nobody else refreshes, so nothing newer
was published since the refresher began.

**LogHub.** `subs` is the set of sessions between `Subscribe` and unsubscribe;
both change under `h.mu` together with the streamer in service, so the streamer
that is not cancelled is the last one that was started, and there is one exactly
when `subs` is not empty. For the order of lines `InFlight` describes the
channel between the two goroutines of a streamer: it holds, one after the other,
the lines after the last that was taken out and up to the last that was pushed,
whether or not the streamer is cancelled. `SeenBefore` ties this to the
sessions: what a session saw is not behind what its streamer has handed out,
unless one of the streamers it had is cancelled. The two exceptions of
`RepeatsExplained` are where this fails.

**LogTail.** What the tailer computes is a fold over characters, so
`ChunksDoNotMatter` and `InOrder` need facts about the fold for files of any
length. The fold of the community modules is a `CHOOSE` of a function; that one
exists is proved by induction over the length, and so is that it begins with its
base and goes on by one `Feed` per character (`SplitEmpty`, `SplitAppend`).
Induction is used as a fact about a set of numbers, obtained from the
well-foundedness of `<` on `Nat`. From these two steps follow, by the same
induction, that splitting two pieces one after the other, the rest of the first
carried over, is splitting them at once (`SplitConcat`), that what is carried
into a read reaches its first line only (`SplitCarried`), and that a list in
order stays so when it is read on (`SplitOrdered`). The invariants of `Follow`
are then about numbers: the file is the last characters that were written
(`FileShape`); while it only grows, the cursor is in it (`Growing`); and as long
as it was not removed, everything shown is a character before the cursor, or
before the whole file when it was truncated below the cursor (`Behind`).

**ServerAdmin.** `writeMu` is held exactly in the critical section, and what is
about to be written is an edit of the config as it is, as in `Panel`. The rest
is about what happens outside of the lock. At most one enable-stats is ever
behind its write, since the edit refuses a config that has an api block and
nothing takes the block away (`OneWired`); so only one request writes
`panel.yaml`, which therefore loads at any time: its `.tmp` is renamed by the
request that completed it. The memory and the yaml then go from `"unset"` to
`"set"` in one order, and whoever finds the api wired without them knows that
somebody was told (`StatsInv`). The flag of online tracking stays because no
edit takes it away (`OnlineInv`). A link has the key on disk in hand unless a
regenerate replaced it since (`crossed`), which is what `StaleKeyExplained`
needs.

**ActivityTracker and StatsOutput.** A name is taken apart by where it is cut.
Three `>` in a row are never without a cut (`RowIsCut`: go back to the last
token that is not `>` and count off threes). So a name is cut after `user`,
after the email and, a counter's, before the direction (`FirstCut`,
`CutAfterName`, `LastCut`); without a separator in the email no cut is in it
(`NoCutInName`), and the one after it is at the end of the separator if the
email does not end in `>` (`CutAfterPlain`), else too early (`NoCutAfterOther`).
A plain counter's name has these three cuts, and the parts between them are the
four that `parseUserStatName` wants; another one has more cuts, or a third part
that begins with `>`. For the sessions the readings are tried in turn; the
strings of one plain user are as many as its sessions, by a bijection with
`1..n`, and nothing another user adds takes one away. That a set of numbers has
a last one up to `i`, and the induction under it, come from the library's
theorem about well-founded orders, which needs no operator as a parameter.

In the tracker, `MovesAreKnown` says that whatever is nonzero anywhere, in a
counter, in a poll or in an entry, belongs to somebody who moved since the
reset, unless a poll overlapped it: that is `CleanSlate`. For `HiddenIsIdle`
polls that observe out of order must not make an entry older than the traffic it
stands for: a poll of this era of the counters has at most the bytes there are
(`StatsBehindCounter`), and an entry that holds as many bytes as there are, or
as a poll under way has seen, is at least as recent as the traffic that made
them (`EntriesAreRecent`). The exception, a counter that was zeroed and counted
up again, is the difference between two eras.

**Watchdog.** Without overlap and reboot at most one run is between its start
and its end, and at each of its steps the counter is the number of failed
probes in a row and the flag is the last card, except for the one of them it is
about to write (`Knows`).

**Only model-checked.** The liveness properties (`RequestsEnd`,
`EveryPollAnswered`, `LinesAreShown`, `LastingStateIsFlagged`,
`CancelledStreamerEnds`, `LinesReachSubscribers`, `IdleUsersDisappear`): the
installed provers do neither liveness under fairness nor ENABLED. And the six
runs that expect a violation, whose properties do not hold. No module uses a
RECURSIVE operator.

## 5. Not modelled

- *Basic auth*: the memo holds accepted credentials only, and one user and one
  hash are configured for the life of the process: an entry is right for as long
  as it is held, and there is at most one. The LAN guard is a predicate on the
  peer address.
- *Backup script and install.sh*: run to their end in sequence, once a day and
  once; the backup stores its hash before the upload, so an upload that failed
  is not tried again before something changes.
- *The 400 answers of enable-stats* for a `stats_api` whose port cannot be used:
  they come before anything is changed.
- *Validation of `panel.yaml`, matching of the key tool's output, links, QR
  codes, static files, the runner, the browser code*: pure functions or I/O
  without state.
- Power loss: `os.WriteFile` and the renames are not followed by a sync, so what
  survives it is up to the file system. The models have crashes of the process.

## 6. Plan

Done, in this order: `XrayConfig`, `ConfigRegistry`, `Panel` and the first
proofs about them; `StateCache`; `LogHub`; `LogTail`; `AdminBlocks` and
`ServerAdmin`; `StatsOutput` and `ActivityTracker`; the snapshot and the
backfill; `Watchdog`; then the proofs of every invariant and action property.

Left, most important first: an abstract specification of the log view (each
session sees an increasing selection of the lines between two backfills) that
`LogHub` implements; one of the cache (a poll answers a state between its
arrival and its answer, or one the findings name); a theorem that the tailer's
next read after the last write leaves no whole line in `carry`, the safety part
of `EveryLineIsShown`.
