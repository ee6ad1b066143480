# The MySpeed server in TLA+

MySpeed measures an internet connection on a schedule, keeps the results in a
database and tells people and programs about them. The server (`src/server`) is
one Node.js process and one JavaScript thread: code runs to completion between
two `await`s, and everything hard about it happens *at* the awaits - requests,
scheduled ticks, timers, the events of child processes and the answers of a
database that may refuse or hang, in any order - and when the process is killed.
That is what these modules model.

## 1. Inventory

| component | state it keeps | operations | talks to | what is hard |
|---|---|---|---|---|
| **Test round** `tasks/speedtest.js`, `routes/speedtests.js` | the run latch `_isRunning`, the round's locals (members left, retry, escapes, failures) | `POST /run`, `create`, `executeRound`, `executeTarget` | targets, pause, quiet hours, holds, rows, integrations | two ways in racing for one latch; guards read before awaits; members changing under the round; a write refused while recording a failure; a verdict that never comes |
| **Schedule, pause** `tasks/timer.js`, `controller/pause.js` | the job, its generation, sleeping runs, digest jobs; the pause and its timeout | tick, `startTimer`, `stopTimer`, `runTask`, pause, continue, resume | config routes, round | restarts interleaving; runs asleep across a restart or a pause; timeouts outliving their pause |
| **Process** `index.js`, `util/shutdown.js`, `util/activeRound.js`, `util/speedtest.js` | the tracked CLI child, the shutdown's phase, four timers | spawn, retry, time out, SIGTERM/SIGKILL, the exit sequence | round, database, listeners | child events out of order; signals at any moment; everything waited for may never answer |
| **Migrations** `util/migrationRunner.js`, `migrations/` | the schema, `SequelizeMeta`, the moved data | one migration after another on every start | database | statement-by-statement commits, kills, lock timeouts |
| **Outage alerts** `util/outage.js`, `controller/integrations.js` | none of its own: the rows | judge a streak per recipient | round, retention, integrations | edges read back from rows; fire-and-forget messages; restarts; a sweep deleting rows of the streak |
| **Integrations** `controller/integrations.js`, `tasks/integrations.js`, `integrations/*` | registered callbacks, last pings, `currentState` | `triggerEvent`, the minute ping | round, HTTP, SMTP, MQTT | pings overtaking each other |
| **Configuration** `controller/config.js`, `util/adminMutation.js` | the config table, a queue of mutations | update, import, factory reset | schedule, pause, sessions, targets | several side effects after one commit |
| **Sign-in** `routes/session.js`, `util/session.js`, `util/authPolicy.js`, `middlewares/password.js`, `routes/prometheus.js` | sessions, generation, policy revision, failed attempts and reservations per client | sign in, sign out, the gate in front of every route, the metrics scrape, revoke all | configuration | a password or a level changed while it is being read or compared; guesses running side by side; full tables, late deadlines |
| **Targets, tokens, recommendations** `routes/targets.js`, `controller/targets.js`, `routes/tokens.js`, `controller/recommendations.js` | their tables; the queue of `util/adminMutation.js` and the one of the recommendations | create, rename, delete, reorder; issue, revoke; restore, reset; refresh | round, history, configuration | checks and writes with awaits between them; ids that history is filed under; a restore beside a round |
| **Holds** `util/rateLimitBackoff.js` | a hold per provider | record, clear, expire | round | asking a provider that refused |
| **History** `controller/speedtests.js` | the rows | list, import, export, delete, sweep | round, statistics | a chunked import beside a round |
| others | baseline verdicts, connection log, digests, nodes, metrics, badges, providers, client, build | | | mostly arithmetic, formatting and I/O |

What makes each correct: *round* - one at a time, the latch always released, at
most one row per member, the keep-alive silent no longer than a round is open, a
completion event that tells the truth; *schedule* - exactly one job, the stored
one, no round from a retired schedule or into a pause, no run stranded; *process* - a signal ends it,
no child survives it, exit code 0 means nothing was cut short; *migrations* - an
upgrade cut off anywhere is completed and loses nothing; *outage alerts* - each
downtime told once to everyone who asked for one that long, its end to exactly
those who were told; *sign-in* - no session and no admission outlives the
password or the policy it was given on, and the budget of guesses is never
doubled by running them together; *targets* - ids stay
distinct, names and places too but for the twins a backup brings in, and a
measurement stays with the line it measured through renamings, restores and
resets.

`PROJECT.json` lists every component with its status, every hazard at its line
and every definition with the code it stands for.

## 2. Modules

```
RoundContract <---implements--- SpeedtestRound --- SpeedtestRoundProofs
                                     |  (a run of ScheduleTimer in "round" and the round of
                                     |   Shutdown are its calls, reduced to what they need)
                                ScheduleTimer   --- ScheduleTimerProofs
                                Shutdown        --- ShutdownProofs
                                OutageAlerts    --- OutageAlertsProofs
                                     (the handler executeTarget of one target, its rows kept)
AttemptThrottle --- AttemptThrottleProofs
     |  extended by
SignIn          --- SignInProofs
AdminContract <---implements--- AdminMutations --- AdminMutationsProofs
                                     (the rounds are its recorders)
MigrationRunner --- MigrationRunnerProofs    (before the rest starts)
```

Every component has an `MC` module with the model values of its runs.

### SpeedtestRound (and RoundContract)
`at[c]` is the await at which call `c` is suspended and `call[c]` its locals;
`running` is `_isRunning`, `keepAlive` is `currentState` of
`tasks/integrations.js`, `report` what the round last handed over to be sent (the
fan-outs are detached and read settings before they send, so what arrives when is
not in it). One action is
one stretch between two awaits: `RunRequested`, `RunCounted`, `RunReserved` are
`POST /run` up to its synchronous `tryReserve`; `AutoCreate` and `RoundDeclined`
the entrance of `create`; `LoopTop`, `QuietHoursRead`, `MemberRead` the loop with
its guards; `Measured`, `MeasureFailed`, `RecordResult`, `RecordFailure` are
`executeTarget`; `Escape` is the catch that counts members that could not be
recorded. The finally is `TargetsListed`, one `RowRead` for each watched target,
and `VerdictKnown/Read/Lost` with `Release`; then `Finish`, the finally of `create`
that drops the latch once more. `"top"`, `"finishing"` and part of `"verdict"` and
`"rows"` are not awaits but points of a stretch that only microtasks cut: `EventLoop`
lets nobody else move while a call stands there. The surroundings - table, rows,
pause, quiet hours, signal, database, expiring holds - change at any await,
`MaxChanges` times; a demo's routes do not let a visitor pause, edit or delete. The
ghost `moments` keeps what table and rows have been since a verdict listed the
targets: `ReportIsTrue` says what an answer put together from several reads can
claim about them, and no more.

`RoundContract` is what a round promises: free, reserved, opened; a round given
up before it opens leaves no trace, an opened one records each member at most
once and hands over its verdict, or none, in the step that releases the latch.
`SpeedtestRound!ImplementsContract` maps the phase to where the calls stand and
`recorded` to the rows.

### ScheduleTimer
`jobs` is what node-schedule fires, `job` the one handle the module keeps: they
are two variables because a `scheduleJob` over a live handle is the bug the code
guards against. `generation`, `pendingDelays`, `digests` are the
module's own. A run is `Tick`, then its reads (`QuietHoursAnswered`,
`OffsetAnswered`, `QuietAgainAnswered`), its sleep and the last guards. A request
(`SettingWritten`, `PatchStops`, `SettingRead`, `PatchStarts`, `PatchRefused`;
`ResetCommitted`, `ResetDone`) stops the job before the reads it starts it again
with. `timeouts` are the armed timers of pauses, `updateTimer` the one
`pause.js` knows.

### Shutdown
Time passes in units of 500 ms with the code's own durations and never past a
timer that is due. `child[i]` goes unborn, running, killed, exited, closed;
`activeProcess` is the tracked one. The signal path is `Signal`,
`ListenersClosed`, `ProcessExitWaited`, `RoundWaited`, `DatabaseCloses`, with
`Deadline` beside all of them.

### MigrationRunner
A migration is the sequence of objects it adds, named after its file; `Up` adds
the next one, in the way its `up` looks before it adds (or not). 0013 goes on
with `Seed`, `Backfill` in chunks, `ForgetKeys`; `Record` writes
`SequelizeMeta`. `Crash` takes the process down anywhere, and a statement that
would rewrite more than `StatementRows` rows never commits, which is how a lock
timeout looks to the runner.

### OutageAlerts
`rows` are the outcomes of one target, oldest first, and the only memory there
is: `FailureStreak` counts those after the newest success. `step` is where
`executeTarget` stands - the streak a success ends is read *before* its row
(`EndedRead`), the streak of a failure *after* it (`OutageSent`). `fanOuts` are
messages on their way; a recipient's number is read when it is its turn
(`Delivered`), a send is tried once (`Undelivered`). `alerts` is the target's
flag as stored, `watched` as the running test knows it. `SweptOld`,
`RowDeleted`, `HistoryCleared`, `RowImported`, `RecipientChanged`,
`AlertsChanged` and `Restarted` come at any moment. Three ghosts record what
happened (`episode`), what was said of it (`told`) and whether a row came or went
behind the streak (`Disturbs`, `tampered`). Rows are ordered by when they were
measured: a clock set back, and imported rows dated ahead of it, are not modelled.

The properties speak of *listening* recipients: those of which no read or
message was lost in this downtime, who changed nothing during it and of whose
line nobody deleted a row - nor restored one, the exceptions the comments of
`suppressesEvent` and `executeTarget` accept - and whose `outage_after` is smaller than the number
of tests the retention holds. The code does not compare these two settings; with
a retention as short as `outage_after` the count returns to it with every failure
and the outage is announced every time (a hazard in the list).

### AttemptThrottle
The counters of `middlewares/password.js`, shared by the three ways in. A request
reserves as many guesses as it carries before it compares them (`Reserve`) and
settles them afterwards (`Settle`); a reservation is the pair of its request and a
number, so that a settle finds its own however the list changed. `Busy` sweeps
the stale ones, `WindowEnds` and `DeadlinePasses` are what time does, and a full
table lets one entry go - which of them, the model leaves open. The ghost
`overrun` names the clients that lost the reservation of a comparison still
running, by a deadline or a full table: the code gives them more than the budget.

### SignIn
Extends the throttle with what the requests do around it. `at[r]` is the await,
`call[r]` the locals: each request captures the generation (and the gate the
policy revision) *before* its reads, and compares at the end. A read is answered
in one step and resumed in another. A change of the password, a restore or a
reset commits in one step and revokes in the next (`Commit`, `Revoked`), as the
database's answer lies between the two; one mutation runs at a time. A hash is
named by its password; `version` and `policy` are ghosts that count commits, so
that the same hash put back is still another password. Whether a guess is right,
and whether a caller may enter without one, is left open. `PasswordCleared` is
`util/resetPassword.js` in another process, which by its own comment revokes
nothing; `Restart` forgets everything that is not in the table.

### AdminMutations (and AdminContract)
The queue of `util/adminMutation.js`: one request at its front, one step per await.
A mutation reads, checks and writes in separate steps (`CreateChecks`,
`CreateOrders`, `CreateInserts`; `RenameReads`, ...), and a restore is
`ImportReadsHistory`, `ImportReadsTargets`, one `ImportSettles` per row
(`restoredId`) and `ImportCommits`. `Refused` stands for a guard that fails and for
a statement that is refused: both leave the queue and write nothing. `nextId` is
AUTOINCREMENT, which never hands out an id again. Beside the queue run the
recorders - a round, or the restore of a history - which read the targets once and
write rows under their ids, and the refresh of the recommendations behind a queue
of its own. The ghost `line` is the identity of what is measured: it goes with a
target through renaming and reordering, and with a restored row if it was matched
with a live target by its name. A row is *late* if it was written after a restore
had looked at the history; the invariants about the history except late rows, since
rounds do not pass through the queue and nothing in the code excludes them (a hazard
in the list). The routes do not let a name in that is taken, but a backup with twins
- two targets of one name, or in one place - is restored on purpose, and an old
install may hold them: the ghost `shared` is what the rows last restored or installed
share, and `TargetsAreDistinct` allows that and no more. Of twins `restoredId` takes
the one with the row's own number, else the first listed (`liveIdsByName`), so which
of them keeps its history depends on the backup: `NameKeepsItsHistory` is about a
target alone with its name, and the contract's `Restore` also about a twin the backup
has under its own number. A backup may hold any number of recommendations.

`AdminContract` is the queue's promise without its awaits: a creation, a renaming, a
deletion, a new order, a token more or less and a reset are one step each, decided on
the tables of that very moment. A restore is two: `Look` reads which of its file's
ids have measurements, and `Restore` replaces the targets as they are by that look,
not by the history of its own moment - a row filed in between is not seen, as in the
code; no other mutation comes between the two. `AdminMutations!ImplementsContract`
shows the targets without their lines, the history as the set of all ids rows are
filed under, and the front restore's look; the step of the contract is the one that
writes, and what was checked several awaits before is still true at it.

## 3. Runs

| run | module | shows | bounds, and why they suffice |
|---|---|---|---|
| `round_latch` | SpeedtestRound | `OneRound`, `LatchIsOwned`, `KeepAliveIsSilenced`, `ImplementsContract` | two calls (a race needs two), two targets of one provider, one change of the surroundings; normal instance and demo |
| `round_report` | SpeedtestRound | `TypeOK`, `OneRowPerMember`, `ReportIsTrue`, `HoldIsHonoured`, `LatchIsReleased` | one call, two changes: enough to pause, cut the database, hold a provider and come back, or to edit a target and delete a row between two reads of the verdict |
| `round_pause` | SpeedtestRound | *violates* `PauseStopsTheRound` | |
| `schedule_safety` | ScheduleTimer | `TypeOK`, `OneSchedule`, `OneDigestPair`, `TimeoutIsItsPauses`, `RunIsCurrent` | two runs, two requests, four crons (default, other, valid but unschedulable, garbled), one refused read, two pauses |
| `schedule_alone` | ScheduleTimer | `ScheduleIsStored`, `RunsEnd` | one request at a time restarting three times, a database that answers, two pauses |
| `schedule_countdown` | ScheduleTimer | *violates* `CountdownIsArmed` | |
| `shutdown` | Shutdown | `NoOrphan`, `CleanExit`, `ShutdownEnds`, `RoundEnds` | the real durations; two children and two further attempts: a retry and the next member |
| `migration_restart` | MigrationRunner | `OneSeed`, `HistoryAttributed`, `ChoiceNeverLost`, `RecordedIsApplied`, `BootedIsComplete`, `UpgradeEnds` | every starting version, both dialects, two kills, a history longer than a chunk and than the longest statement |
| `outage_alerts` | OutageAlerts | `TypeOK`, `OneOutage`, `OutageIsTold`, `RecoveryIsOwed` | one recipient (recipients do not act on each other) with numbers 1, 2, 3 and off; a retention of four tests and a table of five, so that streaks outgrow it; three messages on their way at once; a view that forgets what was said of past episodes and to the excused |
| `attempt_throttle` | AttemptThrottle | `ReservationsAreOwned`, `BudgetHeld` | three requests of one client and one of another, of up to two guesses; both budgets three, a table of one client |
| `sign_in` | SignIn | `TypeOK`, `SessionsAreCurrent`, `AdmissionIsCurrent` | two requests of one client, each of any of the three kinds and again; two passwords, two changes (away and back), every cap one, one late deadline |
| `admin_mutations` | AdminMutations | `TypeOK`, `TargetsAreDistinct`, `HistoryKeepsItsLine`, `NameKeepsItsHistory`, `ImplementsContract` | two requests and two mutations, two recorders, two names, two targets at the start (none is one reset away, two twins one restore); four backups: foreign ids, swapped ids in one place, twins with a missing id and in reverse order, two rows of one id |

The type invariants of Shutdown and MigrationRunner are in no run: they say least of
what these modules have to say, and the theorems `LeavesCleanly` and
`RecordedCorrect` prove them.

Deadlock is not checked where the system may stop: when the budget of changes,
restarts or kills of a bounded behaviour is spent, or the process has left.

### Disagreements of the code with its own comments
- `round_pause`: the comment above the pause guard of `executeRound` says a pause
  is "stop testing", whoever started the round. The flag is read before two
  awaits; a pause pressed during them still lets the next member's run begin.
- `schedule_countdown`: a test and a comment say that `/status` announces the
  schedule that runs and not an expression node-schedule made nothing of; the code
  keeps `currentCron` for it. `GET /status` does not use it: it passes the stored
  cron, and counts down to that whichever job there is. The same property fails, with
  schedulable crons only, when a read of a restart is refused: `stopTimer` comes
  before the reads, no job is left, and the countdown goes on.

### Fairness
- `round_report`: weak fairness of each call's own steps. The event loop resumes
  every settled promise. The one read the code itself does not trust, the
  verdict's, has no fairness: its deadline has.
- `schedule_alone`: weak fairness of each run's steps, for the same reason; a
  sleeping run has a timer.
- `shutdown`: timers fire, a killed child is reaped by the kernel, its `close`
  arrives, a database that answers answers. Nothing is assumed of the listeners
  or of a child that ignores SIGTERM.
- `migration_restart`: weak fairness of the start-up's steps, the restart
  included. The systemd unit of `scripts/install.sh` says `Restart=always` and the
  compose file of `scripts/docker-install.sh` says `restart: unless-stopped`; the kills are finitely many.

## 4. Proofs

TLAPS proves the following for every value of the constants.

- **SpeedtestRoundProofs**, for any number of calls, targets and providers.
  `TypeCorrect`: `TypeOK` is not inductive - `escapes` is bounded by
  `MAX_CONSECUTIVE_ESCAPES` only because a round that reaches it leaves the loop
  (`EscapesLeft`), and rows are written under `cur` only because the loop put a
  member there (`CurKnown`). `LatchCorrect` (`OneRound`, `LatchIsOwned`,
  `KeepAliveIsSilenced`, and that the demo tells nobody anything): `running` and
  `keepAlive` are determined by where the calls stand, and no call takes the latch
  while another is between its two finallys (`FinishesAlone`), which is what "the
  latch is dropped twice" in the comments needs. `RowsCorrect` (`OneRowPerMember`)
  rests on `MemberInv`: a member still to come has no row, and the failures counted
  are those of the members done with and not proven. `ReportCorrect`
  (`ReportIsTrue`) adds `VerdictInv`: the targets listed are those of one moment of
  the reads, each row answered for is that of another, and both are kept in
  `moments` whatever is edited or deleted meanwhile. `HoldsHonoured`
  (`HoldIsHonoured`): the hold a member was asked under is still the provider's.
  `RoundKeepsContract`: the refinement of `RoundContract`. `RoundIsFinite`: the
  measure `StepsLeft` - ten for every member left, the place in the handler of
  the one under way, where the stretches of a repeated attempt count below those of
  a first, and the answers the verdict still waits for - falls with each step of an
  opened round until its verdict and is bounded by the number of members. A round can
  neither go round in circles nor be kept going by what changes beside it.
- **ScheduleTimerProofs**, for any number of runs and requests. `ScheduleCorrect`
  (`TypeOK`, `OneSchedule`) and `RunsAreCurrent` (the action property
  `RunIsCurrent`): a run of the current generation was fired by the job in force
  (`RunsAreDated`), and a run's last guard compares generations.
  `PairAndTimeoutCorrect` (`OneDigestPair`, `TimeoutIsItsPauses`).
  `StoredIsScheduled` (`ScheduleIsStored`), under two hypotheses: one request at a
  time and no refused read. They are the two ways in which the code can lose it -
  the second leaves no schedule at all. `RunsGoForward`: a run of the
  schedule takes six steps at most, each of its own moves it on, and a step that
  advances the generation leaves none asleep - the timeouts `stopTimer` clears are
  those of exactly the runs it wakes.
- **ShutdownProofs** - `LeavesCleanly` (`TypeOK`, `NoOrphan`, `CleanExit`), for any
  number of children and any durations ordered as the code's are. Only the child
  of the round in flight can be alive and it is the one the module knows of; from
  the signal on its SIGKILL is due before the deadline and before the wait for its
  exit gives up. `DeadlineHolds`: the deadline a signal arms is moved by nothing but
  the clock, and time does not pass it with the process still there. `WayOutIsFinite`: from
  the closing of the listeners on every step, of whichever actor and of the clock,
  uses up one of finitely many - a unit of time before the deadline, a stretch of the
  exit sequence or of the round, a state or a timer of a child.
- **MigrationRunnerProofs**, for a history of any length, any chunk and any number
  of kills. `UpgradeCorrect` (`OneSeed`, `HistoryAttributed`, `ChoiceNeverLost`):
  the invariant says what holds at each point of 0013 - the seed before the
  back-fill, nothing unattributed before the keys are forgotten, the keys gone
  before it is recorded - and that a kill only moves the control back.
  `RecordedCorrect` (`TypeOK`, `RecordedIsApplied`): what the runner has come past
  is in the schema, whichever way each migration looks before it adds.
  `BootedCorrect`: a server that is up has the whole schema of its version, every
  migration recorded and no legacy key (`BootedIsComplete`) - the loop has passed
  only what is recorded, and the one object a recorded 0013 may lack is what 0014
  adds - and no step takes back an object, a record, a target or an attribution
  (`NothingIsUndone`). `UpgradeIsFinite`: `StepsLeft` is bounded by the migrations
  and the rows and falls with every step of a start-up (`StartAdvances`); and only a
  kill stops one (`OnlyKillsStop`), since every `up` looks before it adds and the
  rows of one back-fill statement are at most a chunk (`LowestAreFew`) and at least
  one (`LowestIsSome`).
- **OutageAlertsProofs**, for any recipients, numbers and retention. `TypeCorrect`,
  `ToldOnce` (`OneOutage`), `OutageTold` (`OutageIsTold`), `RecoveryOwed`
  (`RecoveryIsOwed`). The streak in the rows is the length of the episode, or both
  are past every number the retention leaves room to count to; so the message that
  carries a recipient's number is sent once in an episode, and it is due, on its
  way, or heard.
- **AttemptThrottleProofs**, for any clients, requests and caps. `ReservationsOwned`
  and `BudgetIsHeld`: the table of a client that lost nothing is exactly what it
  has running, and what a settle adds to its failures leaves the table in the same
  step.
- **SignInProofs**, for any requests, passwords and changes. `UsesTheThrottle`: every
  behaviour of SignIn is one of AttemptThrottle, so its theorems hold here too
  (`GuessesAreCounted`: `BudgetHeld` and `ReservationsAreOwned` of the three ways in).
  `TypeCorrect`, `SessionsCurrent` (`SessionsAreCurrent`), `AdmissionCurrent`
  (`AdmissionIsCurrent`): a request whose captured generation is still the current
  one has read the current password, or one whose replacement is committed and has
  not revoked yet.
- **AdminMutationsProofs**, for any requests, recorders, names and backups, twins
  included. `TypeCorrect`, `TargetsDistinct` (`TargetsAreDistinct`), `HistoryKept`
  (`HistoryKeepsItsLine`), `NameKeepsHistory` (`NameKeepsItsHistory`): only the
  front of the queue is past its first await, so what it has read of the targets is
  still so when it writes; what a restore has read of the history is outdated by
  late rows only; and the ids it hands out are past every one ever assigned or kept.
  `MutationsAreSerial`: the refinement of `AdminContract`. The step that writes maps
  to the whole mutation, a restore's reading of the history to its look, a refusal
  after that to giving it up, every other step to a stutter; what the front of the
  queue has read describes the targets as they are (`KnowledgeInv`), the ids settled
  so far respect the history as it was read, and only the front can have read it.

Their only assumptions are the named `ASSUME`s of the modules: ids are numbers,
the caps and budgets are naturals, the default cron is schedulable, a chunk fits a
statement, the durations are ordered, a backup is a sequence of rows with at most as many tokens
as there may be.

Only model-checked: liveness (`LatchIsReleased`, `RunsEnd`, `ShutdownEnds`,
`RoundEnds`, `UpgradeEnds`), because the prover has neither fairness nor ENABLED to
reason with. What the liveness rests on is proved: the measures that fall
(`RoundIsFinite`, `RunsGoForward`, `WayOutIsFinite`, `UpgradeIsFinite`) and the
deadline that bounds the exit whatever else stands still (`DeadlineHolds`); what is
left to the runs is that the fair steps stay possible. TLC checked each of these
formulas at its run's bounds before it was proved. Every safety property of the
passing runs is proved, the two refinements included. Of the two queues only safety is checked:
that each entry leaves however it ends is in the actions, not in a property.

## 5. Not modelled

What a test measures, how messages read, statistics, paging, backups' formats,
TLS, static files, the providers' downloads and output, the node proxy, the
client and the build: pure functions of their inputs, or I/O, with no state two
steps could disagree about. They are most of the repository: by lines about half
of it is the scripts that build, qualify and install packages, and most of the
rest is the client, formatting and providers; the state that lives between two
awaits is in the server's tasks, controllers and middlewares, and there the models
are dense. Partly modelled, with what is missing in their notes: the length of
holds, the minute ping of the health check, the configuration's other keys, the
database's own pool and the tables nothing above refers to. Not modelled although
they keep state: the baseline alert and the log of connection changes (each one
comparison of a row with earlier ones, in the handler that writes it).

## 6. Plan

1. **HealthCheck** - the minute ping (state, verdict, throttle, delivery) and the
   round's own completion, seen by a monitor that keeps the last ping it got;
   property: once rounds rest, the check agrees with the standing verdict, and
   what a single overtaken ping may do before.
2. The length of holds in SpeedtestRound: when a repeated refusal doubles it and
   when a success clears it, with rounds in between.
3. The baseline alert and the connection changes, beside OutageAlerts: verdicts
   read back from rows that an import or a sweep may change in between.
4. To prove next: an abstract specification of a downtime for one recipient (quiet,
   told, told of its end) that OutageAlerts implements, and one of the schedule
   (off, or one job of the stored setting) that ScheduleTimer implements without the
   two hypotheses of `StoredIsScheduled` wherever the code keeps it.
