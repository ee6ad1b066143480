---------------------------- MODULE ScheduleTimer ----------------------------
(***************************************************************************)
(* The schedule of src/server/tasks/timer.js and the pause of              *)
(* src/server/controller/pause.js: the job node-schedule holds, the runs   *)
(* it fires and their way through the guards, the sleep of the schedule    *)
(* offset, and everything that tears the schedule down - a PATCH of the    *)
(* cron or the timezone, an import, a factory reset, a shutdown.           *)
(*                                                                         *)
(* As everywhere in the server one step is a stretch between two awaits;   *)
(* the database may answer the reads of two requests in either order.      *)
(***************************************************************************)
EXTENDS Naturals, FiniteSets

CONSTANTS
    Runs,          \* calls of runTask
    Patches,       \* requests that restart the schedule
    Settings,      \* stored schedules: a cron with its timezone
    Valid,         \* those isValidCron takes
    Compiles,      \* those node-schedule can make a job of; its parser is not isValidCron's
    Default,       \* config.configDefaults.cron
    NoSchedule,
    MaxRestarts,   \* how many requests restart the schedule in one behaviour
    MaxPauses,     \* how many pauses are pressed
    MaxRefusals,   \* how many reads the database refuses
    MaxToggles     \* how often the clock enters or leaves the quiet hours

ASSUME ScheduleAssumption ==
    /\ Compiles \subseteq Valid /\ Valid \subseteq Settings
    /\ Default \in Compiles   \* in every zone isValidTimezone lets through
    /\ NoSchedule \notin Settings \cup [gen : Nat, setting : Settings]
    /\ MaxRestarts \in Nat /\ MaxPauses \in Nat /\ MaxRefusals \in Nat /\ MaxToggles \in Nat

VARIABLES
    stored,        \* the configuration table's cron and timezone
    jobs,          \* the jobs node-schedule fires, each [gen, setting]
    job,           \* the one handle the module keeps
    digests,       \* how many pairs of digest jobs node-schedule holds
    generation,
    at,            \* where each run is suspended
    startedIn,     \* the generation each run captured
    firedBy,       \* not in the code: the job that fired the run
    pendingDelays, \* the runs asleep with a timeout armed
    patch,         \* where each restarting request is suspended
    read,          \* the settings it has read
    paused,        \* currentState of controller/pause.js
    pauseNo,       \* not in the code: which pause it is
    updateTimer,   \* the timeout the module knows of
    timeouts,      \* the timeouts armed, each named by its pause
    stopped,       \* a signal has arrived
    quiet, restarts, refusals, toggles

schedule == <<stored, jobs, job, digests, generation>>
runs == <<at, startedIn, firedBy, pendingDelays>>
requests == <<patch, read, restarts>>
pause == <<paused, pauseNo, updateTimer, timeouts>>
surroundings == <<stopped, quiet, refusals, toggles>>
vars == <<schedule, runs, requests, pause, surroundings>>

Jobs == [gen : Nat, setting : Settings]
Reading == {"quietHours", "immediate", "offset", "quietAgain"}

Init ==
    /\ stored \in Settings
    /\ job = [gen |-> 1, setting |-> IF stored \in Compiles THEN stored ELSE Default]
    /\ jobs = {job}
    /\ digests = 1
    /\ generation = 1
    /\ at \in [Runs -> {"idle", "immediate"}]
    /\ Cardinality({r \in Runs : at[r] = "immediate"}) <= 1
    /\ startedIn = [r \in Runs |-> 1]
    /\ firedBy = [r \in Runs |-> job]
    /\ pendingDelays = {}
    /\ patch = [p \in Patches |-> "idle"]
    /\ read = [p \in Patches |-> NoSchedule]
    /\ paused = FALSE /\ pauseNo = 0 /\ updateTimer = 0 /\ timeouts = {}
    /\ stopped = FALSE /\ quiet = FALSE
    /\ restarts = 0 /\ refusals = 0 /\ toggles = 0

-----------------------------------------------------------------------------
(* stopTimer and startTimer. Both are synchronous.                         *)

\* Mutated form: a released sleep is cleared but never resolved.
ReleasedUnresolved == at

Released == [r \in Runs |-> IF r \in pendingDelays THEN "woken" ELSE at[r]]

stopTimer ==
    /\ generation' = generation + 1
    /\ pendingDelays' = {}
    /\ at' = Released
    /\ jobs' = jobs \ {job}
    /\ job' = NoSchedule
    /\ digests' = 0

\* onStop of index.js.
Shutdown ==
    /\ ~stopped
    /\ stopped' = TRUE
    /\ stopTimer
    /\ UNCHANGED <<stored, startedIn, firedBy, requests, pause, quiet, refusals, toggles>>

\* What scheduleJob makes of a setting: itself, or the default.
armed(setting) == IF setting \in Compiles THEN setting ELSE Default

\* Mutated form: the new job overwrites the handle without the stop before it.
ArmOver(setting) ==
    LET made == [gen |-> generation + 1, setting |-> armed(setting)] IN
    /\ generation' = generation + 1
    /\ pendingDelays' = {} /\ at' = Released
    /\ job' = made
    /\ jobs' = jobs \cup {made}
    /\ digests' = 1

\* The half of startTimer past its refusal: stopTimer, the digests, the job.
Arm(setting) ==
    LET made == [gen |-> generation + 1, setting |-> armed(setting)] IN
    /\ generation' = generation + 1
    /\ pendingDelays' = {} /\ at' = Released
    /\ job' = made
    /\ jobs' = (jobs \ {job}) \cup {made}
    /\ digests' = 1

\* Mutated forms: an invalid cron is refused with nothing running too; and
\* startDigests without its own stopDigests.
startTimerRefusing(setting) ==
    IF setting \notin Valid
      THEN UNCHANGED <<jobs, job, digests, generation, at, pendingDelays>>
      ELSE Arm(setting)

startTimerDoublingDigests(setting) ==
    IF setting \notin Valid /\ job # NoSchedule
      THEN /\ digests' = digests + 1
           /\ UNCHANGED <<jobs, job, generation, at, pendingDelays>>
      ELSE Arm(setting)

startTimer(setting) ==
    IF setting \notin Valid /\ job # NoSchedule
      THEN /\ digests' = 1
           /\ UNCHANGED <<jobs, job, generation, at, pendingDelays>>
      ELSE Arm(setting)

-----------------------------------------------------------------------------
(* The requests that restart the schedule.                                 *)

\* The write of PATCH /config/cron or /timezone, or of an import, is committed.
\* A refused cron is never written; a timezone may be, beside an invalid cron.
SettingWritten(p, setting) ==
    /\ patch[p] = "idle" /\ restarts < MaxRestarts
    /\ setting \in Valid \/ stored \notin Valid
    /\ stored' = setting
    /\ restarts' = restarts + 1
    /\ patch' = [patch EXCEPT ![p] = "written"]
    /\ UNCHANGED <<jobs, job, digests, generation, runs, read, pause, surroundings>>

\* stopTimer(), and the arguments of startTimer are asked of the database.
PatchStops(p) ==
    /\ patch[p] = "written"
    /\ stopTimer
    /\ patch' = [patch EXCEPT ![p] = "reading"]
    /\ UNCHANGED <<stored, startedIn, firedBy, read, restarts, pause, surroundings>>

\* The database has read the row; its answer is still to be handled.
SettingRead(p) ==
    /\ patch[p] = "reading"
    /\ read' = [read EXCEPT ![p] = stored]
    /\ patch' = [patch EXCEPT ![p] = "read"]
    /\ UNCHANGED <<schedule, runs, restarts, pause, surroundings>>

PatchStarts(p) ==
    /\ patch[p] = "read"
    /\ startTimer(read[p])
    /\ read' = [read EXCEPT ![p] = NoSchedule]
    /\ patch' = [patch EXCEPT ![p] = "idle"]
    /\ UNCHANGED <<stored, startedIn, firedBy, restarts, pause, surroundings>>

\* One of the two reads is refused: the request fails with the schedule stopped.
PatchRefused(p) ==
    /\ patch[p] = "reading" /\ refusals < MaxRefusals
    /\ refusals' = refusals + 1
    /\ patch' = [patch EXCEPT ![p] = "idle"]
    /\ UNCHANGED <<schedule, runs, read, restarts, pause, stopped, quiet, toggles>>

\* factoryReset: the transaction, then the pause and the schedule without an await.
ResetCommitted(p) ==
    /\ patch[p] = "idle" /\ restarts < MaxRestarts
    /\ stored' = Default
    /\ restarts' = restarts + 1
    /\ patch' = [patch EXCEPT ![p] = "resetting"]
    /\ UNCHANGED <<jobs, job, digests, generation, runs, read, pause, surroundings>>

-----------------------------------------------------------------------------
(* The pause.                                                              *)

\* Mutated form: a change of state forgets the timeout without clearing it.
clearTimerForgetting == timeouts

\* What clearTimer leaves armed.
clearTimer == timeouts \ {updateTimer}

\* updateState(true) for good, and resumeIn. A timeout is armed only below the 32
\* bits it holds, so a longer pause is one that nothing but a resume ends.
Pause(timed) ==
    /\ pauseNo < MaxPauses
    /\ paused' = TRUE
    /\ pauseNo' = pauseNo + 1
    /\ updateTimer' = IF timed THEN pauseNo' ELSE 0
    /\ timeouts' = IF timed THEN clearTimer \cup {pauseNo'} ELSE clearTimer
    /\ UNCHANGED <<schedule, runs, requests, surroundings>>

Resume ==
    /\ paused' = FALSE /\ updateTimer' = 0
    /\ timeouts' = clearTimer
    /\ UNCHANGED pauseNo

Continue ==
    /\ paused
    /\ Resume
    /\ UNCHANGED <<schedule, runs, requests, surroundings>>

\* The timeout of pause n fires and calls updateState(false).
ResumeFires(n) ==
    /\ n \in timeouts
    /\ paused' = FALSE /\ updateTimer' = 0
    /\ timeouts' = clearTimer \ {n}
    /\ UNCHANGED <<pauseNo, schedule, runs, requests, surroundings>>

ResetDone(p) ==
    /\ patch[p] = "resetting"
    /\ Resume
    /\ startTimer(Default)
    /\ patch' = [patch EXCEPT ![p] = "idle"]
    /\ UNCHANGED <<stored, startedIn, firedBy, read, restarts, surroundings>>

-----------------------------------------------------------------------------
(* runTask.                                                                *)

Move(r, to) == at' = [at EXCEPT ![r] = to]

\* Mutated form: a run asks only whether the tests are paused.
LastGuardsUnscheduled(r) == Move(r, IF paused THEN "idle" ELSE "round")

\* Behind the last await: the schedule, the pause, and the round.
LastGuards(r) ==
    Move(r, IF startedIn[r] # generation \/ paused THEN "idle" ELSE "round")

\* A job fires. The generation is captured before the first await.
Tick(r, j) ==
    /\ at[r] = "idle" /\ ~paused
    /\ j \in jobs
    /\ Move(r, "quietHours")
    /\ startedIn' = [startedIn EXCEPT ![r] = generation]
    /\ firedBy' = [firedBy EXCEPT ![r] = j]
    /\ UNCHANGED <<pendingDelays, schedule, requests, pause, surroundings>>

\* withinQuietHours. The run of RUN_TEST_ON_STARTUP takes no offset.
QuietHoursAnswered(r) ==
    /\ at[r] \in {"quietHours", "immediate"}
    /\ IF quiet THEN Move(r, "idle")
       ELSE IF at[r] = "immediate" THEN LastGuards(r) ELSE Move(r, "offset")
    /\ UNCHANGED <<startedIn, firedBy, pendingDelays, schedule, requests, pause, surroundings>>

OffsetAnswered(r, enabled) ==
    /\ at[r] = "offset"
    /\ IF enabled
         THEN Move(r, "sleeping") /\ pendingDelays' = pendingDelays \cup {r}
         ELSE LastGuards(r) /\ UNCHANGED pendingDelays
    /\ UNCHANGED <<startedIn, firedBy, schedule, requests, pause, surroundings>>

DelayElapsed(r) ==
    /\ r \in pendingDelays
    /\ pendingDelays' = pendingDelays \ {r}
    /\ Move(r, "woken")
    /\ UNCHANGED <<startedIn, firedBy, schedule, requests, pause, surroundings>>

Woken(r) ==
    /\ at[r] = "woken"
    /\ Move(r, IF startedIn[r] # generation THEN "idle" ELSE "quietAgain")
    /\ UNCHANGED <<startedIn, firedBy, pendingDelays, schedule, requests, pause, surroundings>>

QuietAgainAnswered(r) ==
    /\ at[r] = "quietAgain"
    /\ IF quiet THEN Move(r, "idle") ELSE LastGuards(r)
    /\ UNCHANGED <<startedIn, firedBy, pendingDelays, schedule, requests, pause, surroundings>>

\* A configuration read rejects; the run ends in the caller's catch.
RunRefused(r) ==
    /\ at[r] \in Reading /\ refusals < MaxRefusals
    /\ refusals' = refusals + 1
    /\ Move(r, "idle")
    /\ UNCHANGED <<startedIn, firedBy, pendingDelays, schedule, requests, pause, stopped, quiet, toggles>>

RoundOver(r) ==
    /\ at[r] = "round"
    /\ Move(r, "idle")
    /\ UNCHANGED <<startedIn, firedBy, pendingDelays, schedule, requests, pause, surroundings>>

QuietToggled ==
    /\ toggles < MaxToggles
    /\ toggles' = toggles + 1
    /\ quiet' = ~quiet
    /\ UNCHANGED <<schedule, runs, requests, pause, stopped, refusals>>

-----------------------------------------------------------------------------
RunStep(r) ==
    \/ QuietHoursAnswered(r) \/ (\E enabled \in BOOLEAN : OffsetAnswered(r, enabled))
    \/ DelayElapsed(r) \/ Woken(r) \/ QuietAgainAnswered(r) \/ RoundOver(r)

Next ==
    \/ \E r \in Runs : (\E j \in jobs : Tick(r, j)) \/ RunStep(r) \/ RunRefused(r)
    \/ \E p \in Patches :
         \/ \E setting \in Settings : SettingWritten(p, setting)
         \/ PatchStops(p) \/ SettingRead(p) \/ PatchStarts(p) \/ PatchRefused(p)
         \/ ResetCommitted(p) \/ ResetDone(p)
    \/ (\E timed \in BOOLEAN : Pause(timed)) \/ Continue
    \/ \E n \in 1..MaxPauses : ResumeFires(n)
    \/ QuietToggled
    \/ Shutdown

Spec == Init /\ [][Next]_vars
FairSpec == Spec /\ \A r \in Runs : WF_vars(RunStep(r))

-----------------------------------------------------------------------------
(* What the schedule is for.                                               *)

\* The types, and the sleeping runs are those pendingDelays can release.
TypeOK ==
    /\ stored \in Settings
    /\ jobs \subseteq Jobs
    /\ job \in Jobs \cup {NoSchedule}
    /\ digests \in Nat
    /\ generation \in Nat
    /\ at \in [Runs -> {"idle", "sleeping", "woken", "round"} \cup Reading]
    /\ startedIn \in [Runs -> Nat]
    /\ firedBy \in [Runs -> Jobs]
    /\ pendingDelays = {r \in Runs : at[r] = "sleeping"}
    /\ patch \in [Patches -> {"idle", "written", "reading", "read", "resetting"}]
    /\ read \in [Patches -> Settings \cup {NoSchedule}]
    /\ paused \in BOOLEAN /\ stopped \in BOOLEAN /\ quiet \in BOOLEAN
    /\ pauseNo \in 0..MaxPauses /\ updateTimer \in 0..MaxPauses
    /\ timeouts \subseteq 1..MaxPauses
    /\ restarts \in 0..MaxRestarts /\ refusals \in 0..MaxRefusals /\ toggles \in 0..MaxToggles

\* However the stops and starts of concurrent requests interleave, node-schedule
\* fires one job, and it is the one the module can still cancel.
OneSchedule == jobs = {job} \ {NoSchedule}

\* And one pair of digest jobs, which is there whenever the job is: nobody gets
\* the weekly digest twice, or loses it to a cron that was refused.
OneDigestPair == digests <= 1 /\ (job # NoSchedule => digests = 1)

\* A scheduled round begins only while the job that fired its run is still the
\* schedule in force, and never into a pause: whatever changed while the run read
\* its configuration or slept its offset.
RunIsCurrent ==
    [][\A r \in Runs : at[r] # "round" /\ at'[r] = "round"
         => ~paused /\ firedBy[r] \in jobs]_vars

\* An armed timeout is that of the pause in force: no timeout outlives its pause
\* to end a later one.
TimeoutIsItsPauses == \A n \in timeouts : paused /\ n = pauseNo /\ n = updateTimer

\* A run that has set out ends, the one whose schedule was torn down in its sleep
\* included; nothing strands it.
RunsEnd == \A r \in Runs : at[r] # "idle" ~> at[r] = "idle"

Settled == ~stopped /\ \A p \in Patches : patch[p] = "idle"

\* With no request under way the schedule is what is stored, or the default where
\* that cannot be scheduled.
ScheduleIsStored == Settled => job # NoSchedule /\ job.setting = armed(stored)

\* What /status counts down to while no run sleeps its offset: the next occurrence
\* of the stored cron, whichever job there is; none if isValidCron refuses it.
countdown == IF stored \in Valid THEN stored ELSE NoSchedule

\* "What /status announces is the schedule that is running, not the expression that
\* was refused" (tests/server/timerLifecycle.test.js:166): a moment it names is one at
\* which the job in force will fire.
CountdownIsArmed ==
    Settled /\ pendingDelays = {} /\ countdown # NoSchedule =>
      job # NoSchedule /\ job.setting = countdown
=============================================================================
