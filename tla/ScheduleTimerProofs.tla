------------------------- MODULE ScheduleTimerProofs -------------------------
(***************************************************************************)
(* What holds of ScheduleTimer for any number of runs and of requests that *)
(* restart the schedule. The argument: every teardown advances the         *)
(* generation before it lets go of the job, so a run whose captured        *)
(* generation is still the current one was fired by the job in force.      *)
(***************************************************************************)
EXTENDS ScheduleTimer, TLAPS

USE ScheduleAssumption

\* The strengthening: a generation is never ahead of the counter, and a run of
\* the current one belongs to the job the module holds.
RunsAreDated ==
    \A r \in Runs :
      /\ startedIn[r] <= generation
      /\ startedIn[r] = generation => job # NoSchedule /\ firedBy[r] = job

IInv == TypeOK /\ OneSchedule /\ RunsAreDated

\* What Init, every stop and every start establish of the job.
LEMMA ArmedType == ASSUME NEW setting \in Settings PROVE armed(setting) \in Settings
BY DEF armed

\* The initial state is one job, of generation one, that fired everything.
LEMMA InitIInv == Init => IInv
<1> SUFFICES ASSUME Init PROVE IInv
  OBVIOUS
<1>1. (IF stored \in Compiles THEN stored ELSE Default) \in Settings
  BY DEF Init
<1>2. job \in Jobs /\ jobs = {job}
  BY <1>1 DEF Init, Jobs
<1>3. job # NoSchedule
  BY <1>2 DEF Jobs
<1>4. TypeOK
  <2>1. at \in [Runs -> {"idle", "sleeping", "woken", "round"} \cup Reading]
    BY DEF Init, Reading
  <2>2. pendingDelays = {r \in Runs : at[r] = "sleeping"}
    BY DEF Init
  <2>3. firedBy \in [Runs -> Jobs]
    BY <1>2 DEF Init
  <2>4. /\ patch \in [Patches -> {"idle", "written", "reading", "read", "resetting"}]
        /\ read \in [Patches -> Settings \cup {NoSchedule}]
        /\ startedIn \in [Runs -> Nat]
    BY DEF Init
  <2>5. /\ pauseNo \in 0..MaxPauses /\ updateTimer \in 0..MaxPauses
        /\ timeouts \subseteq 1..MaxPauses
        /\ restarts \in 0..MaxRestarts /\ refusals \in 0..MaxRefusals /\ toggles \in 0..MaxToggles
    BY DEF Init
  <2>6. paused \in BOOLEAN /\ stopped \in BOOLEAN /\ quiet \in BOOLEAN
    BY Zenon DEF Init
  <2>7. stored \in Settings /\ digests \in Nat /\ generation \in Nat
    BY DEF Init
  <2> QED
    BY <1>1, <1>2, <2>1, <2>2, <2>3, <2>4, <2>5, <2>6, <2>7 DEF TypeOK
<1>5. OneSchedule
  BY <1>2, <1>3 DEF OneSchedule
<1>6. RunsAreDated
  BY <1>2, <1>3 DEF Init, RunsAreDated
<1> QED
  BY <1>4, <1>5, <1>6 DEF IInv

\* A stop leaves no job, wakes the sleepers and dates every run.
LEMMA StopKeeps ==
    ASSUME IInv, stopTimer, UNCHANGED <<startedIn, firedBy>>
    PROVE  /\ OneSchedule' /\ RunsAreDated'
           /\ job' = NoSchedule /\ jobs' = {} /\ generation' \in Nat
           /\ at' \in [Runs -> {"idle", "sleeping", "woken", "round"} \cup Reading]
           /\ pendingDelays' = {r \in Runs : at'[r] = "sleeping"}
<1>1. jobs' = {} /\ job' = NoSchedule
  BY DEF IInv, OneSchedule, stopTimer
<1>2. OneSchedule'
  BY <1>1 DEF OneSchedule
<1>3. RunsAreDated'
  BY DEF IInv, TypeOK, RunsAreDated, stopTimer
<1>4. at' \in [Runs -> {"idle", "sleeping", "woken", "round"} \cup Reading]
  BY DEF IInv, TypeOK, stopTimer, Released
<1>5. pendingDelays' = {r \in Runs : at'[r] = "sleeping"}
  BY DEF IInv, TypeOK, stopTimer, Released
<1> QED
  BY <1>1, <1>2, <1>3, <1>4, <1>5 DEF IInv, TypeOK, stopTimer

\* A start keeps the job it was told to keep or leaves the one it made.
LEMMA StartKeeps ==
    ASSUME IInv, NEW setting \in Settings \cup {NoSchedule}, startTimer(setting),
           UNCHANGED <<startedIn, firedBy>>
    PROVE  /\ OneSchedule' /\ RunsAreDated'
           /\ jobs' \subseteq Jobs /\ job' \in Jobs \cup {NoSchedule} /\ generation' \in Nat
           /\ digests' \in Nat
           /\ at' \in [Runs -> {"idle", "sleeping", "woken", "round"} \cup Reading]
           /\ pendingDelays' = {r \in Runs : at'[r] = "sleeping"}
<1>1. CASE UNCHANGED <<jobs, job, generation, at, pendingDelays>> /\ digests' = 1
  BY <1>1 DEF IInv, TypeOK, OneSchedule, RunsAreDated
<1>2. CASE Arm(setting)
  <2> DEFINE made == [gen |-> generation + 1, setting |-> armed(setting)]
  <2>1. made \in Jobs /\ made # NoSchedule
    BY DEF armed, Jobs, IInv, TypeOK
  <2>2. job' = made /\ jobs' = {made}
    BY <1>2 DEF Arm, IInv, OneSchedule
  <2>3. OneSchedule'
    BY <2>1, <2>2 DEF OneSchedule
  <2>4. RunsAreDated'
    BY <1>2 DEF Arm, IInv, TypeOK, RunsAreDated
  <2>5. at' \in [Runs -> {"idle", "sleeping", "woken", "round"} \cup Reading]
    BY <1>2 DEF Arm, IInv, TypeOK, Released
  <2>6. pendingDelays' = {r \in Runs : at'[r] = "sleeping"}
    BY <1>2 DEF Arm, IInv, TypeOK, Released
  <2>7. generation' \in Nat /\ digests' \in Nat
    BY <1>2 DEF Arm, armed, IInv, TypeOK
  <2> QED
    BY <2>1, <2>2, <2>3, <2>4, <2>5, <2>6, <2>7
<1> QED
  BY <1>1, <1>2 DEF startTimer

-----------------------------------------------------------------------------
(* The steps.                                                              *)

\* A step of a run that neither sets out nor tears anything down: only where the
\* runs are suspended changes, and pendingDelays with it.
RunMoves ==
    /\ at' \in [Runs -> {"idle", "sleeping", "woken", "round"} \cup Reading]
    /\ pendingDelays' = {r \in Runs : at'[r] = "sleeping"}
    /\ refusals' \in 0..MaxRefusals
    /\ UNCHANGED <<startedIn, firedBy, schedule, requests, pause, stopped, quiet, toggles>>

LEMMA RunMovesKeeps == ASSUME IInv, RunMoves PROVE IInv'
<1>1. TypeOK'
  BY DEF IInv, TypeOK, RunMoves, schedule, requests, pause
<1>2. OneSchedule' /\ RunsAreDated'
  BY DEF IInv, OneSchedule, RunsAreDated, RunMoves, schedule
<1> QED
  BY <1>1, <1>2 DEF IInv

\* Moving one run keeps pendingDelays the sleeping ones when it does not sleep.
LEMMA MoveAwake ==
    ASSUME TypeOK, NEW r \in Runs, at[r] # "sleeping",
           NEW to \in {"idle", "woken", "round"} \cup Reading,
           Move(r, to), UNCHANGED pendingDelays
    PROVE  /\ at' \in [Runs -> {"idle", "sleeping", "woken", "round"} \cup Reading]
           /\ pendingDelays' = {s \in Runs : at'[s] = "sleeping"}
BY DEF TypeOK, Move, Reading

LEMMA RunStepMoves == ASSUME IInv, NEW r \in Runs, RunStep(r) PROVE RunMoves
<1> USE DEF IInv, surroundings
<1>0. TypeOK /\ refusals \in 0..MaxRefusals
  BY DEF TypeOK
<1>1. CASE QuietHoursAnswered(r)
  <2>1. PICK to \in {"idle", "offset", "round"} : Move(r, to)
    BY <1>1 DEF QuietHoursAnswered, LastGuards
  <2> QED
    BY <1>0, <1>1, <2>1, MoveAwake DEF QuietHoursAnswered, RunMoves, Reading
<1>2. ASSUME NEW enabled \in BOOLEAN, OffsetAnswered(r, enabled) PROVE RunMoves
  <2>1. CASE enabled
    <3>1. Move(r, "sleeping") /\ pendingDelays' = pendingDelays \cup {r}
      BY <1>2, <2>1 DEF OffsetAnswered
    <3> QED
      BY <1>0, <1>2, <3>1 DEF OffsetAnswered, RunMoves, Move, TypeOK
  <2>2. CASE ~enabled
    <3>1. PICK to \in {"idle", "round"} : Move(r, to)
      BY <1>2, <2>2 DEF OffsetAnswered, LastGuards
    <3> QED
      BY <1>0, <1>2, <2>2, <3>1, MoveAwake DEF OffsetAnswered, RunMoves
  <2> QED
    BY <2>1, <2>2
<1>3. CASE DelayElapsed(r)
  BY <1>0, <1>3 DEF DelayElapsed, Move, RunMoves, TypeOK
<1>4. CASE Woken(r)
  <2>1. PICK to \in {"idle", "quietAgain"} : Move(r, to)
    BY <1>4 DEF Woken
  <2> QED
    BY <1>0, <1>4, <2>1, MoveAwake DEF Woken, RunMoves, Reading
<1>5. CASE QuietAgainAnswered(r)
  <2>1. PICK to \in {"idle", "round"} : Move(r, to)
    BY <1>5 DEF QuietAgainAnswered, LastGuards
  <2> QED
    BY <1>0, <1>5, <2>1, MoveAwake DEF QuietAgainAnswered, RunMoves
<1>6. CASE RoundOver(r)
  BY <1>0, <1>6, MoveAwake DEF RoundOver, RunMoves
<1> QED
  BY <1>1, <1>2, <1>3, <1>4, <1>5, <1>6 DEF RunStep

LEMMA RefusedMoves == ASSUME IInv, NEW r \in Runs, RunRefused(r) PROVE RunMoves
<1>1. TypeOK /\ at[r] # "sleeping" /\ refusals' \in 0..MaxRefusals
  BY DEF IInv, TypeOK, RunRefused, Reading
<1>2. /\ at' \in [Runs -> {"idle", "sleeping", "woken", "round"} \cup Reading]
      /\ pendingDelays' = {s \in Runs : at'[s] = "sleeping"}
  BY <1>1, MoveAwake DEF RunRefused
<1> QED
  BY <1>1, <1>2 DEF RunRefused, RunMoves

\* A tick dates its run with the generation of the one job there is.
LEMMA TickKeeps == ASSUME IInv, NEW r \in Runs, NEW j \in jobs, Tick(r, j) PROVE IInv'
<1> USE DEF IInv, surroundings
<1>1. j = job /\ job # NoSchedule /\ j \in Jobs
  BY DEF OneSchedule, TypeOK
<1>2. /\ at' \in [Runs -> {"idle", "sleeping", "woken", "round"} \cup Reading]
      /\ pendingDelays' = {s \in Runs : at'[s] = "sleeping"}
  BY MoveAwake DEF Tick, Reading
<1>3. startedIn' \in [Runs -> Nat] /\ firedBy' \in [Runs -> Jobs]
  BY <1>1 DEF Tick, TypeOK
<1>4. TypeOK'
  BY <1>2, <1>3 DEF Tick, TypeOK, schedule, requests, pause
<1>5. OneSchedule'
  BY DEF Tick, OneSchedule, schedule
<1>6. RunsAreDated'
  BY <1>1 DEF Tick, RunsAreDated, TypeOK, schedule
<1> QED
  BY <1>4, <1>5, <1>6

\* What a request does besides stopping or starting the schedule.
LEMMA PatchKeeps ==
    ASSUME IInv, NEW p \in Patches,
           \/ \E setting \in Settings : SettingWritten(p, setting)
           \/ PatchStops(p) \/ SettingRead(p) \/ PatchStarts(p) \/ PatchRefused(p)
           \/ ResetCommitted(p) \/ ResetDone(p)
    PROVE  IInv'
<1> USE DEF IInv, surroundings, runs, pause
<1>1. ASSUME NEW setting \in Settings, SettingWritten(p, setting) PROVE IInv'
  <2>1. TypeOK'
    BY <1>1 DEF SettingWritten, TypeOK
  <2> QED
    BY <1>1, <2>1 DEF SettingWritten, OneSchedule, RunsAreDated
<1>2. CASE PatchStops(p)
  <2>1. stopTimer /\ UNCHANGED <<startedIn, firedBy>>
    BY <1>2 DEF PatchStops
  <2>2. TypeOK'
    BY <1>2, <2>1, StopKeeps DEF PatchStops, TypeOK, stopTimer
  <2> QED
    BY <2>1, <2>2, StopKeeps
<1>3. CASE SettingRead(p)
  <2>1. TypeOK'
    BY <1>3 DEF SettingRead, TypeOK, schedule
  <2> QED
    BY <1>3, <2>1 DEF SettingRead, OneSchedule, RunsAreDated, schedule
<1>4. CASE PatchStarts(p)
  <2>1. startTimer(read[p]) /\ UNCHANGED <<startedIn, firedBy>>
    BY <1>4 DEF PatchStarts
  <2>2. read[p] \in Settings \cup {NoSchedule}
    BY DEF TypeOK
  <2>3. TypeOK'
    BY <1>4, <2>1, <2>2, StartKeeps DEF PatchStarts, TypeOK
  <2> QED
    BY <2>1, <2>2, <2>3, StartKeeps
<1>5. CASE PatchRefused(p)
  <2>1. TypeOK'
    BY <1>5 DEF PatchRefused, TypeOK, schedule
  <2> QED
    BY <1>5, <2>1 DEF PatchRefused, OneSchedule, RunsAreDated, schedule
<1>6. CASE ResetCommitted(p)
  <2>1. TypeOK'
    BY <1>6 DEF ResetCommitted, TypeOK
  <2> QED
    BY <1>6, <2>1 DEF ResetCommitted, OneSchedule, RunsAreDated
<1>7. CASE ResetDone(p)
  <2>1. startTimer(Default) /\ UNCHANGED <<startedIn, firedBy>>
    BY <1>7 DEF ResetDone
  <2>2. Default \in Settings \cup {NoSchedule}
    OBVIOUS
  <2>3. paused' \in BOOLEAN
    BY <1>7, Zenon DEF ResetDone, Resume
  <2>4. /\ pauseNo' \in 0..MaxPauses /\ updateTimer' \in 0..MaxPauses
        /\ timeouts' \subseteq 1..MaxPauses
    BY <1>7 DEF ResetDone, TypeOK, Resume, clearTimer
  <2>5. TypeOK'
    BY <1>7, <2>1, <2>2, <2>3, <2>4, StartKeeps DEF ResetDone, TypeOK
  <2> QED
    BY <2>1, <2>2, <2>5, StartKeeps
<1> QED
  BY <1>1, <1>2, <1>3, <1>4, <1>5, <1>6, <1>7

\* The pause touches neither the schedule nor the runs.
LEMMA PauseKeeps ==
    ASSUME IInv,
           \/ \E timed \in BOOLEAN : Pause(timed)
           \/ Continue
           \/ \E n \in 1..MaxPauses : ResumeFires(n)
    PROVE  IInv'
<1> USE DEF IInv, surroundings, runs, requests
<1>1. UNCHANGED <<schedule, runs, requests, surroundings>>
  BY DEF Pause, Continue, ResumeFires
<1>2. paused' \in BOOLEAN
  BY Zenon DEF Pause, Continue, Resume, ResumeFires
<1>3. /\ pauseNo' \in 0..MaxPauses /\ updateTimer' \in 0..MaxPauses
      /\ timeouts' \subseteq 1..MaxPauses
  <2>1. ASSUME NEW timed \in BOOLEAN, Pause(timed) PROVE <1>3!1 /\ <1>3!2
    BY <2>1 DEF Pause, TypeOK, clearTimer
  <2>2. CASE Continue
    BY <2>2 DEF Continue, Resume, TypeOK, clearTimer
  <2>3. ASSUME NEW n \in 1..MaxPauses, ResumeFires(n) PROVE <1>3!1 /\ <1>3!2
    BY <2>3 DEF ResumeFires, TypeOK, clearTimer
  <2> QED
    BY <2>1, <2>2, <2>3
<1>4. TypeOK'
  BY <1>1, <1>2, <1>3 DEF TypeOK, schedule
<1> QED
  BY <1>1, <1>4 DEF OneSchedule, RunsAreDated, schedule

LEMMA NextKeeps == ASSUME IInv, [Next]_vars PROVE IInv'
<1>1. CASE \E r \in Runs : (\E j \in jobs : Tick(r, j)) \/ RunStep(r) \/ RunRefused(r)
  BY <1>1, TickKeeps, RunStepMoves, RefusedMoves, RunMovesKeeps
<1>2. CASE \E p \in Patches :
             \/ \E setting \in Settings : SettingWritten(p, setting)
             \/ PatchStops(p) \/ SettingRead(p) \/ PatchStarts(p) \/ PatchRefused(p)
             \/ ResetCommitted(p) \/ ResetDone(p)
  BY <1>2, PatchKeeps
<1>3. CASE (\E timed \in BOOLEAN : Pause(timed)) \/ Continue \/ \E n \in 1..MaxPauses : ResumeFires(n)
  BY <1>3, PauseKeeps
<1>4. CASE QuietToggled
  <2>1. TypeOK'
    BY <1>4 DEF IInv, TypeOK, QuietToggled, schedule, runs, requests, pause
  <2> QED
    BY <1>4, <2>1 DEF IInv, OneSchedule, RunsAreDated, QuietToggled, schedule, runs
<1>5. CASE Shutdown
  <2>1. stopTimer /\ UNCHANGED <<startedIn, firedBy>>
    BY <1>5 DEF Shutdown
  <2>2. TypeOK'
    BY <1>5, <2>1, StopKeeps DEF IInv, Shutdown, TypeOK, stopTimer, requests, pause
  <2> QED
    BY <2>1, <2>2, StopKeeps DEF IInv
<1>6. CASE UNCHANGED vars
  <2>1. TypeOK'
    BY <1>6 DEF IInv, TypeOK, vars, schedule, runs, requests, pause, surroundings
  <2> QED
    BY <1>6, <2>1 DEF IInv, OneSchedule, RunsAreDated, vars, schedule, runs
<1> QED
  BY <1>1, <1>2, <1>3, <1>4, <1>5, <1>6 DEF Next

-----------------------------------------------------------------------------
(* The theorems.                                                           *)

\* However many requests restart the schedule at once, node-schedule fires one
\* job, and it is the one the module holds.
THEOREM ScheduleCorrect == Spec => [](TypeOK /\ OneSchedule)
<1>1. Init => IInv
  BY InitIInv
<1>2. IInv /\ [Next]_vars => IInv'
  BY NextKeeps
<1>3. IInv => TypeOK /\ OneSchedule
  BY DEF IInv
<1> QED
  BY <1>1, <1>2, <1>3, PTL DEF Spec

\* The body of RunIsCurrent.
RunBeginsCurrent ==
    \A r \in Runs : at[r] # "round" /\ at'[r] = "round" => ~paused /\ firedBy[r] \in jobs

\* Only a run's own guards take it to the round, and they ask for the generation
\* that RunsAreDated ties to the job.
LEMMA GuardsHold == ASSUME IInv, Next PROVE RunBeginsCurrent
<1> SUFFICES ASSUME NEW r \in Runs, at[r] # "round", at'[r] = "round"
             PROVE  ~paused /\ firedBy[r] \in jobs
  BY DEF RunBeginsCurrent
<1> USE DEF IInv
<1>1. at \in [Runs -> {"idle", "sleeping", "woken", "round"} \cup Reading]
  BY DEF TypeOK
<1>2. ASSUME LastGuards(r) PROVE ~paused /\ firedBy[r] \in jobs
  <2>1. startedIn[r] = generation /\ ~paused
    BY <1>1, <1>2 DEF LastGuards, Move
  <2> QED
    BY <2>1 DEF RunsAreDated, OneSchedule
<1>3. \A s \in Runs : \A place : Move(s, place) => (s = r /\ place = "round")
  BY <1>1 DEF Move
<1>4. ASSUME NEW s \in Runs, RunStep(s) PROVE LastGuards(r)
  BY <1>1, <1>3, <1>4 DEF RunStep, QuietHoursAnswered, OffsetAnswered, DelayElapsed, Woken,
                          QuietAgainAnswered, RoundOver, LastGuards
<1>5. ASSUME NEW s \in Runs, NEW j \in jobs, Tick(s, j) PROVE FALSE
  BY <1>3, <1>5 DEF Tick
<1>6. ASSUME NEW s \in Runs, RunRefused(s) PROVE FALSE
  BY <1>3, <1>6 DEF RunRefused
<1>7. Released[r] # "round" /\ at'[r] # at[r] /\ at'[r] # Released[r]
  BY DEF Released
<1>8. ASSUME NEW p \in Patches,
             \/ \E setting \in Settings : SettingWritten(p, setting)
             \/ PatchStops(p) \/ SettingRead(p) \/ PatchStarts(p) \/ PatchRefused(p)
             \/ ResetCommitted(p) \/ ResetDone(p)
      PROVE  FALSE
  BY <1>7, <1>8 DEF SettingWritten, PatchStops, SettingRead, PatchStarts, PatchRefused,
                    ResetCommitted, ResetDone, stopTimer, startTimer, Arm, runs
<1>9. ~(\E timed \in BOOLEAN : Pause(timed)) /\ ~Continue /\ ~(\E n \in 1..MaxPauses : ResumeFires(n))
      /\ ~QuietToggled
  BY <1>7 DEF Pause, Continue, ResumeFires, QuietToggled, runs
<1>10. ~Shutdown
  BY <1>7 DEF Shutdown, stopTimer
<1> QED
  BY <1>2, <1>4, <1>5, <1>6, <1>8, <1>9, <1>10 DEF Next

\* No round begins into a pause or for a schedule that has been replaced.
THEOREM RunsAreCurrent == Spec => RunIsCurrent
<1>1. Spec => []IInv
  BY InitIInv, NextKeeps, PTL DEF Spec
<1>2. IInv /\ [Next]_vars => [RunBeginsCurrent]_vars
  BY GuardsHold
<1> QED
  BY <1>1, <1>2, PTL DEF Spec, RunIsCurrent, RunBeginsCurrent

-----------------------------------------------------------------------------
(* The digests and the timeouts of the pause.                              *)

PairAndTimeout == OneDigestPair /\ TimeoutIsItsPauses

\* Whatever a step does to the pause, it clears the timeout of the one before.
LEMMA PauseDisarms ==
    ASSUME IInv, TimeoutIsItsPauses,
           \/ \E timed \in BOOLEAN : Pause(timed)
           \/ Resume
           \/ \E n \in 1..MaxPauses : ResumeFires(n)
    PROVE  TimeoutIsItsPauses'
<1>1. clearTimer = {}
  BY DEF TimeoutIsItsPauses, clearTimer
<1>2. ASSUME NEW timed \in BOOLEAN, Pause(timed) PROVE TimeoutIsItsPauses'
  <2>1. timeouts' \subseteq {pauseNo'} /\ (timeouts' # {} => timed)
    BY <1>1, <1>2 DEF Pause
  <2>2. paused' /\ (timed => updateTimer' = pauseNo')
    BY <1>2 DEF Pause
  <2> QED
    BY <2>1, <2>2 DEF TimeoutIsItsPauses
<1>3. CASE Resume
  BY <1>1, <1>3 DEF Resume, TimeoutIsItsPauses
<1>4. ASSUME NEW n \in 1..MaxPauses, ResumeFires(n) PROVE TimeoutIsItsPauses'
  BY <1>1, <1>4 DEF ResumeFires, TimeoutIsItsPauses
<1> QED
  BY <1>2, <1>3, <1>4

\* A start leaves the one pair, refused or not.
LEMMA StartPairs ==
    ASSUME OneDigestPair, NEW setting, startTimer(setting)
    PROVE  OneDigestPair'
BY DEF startTimer, Arm, OneDigestPair

LEMMA PairInit == Init => PairAndTimeout
BY DEF Init, PairAndTimeout, OneDigestPair, TimeoutIsItsPauses

LEMMA PairStep == IInv /\ PairAndTimeout /\ [Next]_vars => PairAndTimeout'
<1> SUFFICES ASSUME IInv, PairAndTimeout, [Next]_vars PROVE PairAndTimeout'
  OBVIOUS
<1> USE DEF PairAndTimeout
<1>1. UNCHANGED <<schedule, pause>> => PairAndTimeout'
  BY DEF OneDigestPair, TimeoutIsItsPauses, schedule, pause
<1>2. UNCHANGED <<digests, job>> => OneDigestPair'
  BY DEF OneDigestPair
<1>3. UNCHANGED pause => TimeoutIsItsPauses'
  BY DEF TimeoutIsItsPauses, pause
<1>4. stopTimer => OneDigestPair'
  BY DEF stopTimer, OneDigestPair
<1>5. ASSUME NEW r \in Runs, (\E j \in jobs : Tick(r, j)) \/ RunStep(r) \/ RunRefused(r)
      PROVE  PairAndTimeout'
  BY <1>1, <1>5 DEF Tick, RunRefused, RunStep, QuietHoursAnswered, OffsetAnswered,
                    DelayElapsed, Woken, QuietAgainAnswered, RoundOver
<1>6. ASSUME NEW p \in Patches,
             \/ \E setting \in Settings : SettingWritten(p, setting)
             \/ SettingRead(p) \/ PatchRefused(p) \/ ResetCommitted(p)
      PROVE  PairAndTimeout'
  BY <1>2, <1>3, <1>6 DEF SettingWritten, SettingRead, PatchRefused, ResetCommitted, schedule
<1>7. ASSUME NEW p \in Patches, PatchStops(p) PROVE PairAndTimeout'
  BY <1>3, <1>4, <1>7 DEF PatchStops
<1>8. ASSUME NEW p \in Patches, PatchStarts(p) PROVE PairAndTimeout'
  BY <1>3, <1>8, StartPairs DEF PatchStarts
<1>9. ASSUME NEW p \in Patches, ResetDone(p) PROVE PairAndTimeout'
  BY <1>9, StartPairs, PauseDisarms DEF ResetDone
<1>10. CASE \/ \E timed \in BOOLEAN : Pause(timed)
            \/ Continue
            \/ \E n \in 1..MaxPauses : ResumeFires(n)
  <2>1. UNCHANGED schedule
    BY <1>10 DEF Pause, Continue, ResumeFires
  <2>2. \/ \E timed \in BOOLEAN : Pause(timed)
        \/ Resume
        \/ \E n \in 1..MaxPauses : ResumeFires(n)
    BY <1>10 DEF Continue
  <2> QED
    BY <1>2, <2>1, <2>2, PauseDisarms DEF schedule
<1>11. CASE QuietToggled
  BY <1>1, <1>11 DEF QuietToggled
<1>12. CASE Shutdown
  BY <1>3, <1>4, <1>12 DEF Shutdown
<1>13. CASE UNCHANGED vars
  BY <1>1, <1>13 DEF vars
<1> QED
  BY <1>5, <1>6, <1>7, <1>8, <1>9, <1>10, <1>11, <1>12, <1>13 DEF Next

\* For any number of requests, ticks and pauses there is one pair of digest jobs
\* beside the schedule, and no timeout is left to end a later pause.
THEOREM PairAndTimeoutCorrect == Spec => [](OneDigestPair /\ TimeoutIsItsPauses)
<1>1. PairAndTimeout => OneDigestPair /\ TimeoutIsItsPauses
  BY DEF PairAndTimeout
<1> QED
  BY InitIInv, NextKeeps, PairInit, PairStep, <1>1, PTL DEF Spec

-----------------------------------------------------------------------------
(* One request at a time, of a database that answers.                      *)

\* From the stop to the start there is no job, and what is started is stored.
RestartInv ==
    /\ ScheduleIsStored
    /\ \A p \in Patches :
         /\ patch[p] \in {"reading", "read"} => job = NoSchedule
         /\ patch[p] = "read" => read[p] = stored
         /\ patch[p] = "resetting" => stored = Default

LEMMA RestartInit == Init => RestartInv
<1> SUFFICES ASSUME Init PROVE RestartInv
  OBVIOUS
<1>1. job \in Jobs /\ job.setting = armed(stored)
  BY DEF Init, Jobs, armed
<1>2. job # NoSchedule
  BY <1>1 DEF Jobs
<1> QED
  BY <1>1, <1>2 DEF Init, RestartInv, ScheduleIsStored

\* Starting with what is stored leaves the job of it, unless one is kept.
LEMMA StartStored ==
    ASSUME TypeOK, startTimer(stored), job = NoSchedule \/ stored \in Valid
    PROVE  job' # NoSchedule /\ job'.setting = armed(stored)
<1>1. Arm(stored)
  BY DEF startTimer
<1>2. job' = [gen |-> generation + 1, setting |-> armed(stored)]
  BY <1>1 DEF Arm
<1>3. job' \in Jobs
  BY <1>2, ArmedType DEF TypeOK, Jobs
<1> QED
  BY <1>2, <1>3 DEF Jobs

LEMMA RestartStep ==
    ASSUME NEW only, Patches = {only}, MaxRefusals = 0
    PROVE  IInv /\ RestartInv /\ [Next]_vars => RestartInv'
<1> SUFFICES ASSUME IInv, RestartInv, [Next]_vars PROVE RestartInv'
  OBVIOUS
<1> USE DEF RestartInv
<1>0. TypeOK /\ patch \in [Patches -> {"idle", "written", "reading", "read", "resetting"}]
  BY DEF IInv, TypeOK
<1>1. UNCHANGED <<stored, job, patch, read, stopped>> => RestartInv'
  BY DEF ScheduleIsStored, Settled
<1>2. ASSUME NEW r \in Runs, (\E j \in jobs : Tick(r, j)) \/ RunStep(r) \/ RunRefused(r)
      PROVE  RestartInv'
  <2>1. UNCHANGED <<stored, job, patch, read, stopped>>
    BY <1>2 DEF Tick, RunRefused, RunStep, QuietHoursAnswered, OffsetAnswered, DelayElapsed,
                Woken, QuietAgainAnswered, RoundOver, schedule, requests, surroundings
  <2> QED
    BY <1>1, <2>1
<1>3. ASSUME NEW p \in Patches, NEW setting \in Settings, SettingWritten(p, setting) PROVE RestartInv'
  BY <1>0, <1>3 DEF SettingWritten, ScheduleIsStored, Settled
<1>4. ASSUME NEW p \in Patches, PatchStops(p) PROVE RestartInv'
  BY <1>0, <1>4 DEF PatchStops, stopTimer, ScheduleIsStored, Settled
<1>5. ASSUME NEW p \in Patches, SettingRead(p) PROVE RestartInv'
  <2>1. read' = [read EXCEPT ![p] = stored] /\ p = only /\ read \in [Patches -> Settings \cup {NoSchedule}]
    BY <1>5 DEF SettingRead, IInv, TypeOK
  <2> QED
    BY <1>0, <1>5, <2>1 DEF SettingRead, schedule, ScheduleIsStored, Settled
<1>6. ASSUME NEW p \in Patches, PatchStarts(p) PROVE RestartInv'
  <2>1. startTimer(stored) /\ job = NoSchedule /\ stored' = stored
    BY <1>6 DEF PatchStarts
  <2>2. ScheduleIsStored'
    BY <1>0, <2>1, StartStored DEF ScheduleIsStored, armed
  <2> QED
    BY <1>0, <1>6, <2>2 DEF PatchStarts
<1>7. ASSUME NEW p \in Patches, PatchRefused(p) PROVE FALSE
  BY <1>7 DEF PatchRefused, IInv, TypeOK
<1>8. ASSUME NEW p \in Patches, ResetCommitted(p) PROVE RestartInv'
  BY <1>0, <1>8 DEF ResetCommitted, ScheduleIsStored, Settled
<1>9. ASSUME NEW p \in Patches, ResetDone(p) PROVE RestartInv'
  <2>1. startTimer(stored) /\ stored \in Valid /\ stored' = stored
    BY <1>9 DEF ResetDone
  <2>2. ScheduleIsStored'
    BY <1>0, <2>1, StartStored DEF ScheduleIsStored, armed
  <2> QED
    BY <1>0, <1>9, <2>2 DEF ResetDone
<1>10. CASE \/ \E timed \in BOOLEAN : Pause(timed)
            \/ Continue
            \/ \E n \in 1..MaxPauses : ResumeFires(n)
            \/ QuietToggled
  BY <1>1, <1>10 DEF Pause, Continue, ResumeFires, QuietToggled, schedule, requests, surroundings
<1>11. CASE Shutdown
  BY <1>11 DEF Shutdown, stopTimer, ScheduleIsStored, Settled, requests
<1>12. CASE UNCHANGED vars
  BY <1>1, <1>12 DEF vars, schedule, requests, surroundings
<1> QED
  BY <1>2, <1>3, <1>4, <1>5, <1>6, <1>7, <1>8, <1>9, <1>10, <1>11, <1>12 DEF Next

\* With one request at a time and no refused read - the two ways in which the code
\* can lose it - the schedule at rest is what is stored, for any settings.
THEOREM StoredIsScheduled ==
    ASSUME NEW only, Patches = {only}, MaxRefusals = 0
    PROVE  Spec => []ScheduleIsStored
<1>1. IInv /\ RestartInv /\ [Next]_vars => RestartInv'
  BY RestartStep
<1>2. RestartInv => ScheduleIsStored
  BY DEF RestartInv
<1> QED
  BY InitIInv, NextKeeps, RestartInit, <1>1, <1>2, PTL DEF Spec

-----------------------------------------------------------------------------
(* That nothing strands a run.                                             *)

\* How many of its steps a run may still have before it.
Ahead(place) ==
    CASE place \in {"quietHours", "immediate"} -> 6
      [] place = "offset" -> 5
      [] place = "sleeping" -> 4
      [] place = "woken" -> 3
      [] place = "quietAgain" -> 2
      [] place = "round" -> 1
      [] OTHER -> 0

\* A run that has set out only comes nearer its end, whoever moves it; each step of
\* its own moves it; and what advances the generation leaves no run of an earlier
\* one asleep on a timeout that has been cleared.
RunGoesForward(r) ==
    /\ at[r] # "idle" => at'[r] = at[r] \/ Ahead(at'[r]) < Ahead(at[r])
    /\ RunStep(r) => at'[r] # at[r]
    /\ generation' # generation => at'[r] # "sleeping"

NoneIsStranded == [][\A r \in Runs : RunGoesForward(r)]_vars

\* A step of a run's own takes it on.
LEMMA StepGoesForward ==
    ASSUME IInv, NEW r \in Runs, RunStep(r)
    PROVE  /\ \E place : Move(r, place) /\ Ahead(place) < Ahead(at[r])
           /\ generation' = generation
<1> USE DEF Ahead, schedule, IInv, TypeOK
<1>1. CASE QuietHoursAnswered(r)
  BY <1>1 DEF QuietHoursAnswered, LastGuards
<1>2. CASE \E enabled \in BOOLEAN : OffsetAnswered(r, enabled)
  BY <1>2 DEF OffsetAnswered, LastGuards
<1>3. CASE DelayElapsed(r)
  BY <1>3 DEF DelayElapsed
<1>4. CASE Woken(r)
  BY <1>4 DEF Woken
<1>5. CASE QuietAgainAnswered(r)
  BY <1>5 DEF QuietAgainAnswered, LastGuards
<1>6. CASE RoundOver(r)
  BY <1>6 DEF RoundOver
<1> QED
  BY <1>1, <1>2, <1>3, <1>4, <1>5, <1>6 DEF RunStep

\* Everything else leaves it, ends it or wakes it.
LEMMA AllGoForward == ASSUME IInv, Next PROVE \A r \in Runs : RunGoesForward(r)
<1> SUFFICES ASSUME NEW r \in Runs PROVE RunGoesForward(r)
  OBVIOUS
<1>1. /\ at \in [Runs -> {"idle", "sleeping", "woken", "round"} \cup Reading]
      /\ pendingDelays = {s \in Runs : at[s] = "sleeping"}
  BY DEF IInv, TypeOK
<1>2. \A s \in Runs : \A place : Move(s, place) => at'[r] = IF s = r THEN place ELSE at[r]
  BY <1>1 DEF Move
<1>3. /\ Ahead("idle") = 0
      /\ \A place \in Reading : Ahead(place) > 0
      /\ \A place : ~(Ahead(place) < Ahead(place))
  BY DEF Ahead, Reading
<1>4. RunStep(r) => at'[r] # at[r]
  BY <1>2, <1>3, StepGoesForward
<1>5. ASSUME generation' = generation,
             at[r] # "idle" => at'[r] = at[r] \/ Ahead(at'[r]) < Ahead(at[r])
      PROVE  RunGoesForward(r)
  BY <1>4, <1>5 DEF RunGoesForward
<1>6. ASSUME at' = Released PROVE RunGoesForward(r)
  BY <1>1, <1>4, <1>6 DEF RunGoesForward, Released, Ahead
<1>7. ASSUME NEW s \in Runs, RunStep(s) PROVE RunGoesForward(r)
  BY <1>2, <1>5, <1>7, StepGoesForward
<1>8. ASSUME NEW s \in Runs, NEW j \in jobs, Tick(s, j) PROVE RunGoesForward(r)
  BY <1>2, <1>5, <1>8 DEF Tick, schedule
<1>9. ASSUME NEW s \in Runs, RunRefused(s) PROVE RunGoesForward(r)
  <2>1. generation' = generation /\ at[s] \in Reading /\ Move(s, "idle")
    BY <1>9 DEF RunRefused, schedule
  <2>2. at'[r] = at[r] \/ Ahead(at'[r]) < Ahead(at[r])
    BY <1>2, <1>3, <2>1
  <2> QED
    BY <1>5, <2>1, <2>2
<1>10. ASSUME NEW p \in Patches,
              \/ \E setting \in Settings : SettingWritten(p, setting)
              \/ PatchStops(p) \/ SettingRead(p) \/ PatchStarts(p) \/ PatchRefused(p)
              \/ ResetCommitted(p) \/ ResetDone(p)
       PROVE  RunGoesForward(r)
  <2>1. ASSUME NEW setting, startTimer(setting) PROVE at' = Released \/ (at' = at /\ generation' = generation)
    BY <2>1 DEF startTimer, Arm
  <2>2. CASE PatchStops(p)
    BY <1>6, <2>2 DEF PatchStops, stopTimer
  <2>3. CASE PatchStarts(p) \/ ResetDone(p)
    BY <1>5, <1>6, <2>1, <2>3 DEF PatchStarts, ResetDone
  <2>4. CASE \/ \E setting \in Settings : SettingWritten(p, setting)
             \/ SettingRead(p) \/ PatchRefused(p) \/ ResetCommitted(p)
    <3>1. at' = at /\ generation' = generation
      BY <2>4 DEF SettingWritten, SettingRead, PatchRefused, ResetCommitted, runs, schedule
    <3> QED
      BY <1>5, <3>1
  <2> QED
    BY <1>10, <2>2, <2>3, <2>4
<1>11. CASE \/ \E timed \in BOOLEAN : Pause(timed)
            \/ Continue
            \/ \E n \in 1..MaxPauses : ResumeFires(n)
            \/ QuietToggled
  BY <1>5, <1>11 DEF Pause, Continue, ResumeFires, QuietToggled, runs, schedule
<1>12. CASE Shutdown
  BY <1>6, <1>12 DEF Shutdown, stopTimer
<1> QED
  BY <1>7, <1>8, <1>9, <1>10, <1>11, <1>12 DEF Next

\* What RunsEnd rests on, for any number of runs and requests: of six steps at most
\* is a run, none of them leads back, and no teardown leaves a run asleep for good.
THEOREM RunsGoForward == Spec => NoneIsStranded
<1>1. Spec => []IInv
  BY InitIInv, NextKeeps, PTL DEF Spec
<1>2. IInv /\ [Next]_vars => [\A r \in Runs : RunGoesForward(r)]_vars
  BY AllGoForward
<1> QED
  BY <1>1, <1>2, PTL DEF Spec, NoneIsStranded
=============================================================================
