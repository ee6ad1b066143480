---------------------------- MODULE SpeedtestRound ----------------------------
(***************************************************************************)
(* The test round of src/server/tasks/speedtest.js: the run latch, the     *)
(* manual and the scheduled way in, the member loop with its guards, the   *)
(* retry, the row every member leaves, the count of members that could not *)
(* record, and the one completion event, which is handed over with the     *)
(* release of the latch and delivered at any time after it.                *)
(*                                                                         *)
(* The program is one JavaScript thread: code runs to completion between   *)
(* two awaits. at[c] names the await at which the call c is suspended.     *)
(* Some places are not awaits but points in the middle of a stretch that   *)
(* nothing interrupts, "top" and "finishing" among them; while a call      *)
(* stands there nobody else moves (Busy, EventLoop).                       *)
(***************************************************************************)
EXTENDS Naturals, FiniteSets

CONSTANTS
    Callers,     \* calls of POST /run and of runTask that may be in flight
    Targets,     \* target ids, in sortOrder
    Providers,
    ProviderOf,  \* the provider of each member
    Demo,        \* the pretended member of a demo; it is no row of the table
    NoTarget,
    MaxChanges   \* how often the surroundings change in one behaviour

ASSUME RoundAssumption ==
    /\ Targets \subseteq Nat
    /\ IsFiniteSet(Targets)
    /\ Demo \notin Targets /\ NoTarget \notin Targets /\ Demo # NoTarget
    /\ ProviderOf \in [Targets \cup {Demo} -> Providers]
    /\ MaxChanges \in Nat

VARIABLES
    at,          \* where each call is suspended
    call,        \* the locals of each call
    running,     \* _isRunning
    keepAlive,   \* currentState of tasks/integrations.js
    report,      \* what executeRound last handed over to be sent about a round
    table,       \* the targets table; Demo is a row that never exists
    latest,      \* the newest row of each target; "aged" is a failure past 24 hours
    held,        \* the providers with a rate-limit hold
    paused, quiet, shuttingDown,
    dbUp,        \* whether the database answers
    preview,     \* PREVIEW_MODE, for the life of the process: its one member is Demo
    changes,
    moments      \* ghost: what table and rows have been since a verdict read the table

code == <<at, call, running, keepAlive, report, latest, held>>
surroundings == <<table, paused, quiet, shuttingDown, dbUp, changes, preview, moments>>
vars == <<code, surroundings>>

\* Whom a round may have as a member.
Members == Targets \cup {Demo}
MAX_CONSECUTIVE_ESCAPES == 2

\* In flight but without the latch; holding the latch; announced and not yet released.
Asking == {"counting", "checking"}
InRound == {"top", "quietHours", "reading", "measuring", "recording", "failing",
            "after", "settling", "verdict", "rows"}
HoldsLatch == InRound \cup {"members"}

Settings == [exists : BOOLEAN, enabled : BOOLEAN, alerts : BOOLEAN]
Outcomes == {"none", "ok", "failed", "aged"}

\* The locals of create, executeRound, executeTarget and, from listed on, of
\* watchedFailureStands: the targets it listed, those whose newest row it still
\* waits for and whether one of the others stood. rows and unproven are not in the
\* code: the rows this round wrote for each member, and the alerting members it
\* began measuring and has no recorded success of.
Locals == [type : {"auto", "custom"}, named : Targets \cup {NoTarget},
           left : SUBSET Members, cur : Members \cup {NoTarget},
           alerts : BOOLEAN, retried : BOOLEAN, failed : BOOLEAN,
           escapes : 0..MAX_CONSECUTIVE_ESCAPES, failures : Nat,
           rows : [Members -> Nat], unproven : SUBSET Members,
           listed : [Members -> Settings], asked : SUBSET (Members \cup {NoTarget}),
           stood : BOOLEAN]

NoCall == [type |-> "auto", named |-> NoTarget, left |-> {}, cur |-> NoTarget,
           alerts |-> FALSE, retried |-> FALSE, failed |-> FALSE,
           escapes |-> 0, failures |-> 0,
           rows |-> [m \in Members |-> 0], unproven |-> {},
           listed |-> [m \in Members |-> [exists |-> FALSE, enabled |-> FALSE, alerts |-> FALSE]],
           asked |-> {}, stood |-> FALSE]

Init ==
    /\ at = [c \in Callers |-> "idle"]
    /\ call = [c \in Callers |-> NoCall]
    /\ running = FALSE
    /\ keepAlive = "ping"
    /\ report = "none"
    /\ table \in [Members -> [exists : BOOLEAN, enabled : BOOLEAN, alerts : {TRUE}]]
    /\ \A m \in Members : table[m].exists = (m # Demo) /\ (m = Demo => table[m].enabled)
    /\ latest = [m \in Members |-> "none"]
    /\ held = {}
    /\ paused = FALSE /\ quiet = FALSE /\ shuttingDown = FALSE
    /\ dbUp = TRUE
    /\ preview \in BOOLEAN
    /\ changes = 0
    /\ moments = {}

-----------------------------------------------------------------------------
(* What the round reads.                                                   *)

Existing == {t \in Members : table[t].exists}

\* controller/targets.js roundTargets
roundTargets == {t \in Existing : table[t].enabled}

roundMembers(named) ==
    IF preview THEN {Demo}
    ELSE IF named # NoTarget THEN {named} \cap Existing
    ELSE roundTargets

memberHeld(t, type) ==
    /\ type = "auto"
    /\ ~preview
    /\ ProviderOf[t] \in held

roundFullyHeld(members, type) ==
    members # {} /\ \A t \in members : memberHeld(t, type)

stale(t, named) ==
    \/ ~table[t].exists
    \/ named = NoTarget /\ ~table[t].enabled

\* controller/targets.js alertingScope, of the targets as they were listed.
watched(listed) == {t \in Members : listed[t].exists /\ listed[t].alerts}

\* A failure of a watched target stands until its schedule replaces it; without a
\* schedule it speaks for a day.
standing(t, listed, newest) ==
    /\ t \in watched(listed)
    /\ newest[t] = "failed" \/ (newest[t] = "aged" /\ listed[t].enabled)

IsFirst(t, members) == t \in members /\ \A u \in members : u # t => t < u

-----------------------------------------------------------------------------
(* The event loop. A call in a synchronous stretch is the only one to move. *)

\* Mutated form: something is awaited between executeRound's finally and create's.
BusyUntilReleased(c) ==
    \/ at[c] = "top"
    \/ at[c] = "reading" /\ preview
    \/ at[c] = "verdict" /\ (preview \/ call[c].failures > 0)
    \/ at[c] = "rows" /\ call[c].asked = {}

\* Only microtasks are left to the next stretch: no member to look up, a verdict
\* that needs no read or has all its answers, the two finallys.
Busy(c) ==
    \/ at[c] = "top"
    \/ at[c] = "reading" /\ preview
    \/ at[c] = "verdict" /\ (preview \/ call[c].failures > 0)
    \/ at[c] = "rows" /\ call[c].asked = {}
    \/ at[c] = "finishing"

EventLoop == \A c \in Callers : ~Busy(c)

\* An await of the database is refused: because the database is gone, or
\* because it will not take this one statement.
Refusals == IF dbUp THEN {"refused"} ELSE {"outage"}

-----------------------------------------------------------------------------
(* The ways in.                                                            *)

\* POST /run up to its first await: a paused instance answers 410.
RunRequested(c, named) ==
    /\ EventLoop /\ at[c] = "idle" /\ ~paused
    /\ at' = [at EXCEPT ![c] = IF preview THEN "checking" ELSE "counting"]
    /\ call' = [call EXCEPT ![c] = [NoCall EXCEPT !.type = "custom", !.named = named]]
    /\ UNCHANGED <<running, keepAlive, report, latest, held, surroundings>>

Dismiss(c) ==
    /\ at' = [at EXCEPT ![c] = "idle"]
    /\ call' = [call EXCEPT ![c] = NoCall]

\* targets.count() answered: without a target, or with a round running, refused.
RunCounted(c) ==
    /\ EventLoop /\ at[c] = "counting"
    /\ IF dbUp /\ Existing # {} /\ ~running
         THEN at' = [at EXCEPT ![c] = "checking"] /\ UNCHANGED call
         ELSE Dismiss(c)
    /\ UNCHANGED <<running, keepAlive, report, latest, held, surroundings>>

\* Mutated form: the early 409 is trusted across the awaits that follow it.
RunReservedOnEarlyCheck(c) ==
    /\ EventLoop /\ at[c] = "checking"
    /\ IF dbUp /\ roundMembers(call[c].named) # {}
         THEN /\ running' = TRUE
              /\ at' = [at EXCEPT ![c] = "members"]
              /\ UNCHANGED call
         ELSE Dismiss(c) /\ UNCHANGED running
    /\ UNCHANGED <<keepAlive, report, latest, held, surroundings>>

\* The member checks answered; tryReserve and create follow without an await.
RunReserved(c) ==
    /\ EventLoop /\ at[c] = "checking"
    /\ IF dbUp /\ roundMembers(call[c].named) # {} /\ ~running
         THEN /\ running' = TRUE
              /\ at' = [at EXCEPT ![c] = "members"]
              /\ UNCHANGED call
         ELSE Dismiss(c) /\ UNCHANGED running
    /\ UNCHANGED <<keepAlive, report, latest, held, surroundings>>

\* The last, synchronous stretch of tasks/timer.js runTask: the pause guard and
\* create("auto"), which steps aside when a round is running. A shutdown has
\* retired the generation of every run in flight before it marks itself.
AutoCreate(c) ==
    /\ EventLoop /\ at[c] = "idle" /\ ~paused /\ ~running
    /\ running' = TRUE
    /\ at' = [at EXCEPT ![c] = "members"]
    /\ UNCHANGED <<call, keepAlive, report, latest, held, surroundings>>

-----------------------------------------------------------------------------
(* executeRound up to the announcement.                                    *)

\* There are no members, every one is held, or - at any time - their read was
\* refused: create's finally drops the latch of a round nobody heard of.
RoundDeclined(c) ==
    /\ EventLoop /\ at[c] = "members" /\ ~preview
    /\ running' = FALSE
    /\ Dismiss(c)
    /\ UNCHANGED <<keepAlive, report, latest, held, surroundings>>

RoundOpened(c) ==
    LET members == roundMembers(call[c].named) IN
    /\ EventLoop /\ at[c] = "members" /\ (dbUp \/ preview)
    /\ members # {} /\ ~roundFullyHeld(members, call[c].type)
    /\ at' = [at EXCEPT ![c] = "top"]
    /\ call' = [call EXCEPT ![c].left = members]
    /\ running' = TRUE
    /\ keepAlive' = "running"
    /\ report' = IF preview THEN report ELSE "running"
    /\ UNCHANGED <<latest, held, surroundings>>

-----------------------------------------------------------------------------
(* The member loop.                                                        *)

\* Mutated form: a paused round returns from its loop past what the finally does.
LoopTopReturning(c) ==
    /\ at[c] = "top"
    /\ IF call[c].left = {} \/ shuttingDown
         THEN at' = [at EXCEPT ![c] = "verdict"] /\ UNCHANGED <<call, running>>
         ELSE IF paused THEN running' = FALSE /\ Dismiss(c)
         ELSE \E t \in call[c].left :
              /\ IsFirst(t, call[c].left)
              /\ at' = [at EXCEPT ![c] =
                           IF call[c].type = "auto" THEN "quietHours" ELSE "reading"]
              /\ call' = [call EXCEPT ![c].left = @ \ {t}, ![c].cur = t,
                                      ![c].retried = FALSE, ![c].failed = FALSE]
              /\ UNCHANGED running
    /\ UNCHANGED <<keepAlive, report, latest, held, surroundings>>

\* The head of the loop: no member left, a shutdown or a pause ends it; the next
\* member's first await is the quiet hours for a scheduled round. The pretended
\* member has no guard that awaits anything but those.
LoopTop(c) ==
    /\ at[c] = "top"
    /\ IF call[c].left = {} \/ shuttingDown \/ paused
         THEN at' = [at EXCEPT ![c] = "verdict"] /\ UNCHANGED call
         ELSE \E t \in call[c].left :
              /\ IsFirst(t, call[c].left)
              /\ at' = [at EXCEPT ![c] =
                           IF call[c].type = "auto" THEN "quietHours" ELSE "reading"]
              /\ call' = [call EXCEPT ![c].left = @ \ {t}, ![c].cur = t,
                                      ![c].retried = FALSE, ![c].failed = FALSE]
    /\ UNCHANGED <<running, keepAlive, report, latest, held, surroundings>>

\* Mutated forms: a member's escape counted by both handlers it passes; and the
\* failure that could not be written not counted.
EscapeCountedTwice(c, error, reached) ==
    LET escapes == call[c].escapes + (IF reached THEN 2 ELSE 1) IN
    /\ call' = [call EXCEPT ![c].escapes = escapes,
                            ![c].failures = IF reached /\ call[c].alerts THEN @ + 1 ELSE @]
    /\ at' = [at EXCEPT ![c] =
                 IF error = "outage" \/ escapes >= MAX_CONSECUTIVE_ESCAPES
                   THEN "verdict" ELSE "top"]

EscapeUncounted(c, error, reached) ==
    LET escapes == call[c].escapes + 1 IN
    /\ call' = [call EXCEPT ![c].escapes = escapes]
    /\ at' = [at EXCEPT ![c] =
                 IF error = "outage" \/ escapes >= MAX_CONSECUTIVE_ESCAPES
                   THEN "verdict" ELSE "top"]

\* The catch around a member: reached says whether the member was being measured.
Escape(c, error, reached) ==
    LET escapes == call[c].escapes + 1 IN
    /\ call' = [call EXCEPT ![c].escapes = escapes,
                            ![c].failures = IF reached /\ call[c].alerts THEN @ + 1 ELSE @]
    /\ at' = [at EXCEPT ![c] =
                 IF error = "outage" \/ escapes >= MAX_CONSECUTIVE_ESCAPES
                   THEN "verdict" ELSE "top"]

\* withinQuietHours answered, or its config reads were refused.
QuietHoursRead(c) ==
    /\ EventLoop /\ at[c] = "quietHours"
    /\ \/ /\ dbUp
          /\ at' = [at EXCEPT ![c] = IF quiet THEN "verdict" ELSE "reading"]
          /\ UNCHANGED call
       \/ \E error \in Refusals : Escape(c, error, FALSE)
    /\ UNCHANGED <<running, keepAlive, report, latest, held, surroundings>>

BeginTarget(c, alerts) ==
    /\ at' = [at EXCEPT ![c] = "measuring"]
    /\ call' = [call EXCEPT ![c].alerts = alerts,
                            ![c].unproven = IF alerts THEN @ \cup {call[c].cur} ELSE @]

\* The member as the table has it now: gone, out of the schedule or held, the
\* round steps over it; otherwise its run begins.
MemberRead(c) ==
    LET t == call[c].cur IN
    /\ at[c] = "reading" /\ (preview \/ EventLoop)
    /\ IF preview THEN BeginTarget(c, TRUE)
       ELSE \/ /\ dbUp
               /\ IF stale(t, call[c].named) \/ memberHeld(t, call[c].type)
                    THEN at' = [at EXCEPT ![c] = "top"] /\ UNCHANGED call
                    ELSE BeginTarget(c, table[t].alerts)
            \/ \E error \in Refusals : Escape(c, error, FALSE)
    /\ UNCHANGED <<running, keepAlive, report, latest, held, surroundings>>

-----------------------------------------------------------------------------
(* executeTarget.                                                          *)

\* The provider reported a measurement: its hold is over, and the baseline and
\* the streak are read, each contained, before the row.
Measured(c) ==
    /\ EventLoop /\ at[c] = "measuring"
    /\ at' = [at EXCEPT ![c] = "recording"]
    /\ held' = IF preview THEN held ELSE held \ {ProviderOf[call[c].cur]}
    /\ UNCHANGED <<call, running, keepAlive, report, latest, surroundings>>

\* Mutated form: a refusal for too many requests is retried like any failure.
RetryOrFailInsisting(c, rateLimited) ==
    IF call[c].retried \/ shuttingDown
      THEN at' = [at EXCEPT ![c] = "failing"] /\ UNCHANGED call
      ELSE /\ at' = [at EXCEPT ![c] = "measuring"]
           /\ call' = [call EXCEPT ![c].retried = TRUE]

\* The catch of executeTarget: once more from the start, or a failure to record.
RetryOrFail(c, rateLimited) ==
    IF call[c].retried \/ shuttingDown \/ rateLimited
      THEN at' = [at EXCEPT ![c] = "failing"] /\ UNCHANGED call
      ELSE /\ at' = [at EXCEPT ![c] = "measuring"]
           /\ call' = [call EXCEPT ![c].retried = TRUE]

\* The provider failed, was killed or refused for too many requests.
MeasureFailed(c, rateLimited) ==
    /\ EventLoop /\ at[c] = "measuring" /\ ~preview
    /\ held' = IF rateLimited THEN held \cup {ProviderOf[call[c].cur]} ELSE held
    /\ RetryOrFail(c, rateLimited)
    /\ UNCHANGED <<running, keepAlive, report, latest, surroundings>>

WriteRow(c, outcome) ==
    /\ latest' = [latest EXCEPT ![call[c].cur] = outcome]
    /\ at' = [at EXCEPT ![c] = "after"]
    /\ call' = [call EXCEPT ![c].rows[call[c].cur] = @ + 1,
                            ![c].failed = (outcome = "failed"),
                            ![c].unproven = IF outcome = "ok" THEN @ \ {call[c].cur} ELSE @]

\* tests.create of a measurement. A refused row is a failed attempt like any other.
RecordResult(c) ==
    /\ EventLoop /\ at[c] = "recording"
    /\ \/ dbUp /\ WriteRow(c, "ok")
       \/ RetryOrFail(c, FALSE) /\ UNCHANGED latest
    /\ UNCHANGED <<running, keepAlive, report, held, surroundings>>

\* Mutated form: the retry is decided after the failure has been written.
RecordFailureThenRetry(c) ==
    /\ EventLoop /\ at[c] = "failing"
    /\ \/ /\ dbUp
          /\ latest' = [latest EXCEPT ![call[c].cur] = "failed"]
          /\ at' = [at EXCEPT ![c] = "measuring"]
          /\ call' = [call EXCEPT ![c].rows[call[c].cur] = @ + 1]
       \/ \E error \in Refusals : Escape(c, error, TRUE) /\ UNCHANGED latest
    /\ UNCHANGED <<running, keepAlive, report, held, surroundings>>

\* tests.create of a failure, the one await of the catch that nothing contains.
RecordFailure(c) ==
    /\ EventLoop /\ at[c] = "failing"
    /\ \/ dbUp /\ WriteRow(c, "failed")
       \/ \E error \in Refusals : Escape(c, error, TRUE) /\ UNCHANGED latest
    /\ UNCHANGED <<running, keepAlive, report, held, surroundings>>

\* The contained tail of executeTarget is over and the loop body counts the
\* outcome; between two members the line settles.
TargetDone(c) ==
    /\ EventLoop /\ at[c] = "after"
    /\ call' = [call EXCEPT ![c].escapes = 0,
                            ![c].failures = IF call[c].alerts /\ call[c].failed THEN @ + 1 ELSE @]
    /\ at' = [at EXCEPT ![c] = IF call[c].left = {} THEN "top" ELSE "settling"]
    /\ UNCHANGED <<running, keepAlive, report, latest, held, surroundings>>

SettleLine(c) ==
    /\ EventLoop /\ at[c] = "settling"
    /\ at' = [at EXCEPT ![c] = "top"]
    /\ UNCHANGED <<call, running, keepAlive, report, latest, held, surroundings>>

-----------------------------------------------------------------------------
(* The finally of executeRound and, only microtasks later, create's own.   *)

\* Mutated form: an answer that could not be given leaves the keep-alive silent.
ReleaseHalf(c, verdict) ==
    /\ running' = FALSE
    /\ keepAlive' = IF verdict = "unanswered" THEN keepAlive ELSE "ping"
    /\ report' = verdict
    /\ at' = [at EXCEPT ![c] = "finishing"]
    /\ call' = [call EXCEPT ![c] = NoCall]
    /\ moments' = {}
    /\ UNCHANGED <<latest, held, table, paused, quiet, shuttingDown, dbUp, changes, preview>>

\* setRunning(false) and the handing over of the verdict, if there is one.
Release(c, verdict) ==
    /\ running' = FALSE
    /\ keepAlive' = "ping"
    /\ report' = verdict
    /\ at' = [at EXCEPT ![c] = "finishing"]
    /\ call' = [call EXCEPT ![c] = NoCall]
    /\ moments' = {}
    /\ UNCHANGED <<latest, held, table, paused, quiet, shuttingDown, dbUp, changes, preview>>

\* The finally of create drops the latch again, whoever may hold it by then.
Finish(c) ==
    /\ at[c] = "finishing"
    /\ running' = FALSE
    /\ Dismiss(c)
    /\ UNCHANGED <<keepAlive, report, latest, held, surroundings>>

\* Nothing to announce, or a counted failure that needs no read.
VerdictKnown(c) ==
    /\ at[c] = "verdict" /\ (preview \/ call[c].failures > 0)
    /\ Release(c, IF preview THEN report ELSE "failed")

\* watchedFailureStands lists the targets and asks for the newest row of each
\* watched one; without any target, for the newest of the whole instance.
TargetsListed(c) ==
    /\ EventLoop /\ at[c] = "verdict" /\ dbUp
    /\ at' = [at EXCEPT ![c] = "rows"]
    /\ call' = [call EXCEPT ![c].listed = table,
                            ![c].asked = IF Existing = {} THEN {NoTarget} ELSE watched(table),
                            ![c].stood = FALSE]
    /\ moments' = {[table |-> table, latest |-> latest]}
    /\ UNCHANGED <<running, keepAlive, report, latest, held, table, paused, quiet, shuttingDown,
                   dbUp, changes, preview>>

\* Mutated form: the last answer to come is the verdict.
RowReadLast(c, t) ==
    /\ EventLoop /\ at[c] = "rows" /\ dbUp /\ t \in call[c].asked
    /\ \E stands \in IF t = NoTarget THEN BOOLEAN ELSE {standing(t, call[c].listed, latest)} :
         call' = [call EXCEPT ![c].asked = @ \ {t}, ![c].stood = stands]
    /\ UNCHANGED <<at, running, keepAlive, report, latest, held, surroundings>>

\* One of these reads is answered; which is answered first is open.
RowRead(c, t) ==
    /\ EventLoop /\ at[c] = "rows" /\ dbUp /\ t \in call[c].asked
    /\ \E stands \in IF t = NoTarget THEN BOOLEAN ELSE {standing(t, call[c].listed, latest)} :
         call' = [call EXCEPT ![c].asked = @ \ {t}, ![c].stood = @ \/ stands]
    /\ UNCHANGED <<at, running, keepAlive, report, latest, held, surroundings>>

VerdictRead(c) ==
    /\ at[c] = "rows" /\ call[c].asked = {}
    /\ Release(c, IF call[c].stood THEN "failed" ELSE "clean")

\* Mutated form: without the deadline only a database that is there answers.
VerdictAwaited(c) ==
    /\ EventLoop /\ at[c] \in {"verdict", "rows"} /\ dbUp
    /\ Release(c, "unanswered")

\* One of the reads was refused, or they were not all answered within
\* OUTCOME_READ_TIMEOUT_MS: nothing is handed over.
VerdictLost(c) ==
    /\ EventLoop /\ at[c] \in {"verdict", "rows"}
    /\ Release(c, "unanswered")

-----------------------------------------------------------------------------
(* The surroundings.                                                       *)

Change ==
    /\ EventLoop /\ changes < MaxChanges
    /\ changes' = changes + 1
    /\ UNCHANGED <<at, call, running, keepAlive, report, preview>>

\* The routes of pausing, of the targets and of deleting results are closed on a demo.
PauseToggled ==
    /\ Change /\ ~preview
    /\ paused' = ~paused
    /\ UNCHANGED <<latest, held, table, quiet, shuttingDown, dbUp, moments>>

QuietToggled ==
    /\ Change /\ quiet' = ~quiet
    /\ UNCHANGED <<latest, held, table, paused, shuttingDown, dbUp, moments>>

DbToggled ==
    /\ Change /\ dbUp' = ~dbUp
    /\ UNCHANGED <<latest, held, table, paused, quiet, shuttingDown, moments>>

MarkShutdown ==
    /\ Change /\ shuttingDown' = TRUE
    /\ UNCHANGED <<latest, held, table, paused, quiet, dbUp, moments>>

HoldExpires(p) ==
    /\ Change /\ p \in held
    /\ held' = held \ {p}
    /\ UNCHANGED <<latest, table, paused, quiet, shuttingDown, dbUp, moments>>

\* A verdict judges every age by the moment it began, so a row that ages while it
\* is being read ages for what comes after it.
RowAges(t) ==
    /\ Change /\ latest[t] = "failed"
    /\ \A c \in Callers : at[c] \notin {"verdict", "rows"}
    /\ latest' = [latest EXCEPT ![t] = "aged"]
    /\ UNCHANGED <<held, table, paused, quiet, shuttingDown, dbUp, moments>>

\* While a verdict is being read, what it might still see.
Witness ==
    moments' = IF moments = {} THEN {} ELSE moments \cup {[table |-> table', latest |-> latest']}

\* The targets dialog: delete, switch the schedule or the alerts of a target.
TargetEdited(t) ==
    /\ Change /\ ~preview /\ dbUp /\ table[t].exists
    /\ \/ table' = [table EXCEPT ![t].exists = FALSE]
       \/ table' = [table EXCEPT ![t].enabled = ~@]
       \/ table' = [table EXCEPT ![t].alerts = ~@]
    /\ UNCHANGED <<latest, held, paused, quiet, shuttingDown, dbUp>>
    /\ Witness

\* The newest row of a target is deleted, and whichever was before it is the newest;
\* none before a failure past its day is younger.
RowDeleted(t) ==
    /\ Change /\ ~preview /\ dbUp /\ latest[t] # "none"
    /\ \E older \in Outcomes :
         /\ latest[t] = "aged" => older # "failed"
         /\ latest' = [latest EXCEPT ![t] = older]
    /\ UNCHANGED <<held, table, paused, quiet, shuttingDown, dbUp>>
    /\ Witness

-----------------------------------------------------------------------------
\* Every step of a round in flight. The reads of the verdict are left out of what is
\* fair: a database that never answers them is what the deadline is for.
Round(c) ==
    \/ RunCounted(c) \/ RunReserved(c)
    \/ RoundDeclined(c) \/ RoundOpened(c)
    \/ LoopTop(c) \/ QuietHoursRead(c) \/ MemberRead(c)
    \/ Measured(c) \/ (\E rateLimited \in BOOLEAN : MeasureFailed(c, rateLimited))
    \/ RecordResult(c) \/ RecordFailure(c) \/ TargetDone(c) \/ SettleLine(c)
    \/ VerdictKnown(c) \/ VerdictRead(c) \/ VerdictLost(c) \/ Finish(c)

Environment ==
    \/ PauseToggled \/ QuietToggled \/ DbToggled \/ MarkShutdown
    \/ \E p \in Providers : HoldExpires(p)
    \/ \E t \in Targets : RowAges(t) \/ TargetEdited(t) \/ RowDeleted(t)

Next ==
    \/ \E c \in Callers :
         \/ \E named \in Targets \cup {NoTarget} : RunRequested(c, named)
         \/ AutoCreate(c)
         \/ TargetsListed(c)
         \/ \E t \in Members \cup {NoTarget} : RowRead(c, t)
         \/ Round(c)
    \/ Environment

Spec == Init /\ [][Next]_vars
FairSpec == Spec /\ \A c \in Callers : WF_vars(Round(c))

-----------------------------------------------------------------------------
(* What the round is for.                                                  *)

TypeOK ==
    /\ at \in [Callers -> {"idle", "finishing"} \cup Asking \cup HoldsLatch]
    /\ call \in [Callers -> Locals]
    /\ running \in BOOLEAN
    /\ keepAlive \in {"ping", "running"}
    /\ report \in {"none", "running", "clean", "failed", "unanswered"}
    /\ table \in [Members -> Settings]
    /\ latest \in [Members -> Outcomes]
    /\ held \subseteq Providers
    /\ <<paused, quiet, shuttingDown, dbUp>> \in BOOLEAN \X BOOLEAN \X BOOLEAN \X BOOLEAN
    /\ changes \in 0..MaxChanges
    /\ preview \in BOOLEAN
    /\ moments \subseteq [table : [Members -> Settings], latest : [Members -> Outcomes]]

\* Two rounds never measure over each other, whichever requests and ticks race.
OneRound ==
    \A c, d \in Callers : at[c] \in HoldsLatch /\ at[d] \in HoldsLatch => c = d

\* The latch is up exactly while some call owns it: no round runs unlatched, no path
\* out of create, the refused ones included, leaves it up, and the second time that
\* a round drops it, in create's finally, it is nobody else's yet.
LatchIsOwned == running <=> \E c \in Callers : at[c] \in HoldsLatch

\* The minute's keep-alive is silent exactly while an opened round holds the latch:
\* a round that is given up before it opens never silences it, and each way out of
\* an opened one, the lost verdict included, lets it speak again. When a
\* notification arrives is not in this: its fan-out is not awaited.
KeepAliveIsSilenced == keepAlive = "running" <=> \E c \in Callers : at[c] \in InRound

\* The pretended rounds of a demo fire nobody's webhook.
DemoIsSilent == preview => report = "none"

\* However often a member is retried, and whichever write is refused, a round
\* leaves at most one row of it.
OneRowPerMember == \A c \in Callers : \A m \in Members : call[c].rows[m] <= 1

\* What the moments of a verdict's reads allow it to say. The table is read at one
\* of them and each newest row at its own.
KeptStanding(t) == \A a, b \in moments : standing(t, a.table, b.latest)
EverStood ==
    \E a, b \in moments :
      (\E t \in Members : standing(t, a.table, b.latest)) \/ (\A t \in Members : ~a.table[t].exists)

\* The completion event tells the truth about the members the round measured: it
\* says failed when an alerting one has no recorded success, even if its failure
\* could not be written either. About the other lines it says no more than its
\* reads can carry, since targets and rows change between them and the release:
\* clean is never said over a failure that stood all the while, and failed only if
\* one stood at some moment (or there is no target whose rows could be told apart).
ReportIsTrue ==
    [][\A c \in Callers :
         ~preview /\ at[c] \in {"verdict", "rows"} /\ at'[c] = "finishing" =>
           /\ call[c].unproven # {} => report' = "failed"
           /\ report' = "clean" => call[c].unproven = {} /\ \A t \in Members : ~KeptStanding(t)
           /\ report' = "failed" => call[c].unproven # {} \/ EverStood]_vars

\* A scheduled round asks no provider while its hold stands, neither a further
\* member of the one that has just refused nor the refused member again.
HoldIsHonoured ==
    [][\A c \in Callers :
         /\ at'[c] = "measuring"
         /\ at[c] # "measuring" \/ call'[c].retried # call[c].retried
         /\ call[c].type = "auto" /\ ~preview
         => ProviderOf[call[c].cur] \notin held']_vars

\* Every round ends and releases the latch, a database that never answers the
\* verdict included.
LatchIsReleased == running ~> ~running

\* "A pause is 'stop testing', whoever started the round" (tasks/speedtest.js:844):
\* no member's run begins while the tests are paused.
PauseStopsTheRound ==
    [][\A c \in Callers : at[c] = "reading" /\ at'[c] = "measuring" => ~paused]_vars

-----------------------------------------------------------------------------
(* The contract the round implements.                                      *)

Contract == INSTANCE RoundContract WITH
    phase <- IF \E c \in Callers : at[c] \in InRound THEN "opened"
             ELSE IF \E c \in Callers : at[c] = "members" THEN "reserved" ELSE "free",
    recorded <- {m \in Members : \E c \in Callers : call[c].rows[m] > 0}

ImplementsContract == Contract!Spec
=============================================================================
