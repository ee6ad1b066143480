------------------------------ MODULE Shutdown ------------------------------
(***************************************************************************)
(* How the server leaves: the signal handler of src/server/index.js, the   *)
(* sequence of src/server/util/shutdown.js, the wait for the round of      *)
(* util/activeRound.js, and the CLI child of util/speedtest.js, which must *)
(* be gone before the process is - tracked, terminated, escalated.         *)
(*                                                                         *)
(* Time passes in units of half a second and never past a timer that is    *)
(* due. A restart of the schedule in flight is left to ScheduleTimer.      *)
(***************************************************************************)
EXTENDS Naturals

CONSTANTS
    MaxChildren,          \* how many CLI children are spawned in one behaviour
    MaxAttempts,          \* the further members and retries of a round
    SHUTDOWN_GRACE,       \* the deadline after which the process leaves anyway
    SHUTDOWN_KILL_GRACE,  \* from SIGTERM to SIGKILL during a shutdown
    KILL_GRACE,           \* the same when a run has timed out
    SHUTDOWN_EXIT_WAIT,
    SHUTDOWN_ROUND_WAIT

ASSUME ShutdownAssumption ==
    /\ MaxChildren \in Nat /\ MaxAttempts \in Nat
    /\ SHUTDOWN_KILL_GRACE \in Nat /\ SHUTDOWN_EXIT_WAIT \in Nat
    /\ SHUTDOWN_ROUND_WAIT \in Nat /\ KILL_GRACE \in Nat /\ SHUTDOWN_GRACE \in Nat
    /\ SHUTDOWN_KILL_GRACE < SHUTDOWN_EXIT_WAIT
    /\ SHUTDOWN_EXIT_WAIT + SHUTDOWN_ROUND_WAIT < SHUTDOWN_GRACE

VARIABLES
    phase,         \* of the shutdown
    exitCode,
    waitChild,     \* the child waitForActiveProcessExit waits for; 0 is none
    processExited, roundCompleted,
    dbOpen,
    shuttingDown,
    round,         \* where the round in flight is suspended
    attempts,      \* how many members and retries it has left
    mine,          \* the child the round waits for
    child,         \* each child; "exited" has its 'close' event still to come
    spawned,
    activeProcess, \* the child the module knows of; 0 is none
    timedOut,      \* the children whose run has timed out
    escalateIn,    \* the SIGKILL timer of each child
    waitIn,        \* the timer of the wait in progress
    deadlineIn     \* the timer of SHUTDOWN_GRACE_MS

leaving == <<phase, exitCode, waitChild, processExited, roundCompleted, dbOpen>>
children == <<child, spawned, activeProcess, timedOut>>
vars == <<leaving, shuttingDown, round, attempts, mine, children, escalateIn, waitIn, deadlineIn>>

Children == 1..MaxChildren
Unset == KILL_GRACE + SHUTDOWN_GRACE + SHUTDOWN_EXIT_WAIT + SHUTDOWN_ROUND_WAIT
Timer == 0..Unset
Alive == {"running", "killed"}

Earlier(a, b) == IF a < b THEN a ELSE b

Init ==
    /\ phase = "serving" /\ exitCode = 0
    /\ waitChild = 0 /\ processExited = FALSE /\ roundCompleted = FALSE
    /\ dbOpen = TRUE /\ shuttingDown = FALSE
    /\ round = "none" /\ attempts = 0 /\ mine = 0
    /\ child = [i \in Children |-> "unborn"]
    /\ spawned = 0 /\ activeProcess = 0 /\ timedOut = {}
    /\ escalateIn = [i \in Children |-> Unset]
    /\ waitIn = Unset /\ deadlineIn = Unset

Running == phase # "left"

-----------------------------------------------------------------------------
(* The round and its child.                                                *)

\* A tick or POST /run; requests in flight are answered until the listeners close.
RoundStarts ==
    /\ phase \in {"serving", "draining"} /\ round = "none"
    /\ round' = "reading"
    /\ attempts' = MaxAttempts
    /\ UNCHANGED <<leaving, shuttingDown, mine, children, escalateIn, waitIn, deadlineIn>>

\* Mutated form: a member's child is spawned without asking for the shutdown.
SpawnsRegardless ==
    /\ Running /\ round = "reading" /\ spawned < MaxChildren
    /\ spawned' = spawned + 1
    /\ child' = [child EXCEPT ![spawned'] = "running"]
    /\ activeProcess' = spawned' /\ mine' = spawned'
    /\ round' = "child"
    /\ UNCHANGED <<leaving, shuttingDown, attempts, timedOut, escalateIn, waitIn, deadlineIn>>

\* runOnce: the last look at the shutdown, the spawn and the tracking are one stretch.
Spawns ==
    /\ Running /\ round = "reading" /\ ~shuttingDown /\ spawned < MaxChildren
    /\ spawned' = spawned + 1
    /\ child' = [child EXCEPT ![spawned'] = "running"]
    /\ activeProcess' = spawned' /\ mine' = spawned'
    /\ round' = "child"
    /\ UNCHANGED <<leaving, shuttingDown, attempts, timedOut, escalateIn, waitIn, deadlineIn>>

\* Mutated form: whoever ends wipes the tracker, whatever is in it.
untrackProcessOutright(i) == activeProcess' = 0

untrackProcess(i) == activeProcess' = IF activeProcess = i THEN 0 ELSE activeProcess

\* The child could not be spawned: 'error' rejects the run and lets go of the child,
\* its 'close' is still queued.
SpawnErrors ==
    /\ Running /\ round = "reading" /\ ~shuttingDown /\ spawned < MaxChildren
    /\ spawned' = spawned + 1
    /\ child' = [child EXCEPT ![spawned'] = "exited"]
    /\ activeProcess' = 0
    /\ round' = "writing"
    /\ UNCHANGED <<leaving, shuttingDown, attempts, mine, timedOut, escalateIn, waitIn, deadlineIn>>

\* Whatever else ends a member before its child: a refused read, the shutdown.
MemberFails ==
    /\ Running /\ round = "reading"
    /\ round' = "writing"
    /\ UNCHANGED <<leaving, shuttingDown, attempts, mine, children, escalateIn, waitIn, deadlineIn>>

ChildExits(i) ==
    /\ Running /\ child[i] \in Alive
    /\ child' = [child EXCEPT ![i] = "exited"]
    /\ UNCHANGED <<leaving, shuttingDown, round, attempts, mine, spawned, activeProcess, timedOut,
                   escalateIn, waitIn, deadlineIn>>

\* 'close': finish(), and the run that waits for this child goes on.
ChildCloses(i) ==
    /\ Running /\ child[i] = "exited"
    /\ child' = [child EXCEPT ![i] = "closed"]
    /\ untrackProcess(i)
    /\ round' = IF round = "child" /\ mine = i THEN "writing" ELSE round
    /\ UNCHANGED <<leaving, shuttingDown, attempts, mine, spawned, timedOut, escalateIn, waitIn, deadlineIn>>

\* Mutated form: a child that will not take SIGTERM is asked and no more.
terminatePolitely(i, grace) == escalateIn' = escalateIn

\* SIGTERM, which a child may ignore, and the timer of SIGKILL, which it may not.
terminate(i, grace) == escalateIn' = [escalateIn EXCEPT ![i] = Earlier(@, grace)]

\* CLI_TIMEOUT.
RunTimesOut(i) ==
    /\ Running /\ round = "child" /\ mine = i /\ child[i] = "running" /\ i \notin timedOut
    /\ timedOut' = timedOut \cup {i}
    /\ terminate(i, KILL_GRACE)
    /\ UNCHANGED <<leaving, shuttingDown, round, attempts, mine, child, spawned, activeProcess, waitIn, deadlineIn>>

Escalates(i) ==
    /\ Running /\ escalateIn[i] = 0
    /\ escalateIn' = [escalateIn EXCEPT ![i] = Unset]
    /\ child' = [child EXCEPT ![i] = IF @ = "running" THEN "killed" ELSE @]
    /\ UNCHANGED <<leaving, shuttingDown, round, attempts, mine, spawned, activeProcess, timedOut, waitIn, deadlineIn>>

\* The rows, the verdict and the events of a round; the next member or its retry
\* follows unless the server is leaving.
RoundWrites ==
    /\ Running /\ round = "writing"
    /\ \/ round' = "none" /\ UNCHANGED attempts
       \/ /\ ~shuttingDown /\ attempts > 0
          /\ round' = "reading" /\ attempts' = attempts - 1
    /\ UNCHANGED <<leaving, shuttingDown, mine, children, escalateIn, waitIn, deadlineIn>>

-----------------------------------------------------------------------------
(* The shutdown.                                                           *)

\* Mutated form: the sequence is trusted to end by itself.
SignalWithoutDeadline ==
    /\ phase = "serving"
    /\ phase' = "draining"
    /\ shuttingDown' = TRUE
    /\ IF activeProcess # 0 /\ child[activeProcess] \in Alive
         THEN terminate(activeProcess, SHUTDOWN_KILL_GRACE) ELSE UNCHANGED escalateIn
    /\ UNCHANGED <<exitCode, waitChild, processExited, roundCompleted, dbOpen, round, attempts, mine,
                   children, waitIn, deadlineIn>>

\* SIGTERM or SIGINT, the first one: onStop, the deadline, the listeners closing.
Signal ==
    /\ phase = "serving"
    /\ phase' = "draining"
    /\ shuttingDown' = TRUE
    /\ IF activeProcess # 0 /\ child[activeProcess] \in Alive
         THEN terminate(activeProcess, SHUTDOWN_KILL_GRACE) ELSE UNCHANGED escalateIn
    /\ deadlineIn' = SHUTDOWN_GRACE
    /\ UNCHANGED <<exitCode, waitChild, processExited, roundCompleted, dbOpen, round, attempts, mine, children, waitIn>>

\* The last listener has closed; waitForActiveProcessExit looks at the child.
ListenersClosed ==
    /\ phase = "draining"
    /\ phase' = "exitWait"
    /\ waitChild' = IF activeProcess # 0 /\ child[activeProcess] \in Alive THEN activeProcess ELSE 0
    /\ waitIn' = SHUTDOWN_EXIT_WAIT
    /\ UNCHANGED <<exitCode, processExited, roundCompleted, dbOpen, shuttingDown, round, attempts, mine,
                   children, escalateIn, deadlineIn>>

\* The wait for the child resolves, by its 'close' or by its timer.
ProcessExitWaited ==
    /\ phase = "exitWait"
    /\ \/ (\A i \in {waitChild} \ {0} : child[i] = "closed") /\ processExited' = TRUE
       \/ waitIn = 0 /\ processExited' = FALSE
    /\ phase' = "roundWait"
    /\ waitIn' = SHUTDOWN_ROUND_WAIT
    /\ UNCHANGED <<exitCode, waitChild, roundCompleted, dbOpen, shuttingDown, round, attempts, mine,
                   children, escalateIn, deadlineIn>>

\* waitForActiveRound resolves, by the round or by its timer.
RoundWaited ==
    /\ phase = "roundWait"
    /\ \/ round = "none" /\ roundCompleted' = TRUE
       \/ waitIn = 0 /\ roundCompleted' = FALSE
    /\ phase' = "closing"
    /\ waitIn' = Unset
    /\ UNCHANGED <<exitCode, waitChild, processExited, dbOpen, shuttingDown, round, attempts, mine,
                   children, escalateIn, deadlineIn>>

\* Mutated form: the waits are awaited, their answers not.
DatabaseClosesRegardless ==
    /\ phase = "closing"
    /\ phase' = "left"
    /\ \/ dbOpen' = FALSE /\ exitCode' = 0
       \/ dbOpen' = dbOpen /\ exitCode' = 1
    /\ UNCHANGED <<waitChild, processExited, roundCompleted, shuttingDown, round, attempts, mine,
                   children, escalateIn, waitIn, deadlineIn>>

\* db.close() answers, or rejects; the process leaves with what the waits answered.
DatabaseCloses ==
    /\ phase = "closing"
    /\ phase' = "left"
    /\ \/ dbOpen' = FALSE /\ exitCode' = IF processExited /\ roundCompleted THEN 0 ELSE 1
       \/ dbOpen' = dbOpen /\ exitCode' = 1
    /\ UNCHANGED <<waitChild, processExited, roundCompleted, shuttingDown, round, attempts, mine,
                   children, escalateIn, waitIn, deadlineIn>>

Deadline ==
    /\ Running /\ deadlineIn = 0
    /\ phase' = "left" /\ exitCode' = 1
    /\ UNCHANGED <<waitChild, processExited, roundCompleted, dbOpen, shuttingDown, round, attempts, mine,
                   children, escalateIn, waitIn, deadlineIn>>

-----------------------------------------------------------------------------
Due == waitIn = 0 \/ deadlineIn = 0 \/ \E i \in Children : escalateIn[i] = 0

\* Half a second. A killed child is gone within it.
Tick ==
    LET runsDown(t) == IF t = Unset THEN t ELSE t - 1 IN
    /\ Running /\ ~Due /\ \A i \in Children : child[i] # "killed"
    /\ escalateIn' = [i \in Children |-> runsDown(escalateIn[i])]
    /\ waitIn' = runsDown(waitIn)
    /\ deadlineIn' = runsDown(deadlineIn)
    /\ UNCHANGED <<leaving, shuttingDown, round, attempts, mine, children>>


Next ==
    \/ RoundStarts \/ Spawns \/ SpawnErrors \/ MemberFails \/ RoundWrites
    \/ \E i \in Children : ChildExits(i) \/ ChildCloses(i) \/ RunTimesOut(i) \/ Escalates(i)
    \/ Signal \/ ListenersClosed \/ ProcessExitWaited \/ RoundWaited \/ DatabaseCloses \/ Deadline
    \/ Tick

Spec == Init /\ [][Next]_vars

\* What the event loop, the kernel and a database that answers owe.
FairSpec ==
    /\ Spec
    /\ WF_vars(Tick) /\ WF_vars(ProcessExitWaited) /\ WF_vars(RoundWaited) /\ WF_vars(Deadline)
    /\ WF_vars(MemberFails) /\ WF_vars(RoundWrites)
    /\ \A i \in Children :
         /\ WF_vars(ChildExits(i) /\ child[i] = "killed") /\ WF_vars(ChildCloses(i))
         /\ WF_vars(RunTimesOut(i)) /\ WF_vars(Escalates(i))

-----------------------------------------------------------------------------
(* What leaving is for.                                                    *)

\* The types; and the child the module knows of has not closed.
TypeOK ==
    /\ phase \in {"serving", "draining", "exitWait", "roundWait", "closing", "left"}
    /\ exitCode \in {0, 1}
    /\ waitChild \in 0..MaxChildren
    /\ {processExited, roundCompleted, dbOpen, shuttingDown} \subseteq BOOLEAN
    /\ round \in {"none", "reading", "child", "writing"}
    /\ attempts \in 0..MaxAttempts /\ mine \in 0..MaxChildren
    /\ child \in [Children -> {"unborn", "running", "killed", "exited", "closed"}]
    /\ spawned \in 0..MaxChildren
    /\ activeProcess \in {i \in Children : child[i] \in Alive \cup {"exited"}} \cup {0}
    /\ timedOut \subseteq Children
    /\ escalateIn \in [Children -> Timer] /\ waitIn \in Timer /\ deadlineIn \in Timer

\* Whoever spawned a child when, and however its events are ordered: no speedtest
\* outlives the server, not even one that ignores SIGTERM.
NoOrphan == phase = "left" => \A i \in Children : child[i] \notin Alive

\* The process says 0 only when nothing was cut short: the child gone, the round
\* and its writes over, the database closed after them.
CleanExit == phase = "left" /\ exitCode = 0 => round = "none" /\ ~dbOpen

\* A signal ends the process, whatever of the listeners, the child, the round and
\* the database never answers.
ShutdownEnds == phase = "draining" ~> phase = "left"

\* A round ends although its CLI hangs and ignores SIGTERM.
RoundEnds == round # "none" ~> round = "none" \/ phase = "left"
=============================================================================
