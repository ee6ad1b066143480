---------------------------- MODULE ShutdownProofs ----------------------------
(***************************************************************************)
(* That no child outlives the server and that it says 0 only when nothing  *)
(* was cut short, for any number of children and any durations that are    *)
(* ordered as the code's are. The argument: only the child of the round in *)
(* flight can be alive, it is the one the module knows of, and from the    *)
(* signal on its SIGKILL comes before whatever lets the process go on.     *)
(***************************************************************************)
EXTENDS Shutdown, FiniteSetTheorems, TLAPS

USE ShutdownAssumption

\* A live child is the round's, and the module knows of it.
ChildIsKnown ==
    \A i \in Children :
      child[i] \in Alive => activeProcess = i /\ mine = i /\ round = "child"

\* The flag is up from the signal on, so nothing is spawned any more.
FlagIsUp == shuttingDown <=> phase # "serving"

\* Before the signal there is no deadline.
NoDeadlineYet == phase = "serving" => deadlineIn = Unset

\* From the signal on the SIGKILL of a live child is armed, and due before the
\* deadline; it is not armed for longer than the grace.
KillBeforeDeadline ==
    phase # "serving" =>
      \A i \in Children :
        /\ child[i] = "running" =>
             escalateIn[i] <= SHUTDOWN_KILL_GRACE /\ escalateIn[i] < deadlineIn
        /\ child[i] = "killed" => deadlineIn > 0

\* And before the wait for the child gives up, which waits for the right one.
KillBeforeWait ==
    phase = "exitWait" =>
      \A i \in Children :
        /\ child[i] \in Alive => waitChild = i
        /\ child[i] = "running" => escalateIn[i] < waitIn
        /\ child[i] = "killed" => waitIn > 0

\* Past that wait there is no live child.
ChildIsGone ==
    phase \in {"roundWait", "closing", "left"} => \A i \in Children : child[i] \notin Alive

\* The round that was waited for stays over.
RoundIsOver == phase = "closing" /\ roundCompleted => round = "none"

LeaveInv ==
    /\ ChildIsKnown /\ FlagIsUp /\ NoDeadlineYet
    /\ KillBeforeDeadline /\ KillBeforeWait
    /\ ChildIsGone /\ RoundIsOver /\ CleanExit

IInv == TypeOK /\ LeaveInv

\* The durations are timers, and the deadline is the last of a shutdown.
LEMMA Durations ==
    /\ Unset \in Nat /\ Unset \in Timer /\ 0 \in Timer
    /\ KILL_GRACE \in Timer /\ SHUTDOWN_KILL_GRACE \in Timer /\ SHUTDOWN_GRACE \in Timer
    /\ SHUTDOWN_EXIT_WAIT \in Timer /\ SHUTDOWN_ROUND_WAIT \in Timer
    /\ SHUTDOWN_KILL_GRACE < SHUTDOWN_GRACE /\ SHUTDOWN_KILL_GRACE < Unset
BY DEF Unset, Timer

\* The earlier of two timers is a timer, and later than neither.
LEMMA EarlierOfTwo ==
    ASSUME NEW a \in Timer, NEW b \in Timer
    PROVE  Earlier(a, b) \in Timer /\ Earlier(a, b) <= a /\ Earlier(a, b) <= b
BY Durations DEF Earlier, Timer

\* terminate arms one timer, never later than it was.
LEMMA TerminateArms ==
    ASSUME TypeOK, NEW i \in Children, NEW grace \in Timer, terminate(i, grace)
    PROVE  /\ escalateIn' \in [Children -> Timer]
           /\ \A j \in Children : escalateIn'[j] <= escalateIn[j]
           /\ escalateIn'[i] <= grace
<1>1. escalateIn \in [Children -> Timer]
  BY DEF TypeOK
<1>2. escalateIn' = [escalateIn EXCEPT ![i] = Earlier(escalateIn[i], grace)]
  BY DEF terminate
<1>3. /\ Earlier(escalateIn[i], grace) \in Timer
      /\ Earlier(escalateIn[i], grace) <= escalateIn[i]
      /\ Earlier(escalateIn[i], grace) <= grace
  BY <1>1, EarlierOfTwo
<1>4. \A j \in Children : escalateIn[j] \in Nat
  BY <1>1, Durations DEF Timer
<1> QED
  BY <1>1, <1>2, <1>3, <1>4

-----------------------------------------------------------------------------
(* The types.                                                              *)

\* The flags of the waits, the database and the shutdown.
Flags == {processExited, roundCompleted, dbOpen, shuttingDown} \subseteq BOOLEAN

LEMMA InitType == Init => TypeOK
<1> SUFFICES ASSUME Init PROVE TypeOK
  OBVIOUS
<1>1. Flags
  BY Zenon DEF Init, Flags
<1> QED
  BY <1>1, Durations DEF Init, TypeOK, Flags

LEMMA FlagsStep == TypeOK /\ [Next]_vars => Flags'
<1> SUFFICES ASSUME TypeOK, [Next]_vars PROVE Flags'
  OBVIOUS
<1>1. Flags
  BY DEF TypeOK, Flags
<1>2. CASE UNCHANGED <<leaving, shuttingDown>>
  BY <1>1, <1>2, Zenon DEF Flags, leaving
<1>3. CASE Signal
  BY <1>1, <1>3, Zenon DEF Flags, Signal
<1>4. CASE ListenersClosed
  BY <1>1, <1>4, Zenon DEF Flags, ListenersClosed
<1>5. CASE ProcessExitWaited
  BY <1>1, <1>5, Zenon DEF Flags, ProcessExitWaited
<1>6. CASE RoundWaited
  BY <1>1, <1>6, Zenon DEF Flags, RoundWaited
<1>7. CASE DatabaseCloses
  BY <1>1, <1>7, Zenon DEF Flags, DatabaseCloses
<1>8. CASE Deadline
  BY <1>1, <1>8, Zenon DEF Flags, Deadline
<1>9. \/ UNCHANGED <<leaving, shuttingDown>> \/ Signal \/ ListenersClosed
      \/ ProcessExitWaited \/ RoundWaited \/ DatabaseCloses \/ Deadline
  BY DEF Next, RoundStarts, Spawns, SpawnErrors, MemberFails, RoundWrites, ChildExits,
         ChildCloses, RunTimesOut, Escalates, Tick, vars
<1> QED
  BY <1>2, <1>3, <1>4, <1>5, <1>6, <1>7, <1>8, <1>9

\* Every timer that is not due runs down to a timer.
LEMMA TickType == ASSUME TypeOK, Tick PROVE TypeOK'
<1> DEFINE runsDown(t) == IF t = Unset THEN t ELSE t - 1
<1>1. \A t \in Timer : t # 0 => runsDown(t) \in Timer
  BY Durations DEF Timer
<1>2. waitIn # 0 /\ deadlineIn # 0 /\ \A i \in Children : escalateIn[i] # 0
  BY DEF Tick, Due
<1>3. /\ escalateIn' = [i \in Children |-> runsDown(escalateIn[i])]
      /\ waitIn' = runsDown(waitIn) /\ deadlineIn' = runsDown(deadlineIn)
      /\ UNCHANGED <<leaving, shuttingDown, round, attempts, mine, children>>
  BY DEF Tick
<1> HIDE DEF runsDown
<1>4. escalateIn' \in [Children -> Timer] /\ waitIn' \in Timer /\ deadlineIn' \in Timer
  BY <1>1, <1>2, <1>3 DEF TypeOK
<1>5. Flags'
  BY FlagsStep DEF Next
<1> QED
  BY <1>3, <1>4, <1>5 DEF TypeOK, Flags, leaving, children

LEMMA RoundType ==
    ASSUME TypeOK, RoundStarts \/ Spawns \/ SpawnErrors \/ MemberFails \/ RoundWrites
    PROVE  TypeOK'
<1>1. Flags'
  BY FlagsStep DEF Next
<1>2. spawned < MaxChildren => spawned + 1 \in Children /\ spawned + 1 \in 0..MaxChildren
  BY DEF TypeOK, Children
<1>3. CASE RoundStarts
  BY <1>1, <1>3 DEF RoundStarts, TypeOK, Flags, leaving, children
<1>4. CASE Spawns
  BY <1>1, <1>2, <1>4 DEF Spawns, TypeOK, Flags, leaving, Alive
<1>5. CASE SpawnErrors
  BY <1>1, <1>2, <1>5 DEF SpawnErrors, TypeOK, Flags, leaving
<1>6. CASE MemberFails
  BY <1>1, <1>6 DEF MemberFails, TypeOK, Flags, leaving, children
<1>7. CASE RoundWrites
  BY <1>1, <1>7 DEF RoundWrites, TypeOK, Flags, leaving, children
<1> QED
  BY <1>3, <1>4, <1>5, <1>6, <1>7

LEMMA ChildType ==
    ASSUME TypeOK, NEW i \in Children,
           ChildExits(i) \/ ChildCloses(i) \/ RunTimesOut(i) \/ Escalates(i)
    PROVE  TypeOK'
<1>1. Flags'
  BY FlagsStep DEF Next
<1>2. CASE ChildExits(i)
  BY <1>1, <1>2 DEF ChildExits, TypeOK, Flags, leaving, Alive
<1>3. CASE ChildCloses(i)
  BY <1>1, <1>3 DEF ChildCloses, untrackProcess, TypeOK, Flags, leaving
<1>4. CASE RunTimesOut(i)
  <2>1. escalateIn' \in [Children -> Timer]
    BY <1>4, TerminateArms, Durations DEF RunTimesOut
  <2> QED
    BY <1>1, <1>4, <2>1 DEF RunTimesOut, TypeOK, Flags, leaving
<1>5. CASE Escalates(i)
  BY <1>1, <1>5, Durations DEF Escalates, TypeOK, Flags, leaving, Alive
<1> QED
  BY <1>2, <1>3, <1>4, <1>5

\* The signal shortens the timer of a live child and touches no other.
LEMMA SignalArms ==
    ASSUME TypeOK, Signal
    PROVE  /\ escalateIn' \in [Children -> Timer]
           /\ activeProcess \in Children /\ child[activeProcess] \in Alive =>
                escalateIn'[activeProcess] <= SHUTDOWN_KILL_GRACE
<1>1. CASE activeProcess # 0 /\ child[activeProcess] \in Alive
  <2>1. activeProcess \in Children /\ terminate(activeProcess, SHUTDOWN_KILL_GRACE)
    BY <1>1 DEF Signal, TypeOK
  <2> QED
    BY <2>1, TerminateArms, Durations
<1>2. CASE ~(activeProcess # 0 /\ child[activeProcess] \in Alive)
  BY <1>2 DEF Signal, TypeOK, Children
<1> QED
  BY <1>1, <1>2

LEMMA LeavingType ==
    ASSUME TypeOK,
           \/ Signal \/ ListenersClosed \/ ProcessExitWaited \/ RoundWaited
           \/ DatabaseCloses \/ Deadline
    PROVE  TypeOK'
<1>1. Flags'
  BY FlagsStep DEF Next
<1>2. CASE Signal
  BY <1>1, <1>2, SignalArms, Durations DEF Signal, TypeOK, Flags, children
<1>3. CASE ListenersClosed
  BY <1>1, <1>3, Durations DEF ListenersClosed, TypeOK, Flags, children, Children
<1>4. CASE ProcessExitWaited
  BY <1>1, <1>4, Durations DEF ProcessExitWaited, TypeOK, Flags, children
<1>5. CASE RoundWaited
  BY <1>1, <1>5, Durations DEF RoundWaited, TypeOK, Flags, children
<1>6. CASE DatabaseCloses
  BY <1>1, <1>6 DEF DatabaseCloses, TypeOK, Flags, children
<1>7. CASE Deadline
  BY <1>1, <1>7 DEF Deadline, TypeOK, Flags, children
<1> QED
  BY <1>2, <1>3, <1>4, <1>5, <1>6, <1>7

LEMMA TypeStep == TypeOK /\ [Next]_vars => TypeOK'
<1> SUFFICES ASSUME TypeOK, [Next]_vars PROVE TypeOK'
  OBVIOUS
<1>1. CASE UNCHANGED vars
  <2>1. Flags'
    BY FlagsStep
  <2> QED
    BY <1>1, <2>1 DEF vars, leaving, children, TypeOK, Flags
<1> QED
  BY <1>1, RoundType, ChildType, LeavingType, TickType DEF Next

-----------------------------------------------------------------------------
(* The way out.                                                            *)

LEMMA InitLeave == Init => LeaveInv
BY DEF Init, LeaveInv, ChildIsKnown, FlagIsUp, NoDeadlineYet, KillBeforeDeadline,
       KillBeforeWait, ChildIsGone, RoundIsOver, CleanExit, Alive

\* While the round is between two children there is none, and none comes after
\* the signal.
LEMMA RoundLeaves ==
    ASSUME TypeOK, LeaveInv,
           RoundStarts \/ Spawns \/ SpawnErrors \/ MemberFails \/ RoundWrites
    PROVE  LeaveInv'
<1> USE DEF LeaveInv, ChildIsKnown, FlagIsUp, NoDeadlineYet, KillBeforeDeadline,
            KillBeforeWait, ChildIsGone, RoundIsOver, CleanExit, leaving, children
<1>1. CASE RoundStarts
  BY <1>1 DEF RoundStarts
<1>2. spawned < MaxChildren => spawned + 1 \in Children
  BY DEF TypeOK, Children
<1>3. CASE Spawns
  <2>1. phase = "serving" /\ phase' = "serving" /\ UNCHANGED <<shuttingDown, deadlineIn>>
    BY <1>3 DEF Spawns
  <2>2. \A i \in Children : child'[i] \in Alive => i = spawned + 1
    BY <1>2, <1>3 DEF Spawns, TypeOK, Alive
  <2>3. ChildIsKnown'
    BY <1>3, <2>2 DEF Spawns
  <2> QED
    BY <2>1, <2>3
<1>4. CASE SpawnErrors
  <2>1. phase = "serving" /\ phase' = "serving" /\ UNCHANGED <<shuttingDown, deadlineIn>>
    BY <1>4 DEF SpawnErrors
  <2>2. \A i \in Children : child'[i] \notin Alive
    BY <1>2, <1>4 DEF SpawnErrors, TypeOK, Alive
  <2> QED
    BY <2>1, <2>2
<1>5. CASE MemberFails
  BY <1>5 DEF MemberFails, Running
<1>6. CASE RoundWrites
  BY <1>6 DEF RoundWrites, Running
<1> QED
  BY <1>1, <1>3, <1>4, <1>5, <1>6

\* A child only ever gets closer to its end, and its SIGKILL earlier.
LEMMA ChildLeaves ==
    ASSUME TypeOK, LeaveInv, NEW i \in Children,
           ChildExits(i) \/ ChildCloses(i) \/ RunTimesOut(i) \/ Escalates(i)
    PROVE  LeaveInv'
<1> USE DEF LeaveInv, FlagIsUp, NoDeadlineYet, leaving
<1>0. phase # "left" /\ UNCHANGED <<leaving, shuttingDown, deadlineIn, waitIn, mine>>
  BY DEF ChildExits, ChildCloses, RunTimesOut, Escalates, Running
<1>1. /\ \A j \in Children : child'[j] \in Alive => child[j] \in Alive
      /\ \A j \in Children : child'[j] = "running" => child[j] = "running"
      /\ \A j \in Children : child'[j] = "killed" =>
           child[j] = "killed" \/ (child[j] = "running" /\ escalateIn[j] = 0)
  <2>1. CASE ChildExits(i)
    BY <2>1 DEF ChildExits, TypeOK, Alive
  <2>2. CASE ChildCloses(i)
    BY <2>2 DEF ChildCloses, TypeOK, Alive
  <2>3. CASE RunTimesOut(i)
    BY <2>3 DEF RunTimesOut
  <2>4. CASE Escalates(i)
    BY <2>4 DEF Escalates, TypeOK, Alive
  <2> QED
    BY <2>1, <2>2, <2>3, <2>4
<1>2. \A j \in Children : escalateIn[j] \in Nat /\ escalateIn'[j] \in Nat
  <2>1. TypeOK'
    BY ChildType
  <2> QED
    BY <2>1, Durations DEF TypeOK, Timer
<1>3. \A j \in Children : child'[j] = "running" => escalateIn'[j] <= escalateIn[j]
  <2>1. CASE ChildExits(i) \/ ChildCloses(i)
    BY <1>2, <2>1 DEF ChildExits, ChildCloses
  <2>2. CASE RunTimesOut(i)
    BY <2>2, TerminateArms, Durations DEF RunTimesOut
  <2>3. CASE Escalates(i)
    BY <1>2, <2>3 DEF Escalates, TypeOK
  <2> QED
    BY <2>1, <2>2, <2>3
<1>4. deadlineIn \in Nat /\ waitIn \in Nat
  BY Durations DEF TypeOK, Timer
<1>5. ChildIsKnown'
  <2>1. ASSUME NEW j \in Children, child'[j] \in Alive PROVE activeProcess' = j /\ round' = "child"
    <3>1. activeProcess = j /\ mine = j /\ round = "child" /\ child[j] \in Alive
      BY <1>1, <2>1 DEF ChildIsKnown
    <3>2. CASE ChildCloses(i)
      BY <3>1, <3>2 DEF ChildCloses, untrackProcess, Alive
    <3>3. CASE ~ChildCloses(i)
      BY <3>1, <3>3 DEF ChildExits, RunTimesOut, Escalates, children
    <3> QED
      BY <3>2, <3>3
  <2> QED
    BY <1>0, <1>1, <2>1 DEF ChildIsKnown
<1>6. KillBeforeDeadline'
  BY <1>0, <1>1, <1>2, <1>3, <1>4 DEF KillBeforeDeadline
<1>7. KillBeforeWait'
  BY <1>0, <1>1, <1>2, <1>3, <1>4 DEF KillBeforeWait
<1>8. ChildIsGone'
  BY <1>0, <1>1 DEF ChildIsGone
<1>9. RoundIsOver' /\ CleanExit'
  BY <1>0 DEF RoundIsOver, CleanExit, ChildExits, ChildCloses, RunTimesOut, Escalates
<1> QED
  BY <1>0, <1>5, <1>6, <1>7, <1>8, <1>9

\* The signal arms what the waits count on; each wait ends with its reason.
LEMMA LeavingLeaves ==
    ASSUME TypeOK, LeaveInv,
           \/ Signal \/ ListenersClosed \/ ProcessExitWaited \/ RoundWaited
           \/ DatabaseCloses \/ Deadline
    PROVE  LeaveInv'
<1> USE DEF LeaveInv, FlagIsUp, NoDeadlineYet, RoundIsOver, CleanExit, children
<1>1. ChildIsKnown'
  BY DEF ChildIsKnown, Signal, ListenersClosed, ProcessExitWaited, RoundWaited, DatabaseCloses,
         Deadline
<1>2. \A i \in Children : child'[i] = child[i]
  BY DEF Signal, ListenersClosed, ProcessExitWaited, RoundWaited, DatabaseCloses, Deadline
<1>3. deadlineIn \in Nat /\ waitIn \in Nat /\ \A i \in Children : escalateIn[i] \in Nat
  BY Durations DEF TypeOK, Timer
<1>4. CASE Signal
  <2>1. ASSUME NEW i \in Children, child[i] \in Alive PROVE escalateIn'[i] <= SHUTDOWN_KILL_GRACE
    BY <1>4, <2>1, SignalArms DEF ChildIsKnown
  <2>2. \A i \in Children : escalateIn'[i] \in Nat
    BY <1>4, SignalArms, Durations DEF Timer
  <2>3. KillBeforeDeadline'
    BY <1>2, <1>4, <2>1, <2>2, Durations DEF Signal, KillBeforeDeadline, Alive
  <2> QED
    BY <1>1, <1>4, <2>3 DEF Signal, KillBeforeWait, ChildIsGone
<1>5. CASE ListenersClosed
  <2>1. \A i \in Children : child[i] \in Alive => waitChild' = i
    BY <1>5 DEF ListenersClosed, ChildIsKnown, Children
  <2>2. KillBeforeWait'
    BY <1>2, <1>3, <1>5, <2>1 DEF ListenersClosed, KillBeforeWait, KillBeforeDeadline
  <2> QED
    BY <1>1, <1>2, <1>5, <2>2 DEF ListenersClosed, KillBeforeDeadline, ChildIsGone
<1>6. CASE ProcessExitWaited
  <2>1. \A i \in Children : child[i] \notin Alive
    BY <1>3, <1>6 DEF ProcessExitWaited, KillBeforeWait, Alive, Children
  <2> QED
    BY <1>1, <1>2, <1>6, <2>1
       DEF ProcessExitWaited, KillBeforeDeadline, KillBeforeWait, ChildIsGone, Alive
<1>7. CASE RoundWaited
  BY <1>1, <1>2, <1>7 DEF RoundWaited, KillBeforeDeadline, KillBeforeWait, ChildIsGone
<1>8. CASE DatabaseCloses
  BY <1>1, <1>2, <1>8 DEF DatabaseCloses, KillBeforeDeadline, KillBeforeWait, ChildIsGone
<1>9. CASE Deadline
  <2>1. \A i \in Children : child[i] \notin Alive
    <3>1. CASE phase # "serving"
      BY <1>3, <1>9, <3>1 DEF Deadline, KillBeforeDeadline, Alive
    <3>2. CASE phase = "serving"
      BY <1>9, <3>2, Durations DEF Deadline
    <3> QED
      BY <3>1, <3>2
  <2>2. phase # "serving"
    BY <1>9, Durations DEF Deadline
  <2> QED
    BY <1>1, <1>2, <1>9, <2>1, <2>2
       DEF Deadline, Running, KillBeforeDeadline, KillBeforeWait, ChildIsGone, Alive
<1> QED
  BY <1>4, <1>5, <1>6, <1>7, <1>8, <1>9

\* Time takes as much of the SIGKILL's timer as of any other.
LEMMA TickLeaves == ASSUME TypeOK, LeaveInv, Tick PROVE LeaveInv'
<1> DEFINE runsDown(t) == IF t = Unset THEN t ELSE t - 1
<1>1. /\ escalateIn' = [i \in Children |-> runsDown(escalateIn[i])]
      /\ waitIn' = runsDown(waitIn) /\ deadlineIn' = runsDown(deadlineIn)
      /\ UNCHANGED <<leaving, shuttingDown, round, attempts, mine, children>>
      /\ \A i \in Children : child[i] # "killed"
  BY DEF Tick
<1>2. deadlineIn \in Nat /\ waitIn \in Nat /\ \A i \in Children : escalateIn[i] \in Nat
  BY Durations DEF TypeOK, Timer
<1>3. /\ waitIn' \in Nat /\ waitIn' + 1 >= waitIn
      /\ deadlineIn' \in Nat /\ deadlineIn' + 1 >= deadlineIn
  <2>1. waitIn' \in Nat /\ deadlineIn' \in Nat
    BY TickType, Durations DEF TypeOK, Timer
  <2> QED
    BY <2>1, <1>1, <1>2, Durations
<1>4. \A i \in Children : escalateIn[i] <= SHUTDOWN_KILL_GRACE => escalateIn'[i] = escalateIn[i] - 1
  BY <1>1, <1>2, Durations
<1>7. NoDeadlineYet'
  BY <1>1 DEF LeaveInv, NoDeadlineYet, leaving
<1> HIDE DEF runsDown
<1>5. KillBeforeDeadline'
  BY <1>1, <1>2, <1>3, <1>4 DEF LeaveInv, KillBeforeDeadline, leaving, children
<1>6. KillBeforeWait'
  BY <1>1, <1>2, <1>3, <1>4 DEF LeaveInv, KillBeforeDeadline, KillBeforeWait, leaving, children
<1> QED
  BY <1>1, <1>5, <1>6, <1>7
     DEF LeaveInv, ChildIsKnown, FlagIsUp, ChildIsGone, RoundIsOver, CleanExit, leaving, children

LEMMA LeaveStep == IInv /\ [Next]_vars => IInv'
<1> SUFFICES ASSUME IInv, [Next]_vars PROVE IInv'
  OBVIOUS
<1>1. CASE UNCHANGED vars
  <2>1. ChildIsKnown' /\ FlagIsUp' /\ NoDeadlineYet' /\ RoundIsOver' /\ CleanExit'
    BY <1>1 DEF IInv, LeaveInv, ChildIsKnown, FlagIsUp, NoDeadlineYet, RoundIsOver, CleanExit,
                vars, leaving, children
  <2>2. KillBeforeDeadline' /\ KillBeforeWait' /\ ChildIsGone'
    BY <1>1 DEF IInv, LeaveInv, KillBeforeDeadline, KillBeforeWait, ChildIsGone,
                vars, leaving, children
  <2> QED
    BY <2>1, <2>2, TypeStep DEF IInv, LeaveInv
<1>2. CASE RoundStarts \/ Spawns \/ SpawnErrors \/ MemberFails \/ RoundWrites
  BY <1>2, RoundLeaves, TypeStep DEF IInv
<1>3. CASE \E i \in Children :
              ChildExits(i) \/ ChildCloses(i) \/ RunTimesOut(i) \/ Escalates(i)
  BY <1>3, ChildLeaves, TypeStep DEF IInv
<1>4. CASE \/ Signal \/ ListenersClosed \/ ProcessExitWaited \/ RoundWaited
           \/ DatabaseCloses \/ Deadline
  BY <1>4, LeavingLeaves, TypeStep DEF IInv
<1>5. CASE Tick
  BY <1>5, TickLeaves, TypeStep DEF IInv
<1> QED
  BY <1>1, <1>2, <1>3, <1>4, <1>5 DEF Next

-----------------------------------------------------------------------------
\* However many children a round goes through and whatever durations are chosen
\* in the code's order: no speedtest outlives the server, and it leaves with 0
\* only when the round and its writes were over and the database was closed.
THEOREM LeavesCleanly == Spec => [](TypeOK /\ NoOrphan /\ CleanExit)
<1>1. Init => IInv
  BY InitType, InitLeave DEF IInv
<1>2. IInv => TypeOK /\ NoOrphan /\ CleanExit
  BY DEF IInv, LeaveInv, ChildIsGone, NoOrphan
<1> QED
  BY <1>1, <1>2, LeaveStep, PTL DEF Spec

-----------------------------------------------------------------------------
(* How long leaving takes. Time since the signal is SHUTDOWN_GRACE less    *)
(* what the deadline still has.                                            *)

LeavesInTime == phase # "serving" => deadlineIn \in 0..SHUTDOWN_GRACE

\* The body of DeadlineStands.
OnlyTimeTakes ==
    phase # "serving" =>
      /\ phase' # "serving"
      /\ deadlineIn' = deadlineIn \/ (Tick /\ deadlineIn' = deadlineIn - 1)

\* The signal is the only one, and the deadline it set is neither put off nor taken
\* back by a listener, a child, a round or the database: it runs down with time.
DeadlineStands == [][OnlyTimeTakes]_vars

LEMMA TimeStep ==
    ASSUME TypeOK, LeaveInv, LeavesInTime, [Next]_vars
    PROVE  LeavesInTime' /\ OnlyTimeTakes
<1> USE DEF LeavesInTime, OnlyTimeTakes, leaving, children
<1>1. SHUTDOWN_GRACE \in Nat /\ SHUTDOWN_GRACE < Unset
  BY DEF Unset
<1>2. CASE Tick
  <2>1. deadlineIn # 0 /\ UNCHANGED phase
    BY <1>2 DEF Tick, Due
  <2>2. CASE phase # "serving"
    <3>1. deadlineIn' = deadlineIn - 1
      BY <1>1, <1>2, <2>2 DEF Tick
    <3> QED
      BY <1>1, <1>2, <2>1, <2>2, <3>1
  <2> QED
    BY <2>1, <2>2
<1>3. CASE Signal
  BY <1>1, <1>3 DEF Signal
<1>4. CASE ~Signal /\ ~Tick
  <2>1. UNCHANGED deadlineIn /\ (phase' = "serving" <=> phase = "serving")
    <3>1. CASE UNCHANGED vars
      BY <3>1 DEF vars
    <3>2. CASE RoundStarts \/ Spawns \/ SpawnErrors \/ MemberFails \/ RoundWrites
      BY <3>2 DEF RoundStarts, Spawns, SpawnErrors, MemberFails, RoundWrites
    <3>3. CASE \E i \in Children : ChildExits(i) \/ ChildCloses(i) \/ RunTimesOut(i) \/ Escalates(i)
      BY <3>3 DEF ChildExits, ChildCloses, RunTimesOut, Escalates
    <3>4. CASE ListenersClosed \/ ProcessExitWaited \/ RoundWaited \/ DatabaseCloses
      BY <3>4 DEF ListenersClosed, ProcessExitWaited, RoundWaited, DatabaseCloses
    <3>5. CASE Deadline
      <4>1. phase # "serving"
        BY <1>1, <3>5 DEF LeaveInv, NoDeadlineYet, Deadline
      <4> QED
        BY <3>5, <4>1 DEF Deadline
    <3> QED
      BY <1>4, <3>1, <3>2, <3>3, <3>4, <3>5 DEF Next
  <2> QED
    BY <2>1
<1> QED
  BY <1>2, <1>3, <1>4

\* From the signal on the process is there for no more time than SHUTDOWN_GRACE,
\* whatever it waits for and however many children and rounds there are.
THEOREM DeadlineHolds == Spec => DeadlineStands /\ []LeavesInTime
<1>1. Init => IInv /\ LeavesInTime
  BY InitType, InitLeave DEF IInv, Init, LeavesInTime
<1>2. IInv /\ LeavesInTime /\ [Next]_vars => LeavesInTime' /\ [OnlyTimeTakes]_vars
  BY TimeStep DEF IInv
<1> QED
  BY <1>1, <1>2, LeaveStep, PTL DEF Spec, DeadlineStands

-----------------------------------------------------------------------------
(* Once the listeners have closed there is no way but out: each step, of   *)
(* whatever actor, uses up one of those that are left.                     *)

WayOut == {"exitWait", "roundWait", "closing"}

PhasesLeft(p) ==
    CASE p = "exitWait" -> 3 [] p = "roundWait" -> 2 [] p = "closing" -> 1 [] OTHER -> 0
RoundLeft(r) == CASE r \in {"reading", "child"} -> 2 [] r = "writing" -> 1 [] OTHER -> 0

ChildIn(S) == {i \in Children : child[i] \in S}
Armed == {i \in Children : escalateIn[i] # Unset}
Untimed == Children \ timedOut

ChildrenLeft ==
    Cardinality(ChildIn({"running"})) + Cardinality(ChildIn(Alive))
      + Cardinality(ChildIn(Alive \cup {"exited"}))
TimersLeft == 2 * Cardinality(Untimed) + Cardinality(Armed)

StepsLeft == deadlineIn + PhasesLeft(phase) + RoundLeft(round) + ChildrenLeft + TimersLeft

\* The body of NoWayBack.
UsesUp == phase \in WayOut => StepsLeft \in Nat /\ StepsLeft' \in Nat /\ StepsLeft' < StepsLeft

\* The way out has no loop in it: the waits, their timers, the round's last writes
\* and its children can only ever be done with, in whatever order.
NoWayBack == [][UsesUp]_vars

LEMMA SmallerSet ==
    ASSUME NEW S \in SUBSET Children, NEW T \in SUBSET Children, T \subseteq S
    PROVE  /\ IsFiniteSet(S) /\ Cardinality(S) \in Nat /\ Cardinality(T) \in Nat
           /\ Cardinality(T) <= Cardinality(S)
           /\ T # S => Cardinality(T) < Cardinality(S)
<1>1. IsFiniteSet(Children)
  BY FS_Interval DEF Children
<1>2. IsFiniteSet(S)
  BY <1>1, FS_Subset
<1> QED
  BY <1>2, FS_Subset, FS_CardinalityType

UnderWay == ChildIn({"running"})
Living == ChildIn(Alive)
Open == ChildIn(Alive \cup {"exited"})

\* What no step of the way out undoes.
GoesOut ==
    /\ UnderWay' \subseteq UnderWay /\ Living' \subseteq Living /\ Open' \subseteq Open
    /\ Untimed' \subseteq Untimed /\ deadlineIn' <= deadlineIn
    /\ PhasesLeft(phase') <= PhasesLeft(phase) /\ RoundLeft(round') <= RoundLeft(round)

\* And what each of them does: something is over, or a run has timed out and its
\* SIGKILL is armed.
IsOver ==
    /\ Armed' \subseteq Armed
    /\ \/ Living' # Living \/ Open' # Open \/ Armed' # Armed \/ deadlineIn' < deadlineIn
       \/ PhasesLeft(phase') < PhasesLeft(phase) \/ RoundLeft(round') < RoundLeft(round)
IsTimed == Untimed' # Untimed /\ \E i \in Children : Armed' \subseteq Armed \cup {i}

LEMMA OutSteps ==
    ASSUME TypeOK, LeaveInv, LeavesInTime, Next, phase \in WayOut
    PROVE  GoesOut /\ (IsOver \/ IsTimed)
<1> USE DEF leaving, children
<1>0. /\ shuttingDown /\ phase \notin {"serving", "draining", "left"}
      /\ deadlineIn \in 0..SHUTDOWN_GRACE /\ deadlineIn \in Nat /\ SHUTDOWN_GRACE \in Nat
      /\ SHUTDOWN_GRACE < Unset
      /\ escalateIn \in [Children -> Timer]
      /\ child \in [Children -> {"unborn", "running", "killed", "exited", "closed"}]
      /\ timedOut \in SUBSET Children
  BY DEF LeaveInv, FlagIsUp, LeavesInTime, WayOut, TypeOK, Unset
<1>1. /\ \A p : PhasesLeft(p) \in Nat
      /\ \A r : RoundLeft(r) \in Nat
      /\ UNCHANGED child => UNCHANGED <<UnderWay, Living, Open>>
      /\ UNCHANGED escalateIn => UNCHANGED Armed
      /\ UNCHANGED timedOut => UNCHANGED Untimed
  BY DEF PhasesLeft, RoundLeft, UnderWay, Living, Open, ChildIn, Armed, Untimed
<1>2. ~RoundStarts /\ ~Spawns /\ ~SpawnErrors /\ ~Signal /\ ~ListenersClosed
  BY <1>0 DEF RoundStarts, Spawns, SpawnErrors, Signal, ListenersClosed
<1>3. CASE MemberFails \/ RoundWrites
  <2>1. RoundLeft(round') < RoundLeft(round)
    <3>1. CASE MemberFails
      BY <3>1 DEF MemberFails, RoundLeft
    <3>2. CASE RoundWrites
      <4>1. round = "writing" /\ round' = "none"
        BY <1>0, <3>2 DEF RoundWrites
      <4> QED
        BY <4>1 DEF RoundLeft
    <3> QED
      BY <1>3, <3>1, <3>2
  <2>2. UNCHANGED <<child, escalateIn, timedOut, deadlineIn, phase>>
    BY <1>3 DEF MemberFails, RoundWrites
  <2> QED
    BY <1>0, <1>1, <2>1, <2>2 DEF GoesOut, IsOver
<1>4. ASSUME NEW i \in Children, ChildExits(i) PROVE GoesOut /\ IsOver
  <2>1. child' = [child EXCEPT ![i] = "exited"] /\ child[i] \in Alive
        /\ UNCHANGED <<escalateIn, timedOut, deadlineIn, phase, round>>
    BY <1>4 DEF ChildExits
  <2>2. UnderWay' \subseteq UnderWay /\ Living' \subseteq Living /\ Open' \subseteq Open
        /\ i \in Living /\ i \notin Living'
    BY <1>0, <2>1 DEF UnderWay, Living, Open, ChildIn, Alive
  <2> QED
    BY <1>0, <1>1, <2>1, <2>2 DEF GoesOut, IsOver
<1>5. ASSUME NEW i \in Children, ChildCloses(i) PROVE GoesOut /\ IsOver
  <2>1. child' = [child EXCEPT ![i] = "closed"] /\ child[i] = "exited"
        /\ UNCHANGED <<escalateIn, timedOut, deadlineIn, phase>>
        /\ (round' = round \/ (round = "child" /\ round' = "writing"))
    BY <1>5 DEF ChildCloses
  <2>2. UnderWay' \subseteq UnderWay /\ Living' \subseteq Living /\ Open' \subseteq Open
        /\ i \in Open /\ i \notin Open'
    BY <1>0, <2>1 DEF UnderWay, Living, Open, ChildIn, Alive
  <2>3. RoundLeft(round') <= RoundLeft(round)
    BY <1>1, <2>1 DEF RoundLeft
  <2> QED
    BY <1>0, <1>1, <2>1, <2>2, <2>3 DEF GoesOut, IsOver
<1>6. ASSUME NEW i \in Children, RunTimesOut(i) PROVE GoesOut /\ IsTimed
  <2>1. /\ timedOut' = timedOut \cup {i} /\ i \notin timedOut
        /\ escalateIn' = [escalateIn EXCEPT ![i] = Earlier(escalateIn[i], KILL_GRACE)]
        /\ UNCHANGED <<child, deadlineIn, phase, round>>
    BY <1>6 DEF RunTimesOut, terminate
  <2>2. Armed' \subseteq Armed \cup {i}
    BY <1>0, <2>1 DEF Armed
  <2>3. Untimed' \subseteq Untimed /\ i \in Untimed /\ i \notin Untimed'
    BY <2>1 DEF Untimed
  <2> QED
    BY <1>0, <1>1, <2>1, <2>2, <2>3 DEF GoesOut, IsTimed
<1>7. ASSUME NEW i \in Children, Escalates(i) PROVE GoesOut /\ IsOver
  <2>1. /\ escalateIn[i] = 0 /\ escalateIn' = [escalateIn EXCEPT ![i] = Unset]
        /\ child' = [child EXCEPT ![i] = IF child[i] = "running" THEN "killed" ELSE child[i]]
        /\ UNCHANGED <<timedOut, deadlineIn, phase, round>>
    BY <1>7 DEF Escalates
  <2>2. Armed' \subseteq Armed /\ i \in Armed /\ i \notin Armed'
    BY <1>0, <2>1 DEF Armed
  <2>3. UnderWay' \subseteq UnderWay /\ Living' \subseteq Living /\ Open' \subseteq Open
    BY <1>0, <2>1 DEF UnderWay, Living, Open, ChildIn, Alive
  <2> QED
    BY <1>0, <1>1, <2>1, <2>2, <2>3 DEF GoesOut, IsOver
<1>8. CASE ProcessExitWaited \/ RoundWaited \/ DatabaseCloses \/ Deadline
  <2>1. PhasesLeft(phase') < PhasesLeft(phase)
    BY <1>8 DEF ProcessExitWaited, RoundWaited, DatabaseCloses, Deadline, PhasesLeft, WayOut
  <2>2. UNCHANGED <<child, escalateIn, timedOut, deadlineIn, round>>
    BY <1>8 DEF ProcessExitWaited, RoundWaited, DatabaseCloses, Deadline
  <2> QED
    BY <1>0, <1>1, <2>1, <2>2 DEF GoesOut, IsOver
<1>9. CASE Tick
  <2>1. deadlineIn' = deadlineIn - 1 /\ UNCHANGED <<child, timedOut, phase, round>>
    BY <1>0, <1>9 DEF Tick
  <2>2. Armed' \subseteq Armed
    <3>1. \A i \in Children : escalateIn[i] = Unset => escalateIn'[i] = Unset
      BY <1>9 DEF Tick
    <3> QED
      BY <3>1 DEF Armed
  <2> QED
    BY <1>0, <1>1, <2>1, <2>2 DEF GoesOut, IsOver
<1> QED
  BY <1>2, <1>3, <1>4, <1>5, <1>6, <1>7, <1>8, <1>9 DEF Next

LEMMA OutUsesUp ==
    ASSUME TypeOK, LeaveInv, LeavesInTime, TypeOK', Next
    PROVE  UsesUp
<1> SUFFICES ASSUME phase \in WayOut
             PROVE  StepsLeft \in Nat /\ StepsLeft' \in Nat /\ StepsLeft' < StepsLeft
  BY DEF UsesUp
<1>1. GoesOut /\ (IsOver \/ IsTimed)
  BY OutSteps
<1>2. /\ Cardinality(UnderWay') <= Cardinality(UnderWay)
      /\ Cardinality(UnderWay) \in Nat /\ Cardinality(UnderWay') \in Nat
  BY <1>1, SmallerSet DEF GoesOut, UnderWay, ChildIn
<1>3. /\ Cardinality(Living') <= Cardinality(Living)
      /\ Cardinality(Living) \in Nat /\ Cardinality(Living') \in Nat
      /\ Living' # Living => Cardinality(Living') < Cardinality(Living)
  BY <1>1, SmallerSet DEF GoesOut, Living, ChildIn
<1>4. /\ Cardinality(Open') <= Cardinality(Open)
      /\ Cardinality(Open) \in Nat /\ Cardinality(Open') \in Nat
      /\ Open' # Open => Cardinality(Open') < Cardinality(Open)
  BY <1>1, SmallerSet DEF GoesOut, Open, ChildIn
<1>5. /\ Cardinality(Untimed') <= Cardinality(Untimed)
      /\ Cardinality(Untimed) \in Nat /\ Cardinality(Untimed') \in Nat
      /\ Untimed' # Untimed => Cardinality(Untimed') < Cardinality(Untimed)
  BY <1>1, SmallerSet DEF GoesOut, Untimed
<1>6. /\ Cardinality(Armed) \in Nat /\ Cardinality(Armed') \in Nat
      /\ IsOver => /\ Cardinality(Armed') <= Cardinality(Armed)
                   /\ Armed' # Armed => Cardinality(Armed') < Cardinality(Armed)
      /\ IsTimed => Cardinality(Armed') <= Cardinality(Armed) + 1
  <2>1. Armed \in SUBSET Children /\ Armed' \in SUBSET Children
    BY DEF Armed
  <2>2. ASSUME NEW i \in Children, Armed' \subseteq Armed \cup {i}
        PROVE  Cardinality(Armed') <= Cardinality(Armed) + 1
    <3>1. Cardinality(Armed \cup {i}) <= Cardinality(Armed) + 1
      BY <2>1, SmallerSet, FS_AddElement
    <3>2. Cardinality(Armed') <= Cardinality(Armed \cup {i}) /\ Cardinality(Armed \cup {i}) \in Nat
      BY <2>1, <2>2, SmallerSet
    <3>3. Cardinality(Armed) \in Nat /\ Cardinality(Armed') \in Nat
      BY <2>1, SmallerSet
    <3> QED
      BY <3>1, <3>2, <3>3
  <2> QED
    BY <2>1, <2>2, SmallerSet DEF IsOver, IsTimed
<1>7. /\ PhasesLeft(phase) \in Nat /\ PhasesLeft(phase') \in Nat
      /\ RoundLeft(round) \in Nat /\ RoundLeft(round') \in Nat
  BY DEF PhasesLeft, RoundLeft
<1>8. deadlineIn \in Nat /\ deadlineIn' \in Nat
  BY Durations DEF TypeOK, Timer
<1>9. /\ StepsLeft = deadlineIn + PhasesLeft(phase) + RoundLeft(round)
           + (Cardinality(UnderWay) + Cardinality(Living) + Cardinality(Open))
           + (2 * Cardinality(Untimed) + Cardinality(Armed))
      /\ StepsLeft' = deadlineIn' + PhasesLeft(phase') + RoundLeft(round')
           + (Cardinality(UnderWay') + Cardinality(Living') + Cardinality(Open'))
           + (2 * Cardinality(Untimed') + Cardinality(Armed'))
  BY DEF StepsLeft, ChildrenLeft, TimersLeft, UnderWay, Living, Open
<1>10. CASE IsOver
  BY <1>1, <1>2, <1>3, <1>4, <1>5, <1>6, <1>7, <1>8, <1>9, <1>10 DEF GoesOut, IsOver
<1>11. CASE IsTimed
  BY <1>1, <1>2, <1>3, <1>4, <1>5, <1>6, <1>7, <1>8, <1>9, <1>11 DEF GoesOut, IsTimed
<1> QED
  BY <1>1, <1>10, <1>11

\* However many children there were and whatever the durations: from the closing of
\* the listeners on, leaving takes at most so many steps, of all actors together.
THEOREM WayOutIsFinite == Spec => NoWayBack
<1>1. Spec => [](IInv /\ LeavesInTime)
  <2>1. Init => IInv /\ LeavesInTime
    BY InitType, InitLeave DEF IInv, Init, LeavesInTime
  <2>2. IInv /\ LeavesInTime /\ [Next]_vars => IInv' /\ LeavesInTime'
    BY LeaveStep, TimeStep DEF IInv
  <2> QED
    BY <2>1, <2>2, PTL DEF Spec
<1>2. IInv /\ LeavesInTime /\ IInv' /\ [Next]_vars => [UsesUp]_vars
  BY OutUsesUp DEF IInv
<1> QED
  BY <1>1, <1>2, PTL DEF Spec, NoWayBack
=============================================================================
