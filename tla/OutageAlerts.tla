----------------------------- MODULE OutageAlerts -----------------------------
(***************************************************************************)
(* When a run of failed tests becomes an outage, and when it ends          *)
(* (util/outage.js): one watched target, its rows, the handler that        *)
(* records a test (tasks/speedtest.js: executeTarget) and the fan-out of   *)
(* its two messages (controller/integrations.js: triggerEvent).  Nothing   *)
(* is remembered between two tests: the streak is read from the rows, and  *)
(* every recipient's own number is compared with it when the message is    *)
(* fanned out, after the test that sent it has gone on.                    *)
(*                                                                         *)
(* The tests of one target follow each other (SpeedtestRound shows it).    *)
(* The ghosts episode, told and tampered record what happened and what was *)
(* said about it; no action's guard reads them.                            *)
(***************************************************************************)
EXTENDS Integers, Sequences, FiniteSetsExt

CONSTANTS Recipients,   \* the notifiers of the instance
          Lengths,      \* what outage_after may be
          MaxKept,      \* how many tests of the target the retention holds
          MaxRows,      \* bound: rows before the sweep must have run
          MaxFanOuts    \* bound: messages on their way at once

Off == 0                \* send_outage is not set

ASSUME LengthsAssumption == Lengths \subseteq Nat \ {0}
ASSUME KeptAssumption == MaxKept \in Nat
ASSUME RowsAssumption == MaxRows \in Nat
ASSUME KeptIsBelowRows == MaxKept < MaxRows

VARIABLES
  rows,         \* the outcomes of the target's tests, oldest first
  step,         \* where executeTarget stands
  retried,      \* its retry has had its turn
  ended,        \* the streak a success has read before its own row
  fanOuts,      \* the messages being fanned out
  outageAfter,  \* the number of each recipient, or Off
  alerts,       \* the flag of the target, as stored
  watched,      \* the flag of the target as the running test knows it
  episode,      \* ghost: the failures recorded since the last success, and whether one came
  told,         \* ghost: what each recipient has heard of the episode
  tampered      \* ghost: since the last success a row came or went behind the streak's back

test == <<step, retried, ended, watched>>
settings == <<outageAfter, alerts>>
ghosts == <<episode, told, tampered>>
vars == <<rows, test, fanOuts, settings, ghosts>>

Steps == {"idle", "running", "measured", "recording", "recorded", "failed", "counting"}

Heard == [outages : 0..2, recoveries : 0..2, excused : BOOLEAN]
NothingHeard(excused) == [outages |-> 0, recoveries |-> 0, excused |-> excused]

FanOut == [event : {"outage", "recovered"}, streak : 1..MaxRows,
           to : SUBSET Recipients, past : BOOLEAN]

Init ==
  /\ rows = <<>>
  /\ step = "idle" /\ retried = FALSE /\ ended = 0 /\ watched = FALSE
  /\ fanOuts = <<>> /\ alerts \in BOOLEAN
  /\ outageAfter \in [Recipients -> Lengths \cup {Off}]
  /\ episode = [failures |-> 0, over |-> TRUE]
  /\ told = [r \in Recipients |-> NothingHeard(FALSE)]
  /\ tampered = FALSE
-----------------------------------------------------------------------------
\* controller/speedtests.js: the rows after the newest success.
NewestSuccess == Max({0} \cup {i \in DOMAIN rows : rows[i] = "ok"})

\* Mutant: the newest success is counted with the failures it is subtracted from.
FailuresPastSuccess == Len(rows) - NewestSuccess - 1

\* Mutant: a failure stamped like the newest success is not "after" it.
FailuresStrictlyAfter ==
  Len(rows) - NewestSuccess - (IF NewestSuccess \in 1..(Len(rows) - 1) THEN 1 ELSE 0)

FailureStreak == Len(rows) - NewestSuccess

\* Mutant: every failure of a long enough streak.
EveryFailureAnnounces(streak, after) == streak >= after

\* Mutant: the end of any streak.
AnyRecovery(streak, after) == streak > 0

\* util/outage.js: the two edges, judged on the streak a message carries.
AnnouncesOutage(streak, after) == streak = after

AnnouncesRecovery(streak, after) == streak > 0 /\ streak >= after

\* suppressesEvent, and the switch every notifier's callback asks.
Reaches(fanOut, recipient) ==
  LET after == outageAfter[recipient]
  IN  /\ after # Off
      /\ IF fanOut.event = "outage" THEN AnnouncesOutage(fanOut.streak, after)
                                    ELSE AnnouncesRecovery(fanOut.streak, after)

AtMostTwo(n) == IF n < 2 THEN n ELSE 2

\* What an excused recipient hears in the rest of the episode is not counted.
Excused(whom) == [r \in Recipients |-> IF r \in whom THEN NothingHeard(TRUE) ELSE told[r]]

\* Fire and forget: triggerEvent is not awaited.  A streak of none sends nothing,
\* and the message of a target with its alerts off is suppressed for everyone.
Sent(event, streak) ==
  IF streak = 0 \/ Recipients = {} \/ ~watched THEN UNCHANGED fanOuts
  ELSE /\ Len(fanOuts) < MaxFanOuts
       /\ fanOuts' = Append(fanOuts, [event |-> event, streak |-> streak,
                                      to |-> Recipients, past |-> FALSE])
-----------------------------------------------------------------------------
TestStarts ==
  /\ step = "idle" /\ Len(rows) < MaxRows
  /\ step' = "running" /\ retried' = FALSE /\ ended' = 0 /\ watched' = alerts
  /\ UNCHANGED <<rows, fanOuts, settings, ghosts>>

TestMeasures ==
  /\ step = "running"
  /\ step' = "measured"
  /\ UNCHANGED <<rows, retried, ended, watched, fanOuts, settings, ghosts>>

\* The catch of executeTarget: once more, unless this was the second attempt,
\* the provider refused the first or the process is leaving.
Caught ==
  \/ ~retried /\ retried' = TRUE /\ step' = "running" /\ ended' = 0
  \/ step' = "failed" /\ ended' = 0 /\ retried' = FALSE

TestFails ==
  /\ step = "running"
  /\ Caught
  /\ UNCHANGED <<rows, watched, fanOuts, settings, ghosts>>

\* What the line was down for, read before the row that ends it; a read that
\* is refused reads as "not down".
EndedRead ==
  /\ step = "measured"
  /\ step' = "recording" /\ ended' = FailureStreak
  /\ UNCHANGED <<rows, retried, watched, fanOuts, settings, ghosts>>

EndedRefused ==
  /\ step = "measured"
  /\ step' = "recording" /\ ended' = 0
  /\ told' = Excused(Recipients)
  /\ UNCHANGED <<rows, retried, watched, fanOuts, settings, episode, tampered>>

SuccessRecorded ==
  /\ step = "recording"
  /\ step' = "recorded" /\ retried' = FALSE
  /\ rows' = Append(rows, "ok")
  /\ episode' = [episode EXCEPT !.over = TRUE]
  /\ tampered' = FALSE
  /\ UNCHANGED <<ended, watched, fanOuts, settings, told>>

SuccessRefused ==
  /\ step = "recording"
  /\ Caught
  /\ UNCHANGED <<rows, watched, fanOuts, settings, ghosts>>

RecoverySent ==
  /\ step = "recorded"
  /\ Sent("recovered", ended)
  /\ step' = "idle" /\ ended' = 0 /\ watched' = FALSE
  /\ UNCHANGED <<rows, retried, settings, ghosts>>

\* The first failure after a success opens a new episode: what was said of the
\* one before it, and what is still on its way, no longer counts.
FailureRecorded ==
  /\ step = "failed"
  /\ step' = "counting"
  /\ rows' = Append(rows, "failed")
  /\ IF episode.over
     THEN /\ episode' = [failures |-> 1, over |-> FALSE]
          /\ told' = [r \in Recipients |-> NothingHeard(tampered \/ ~(watched /\ alerts))]
          /\ fanOuts' = [i \in DOMAIN fanOuts |-> [fanOuts[i] EXCEPT !.past = TRUE]]
     ELSE /\ episode' = [episode EXCEPT !.failures = IF @ < MaxRows THEN @ + 1 ELSE @]
          /\ UNCHANGED <<told, fanOuts>>
  /\ UNCHANGED <<retried, ended, watched, settings, tampered>>

FailureRefused ==
  /\ step = "failed"
  /\ step' = "idle" /\ watched' = FALSE
  /\ UNCHANGED <<rows, retried, ended, fanOuts, settings, ghosts>>

\* How long this has been going on, read after the row so that it counts.
OutageSent ==
  /\ step = "counting"
  /\ Sent("outage", FailureStreak)
  /\ step' = "idle" /\ watched' = FALSE
  /\ UNCHANGED <<rows, retried, ended, settings, ghosts>>

StreakRefused ==
  /\ step = "counting"
  /\ step' = "idle" /\ watched' = FALSE
  /\ told' = Excused(Recipients)
  /\ UNCHANGED <<rows, retried, ended, fanOuts, settings, episode, tampered>>
-----------------------------------------------------------------------------
\* A message is done with one recipient: its row is read, the message judged
\* against it, and sent or not.  The others' turn is their own.
Leaves(i, recipient) ==
  LET rest == fanOuts[i].to \ {recipient}
  IN  fanOuts' = IF rest = {} THEN SubSeq(fanOuts, 1, i - 1) \o SubSeq(fanOuts, i + 1, Len(fanOuts))
                              ELSE [fanOuts EXCEPT ![i].to = rest]

Told(i, recipient) ==
  IF fanOuts[i].past \/ told[recipient].excused \/ ~Reaches(fanOuts[i], recipient) THEN told
  ELSE IF fanOuts[i].event = "outage"
       THEN [told EXCEPT ![recipient].outages = AtMostTwo(@ + 1)]
       ELSE [told EXCEPT ![recipient].recoveries = AtMostTwo(@ + 1)]

Delivered(i, recipient) ==
  /\ recipient \in fanOuts[i].to
  /\ told' = Told(i, recipient)
  /\ Leaves(i, recipient)
  /\ UNCHANGED <<rows, test, settings, episode, tampered>>

\* A send is tried once, and the read of the recipients may be refused.
Undelivered(i, recipient) ==
  /\ recipient \in fanOuts[i].to
  /\ told' = Excused({recipient})
  /\ Leaves(i, recipient)
  /\ UNCHANGED <<rows, test, settings, episode, tampered>>

\* The integration is edited: its switch or its number.
RecipientChanged(recipient, after) ==
  /\ outageAfter' = [outageAfter EXCEPT ![recipient] = after]
  /\ told' = Excused({recipient})
  /\ UNCHANGED <<rows, test, fanOuts, alerts, episode, tampered>>

\* The target is edited: whether it pages anybody.
AlertsChanged ==
  /\ alerts' = ~alerts
  /\ told' = Excused(Recipients)
  /\ UNCHANGED <<rows, test, fanOuts, outageAfter, episode, tampered>>

\* tests.removeOld, once a minute: the oldest row is past the retention.
SweptOld ==
  /\ Len(rows) > MaxKept
  /\ rows' = Tail(rows)
  /\ UNCHANGED <<test, fanOuts, settings, ghosts>>

\* The streak is what follows the newest success: it is not what it was if that
\* row or one after it goes, or if one comes in after it.
Disturbs(i) ==
  IF i >= NewestSuccess THEN told' = Excused(Recipients) /\ tampered' = TRUE
                        ELSE UNCHANGED <<told, tampered>>

\* DELETE /api/speedtests/:id
RowDeleted(i) ==
  /\ rows' = SubSeq(rows, 1, i - 1) \o SubSeq(rows, i + 1, Len(rows))
  /\ Disturbs(i)
  /\ UNCHANGED <<test, fanOuts, settings, episode>>

\* DELETE /api/speedtests
HistoryCleared ==
  /\ rows # <<>> /\ rows' = <<>>
  /\ Disturbs(Len(rows))
  /\ UNCHANGED <<test, fanOuts, settings, episode>>

\* importTests: a row of the past, between any two that are there.  It commits
\* a chunk at a time, and a test goes on in between.
RowImported(i, outcome) ==
  /\ Len(rows) < MaxRows - 1
  /\ rows' = SubSeq(rows, 1, i) \o <<outcome>> \o SubSeq(rows, i + 1, Len(rows))
  /\ Disturbs(i)
  /\ UNCHANGED <<test, fanOuts, settings, episode>>

\* The process is killed and started again: the rows are all it remembers.
Restarted ==
  /\ step' = "idle" /\ retried' = FALSE /\ ended' = 0 /\ watched' = FALSE /\ fanOuts' = <<>>
  /\ told' = Excused(IF step \in {"recorded", "counting"} THEN Recipients
                     ELSE UNION {fanOuts[i].to : i \in DOMAIN fanOuts})
  /\ UNCHANGED <<rows, settings, episode, tampered>>

Next ==
  \/ TestStarts \/ TestMeasures \/ TestFails
  \/ EndedRead \/ EndedRefused \/ SuccessRecorded \/ SuccessRefused \/ RecoverySent
  \/ FailureRecorded \/ FailureRefused \/ OutageSent \/ StreakRefused
  \/ \E i \in DOMAIN fanOuts, recipient \in Recipients :
       Delivered(i, recipient) \/ Undelivered(i, recipient)
  \/ \E recipient \in Recipients, after \in Lengths \cup {Off} : RecipientChanged(recipient, after)
  \/ AlertsChanged \/ SweptOld \/ HistoryCleared
  \/ \E i \in DOMAIN rows : RowDeleted(i)
  \/ \E i \in 0..Len(rows), outcome \in {"ok", "failed"} : RowImported(i, outcome)
  \/ Restarted

Spec == Init /\ [][Next]_vars
-----------------------------------------------------------------------------
\* The shape of the state.
TypeOK ==
  /\ rows \in Seq({"ok", "failed"})
  /\ Len(rows) <= MaxRows
  /\ step \in Steps /\ retried \in BOOLEAN /\ watched \in BOOLEAN /\ ended \in 0..MaxRows
  /\ fanOuts \in Seq(FanOut)
  /\ outageAfter \in [Recipients -> Lengths \cup {Off}] /\ alerts \in BOOLEAN
  /\ episode \in [failures : 0..MaxRows, over : BOOLEAN]
  /\ told \in [Recipients -> Heard]
  /\ tampered \in BOOLEAN

\* A recipient who has missed nothing of this episode and changed nothing in
\* it, and whose number the retention leaves room to count to.
Listening(r) == ~told[r].excused /\ outageAfter[r] < MaxKept

Quiet == step = "idle" /\ fanOuts = <<>>

\* util/outage.js, "once": whatever the order the messages arrive in, however
\* long the line stays down, however often the sweep or a restart comes in
\* between, nobody is told of one downtime twice, nor of its end.
OneOutage == \A r \in Recipients : Listening(r) => told[r].outages < 2 /\ told[r].recoveries < 2

\* Once everything has been said, a recipient has heard of the outage exactly
\* when the line failed as often in a row as it asked for: nothing about a
\* blip, and never silence about a line that is down, restarts included.
OutageIsTold ==
  Quiet => \A r \in Recipients : Listening(r) /\ outageAfter[r] # Off =>
             (told[r].outages = 1 <=> episode.failures >= outageAfter[r])

\* And it has heard of the recovery exactly when the line is back and it was
\* told that it had gone.
RecoveryIsOwed ==
  Quiet => \A r \in Recipients : Listening(r) =>
             told[r].recoveries = IF episode.over THEN told[r].outages ELSE 0
=============================================================================
