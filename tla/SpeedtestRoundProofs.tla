------------------------- MODULE SpeedtestRoundProofs -------------------------
(***************************************************************************)
(* What SpeedtestRound satisfies for any set of callers, targets and       *)
(* providers. TypeOK is not inductive by itself: a call may escape once    *)
(* more only because the loop it is in has escaped fewer than twice.       *)
(***************************************************************************)
EXTENDS SpeedtestRound, FiniteSetTheorems, TLAPS

\* A call still in its loop has not used up its escapes.
EscapesLeft ==
    \A c \in Callers : at[c] \notin {"verdict", "rows"} => call[c].escapes < MAX_CONSECUTIVE_ESCAPES

\* A member is at hand wherever the loop body speaks of one.
CurKnown ==
    \A c \in Callers :
      at[c] \in InRound \ {"top", "verdict", "rows"} => call[c].cur \in Members

IInv == TypeOK /\ EscapesLeft /\ CurKnown

\* What the code may change; the surroundings keep their own types.
CodeTypeOK ==
    /\ at \in [Callers -> {"idle", "finishing"} \cup Asking \cup HoldsLatch]
    /\ call \in [Callers -> Locals] /\ EscapesLeft /\ CurKnown

-----------------------------------------------------------------------------
USE DEF MAX_CONSECUTIVE_ESCAPES

LEMMA NoCallType == NoCall \in Locals /\ NoCall.escapes = 0
BY DEF NoCall, Locals, Members, Settings

\* What Init sets up.
LEMMA InitType == Init => IInv
<1> SUFFICES ASSUME Init PROVE IInv
  OBVIOUS
<1>1. call \in [Callers -> Locals] /\ EscapesLeft /\ CurKnown
  BY NoCallType DEF Init, EscapesLeft, CurKnown, InRound
<1>2. table \in [Members -> Settings] /\ latest \in [Members -> Outcomes]
  BY DEF Init, Settings, Outcomes
<1>3. changes \in 0..MaxChanges
  BY RoundAssumption DEF Init, RoundAssumption
<1>. QED  BY <1>1, <1>2, <1>3 DEF Init, IInv, TypeOK

\* Every way the actions update the locals of a call stays within their type.
LEMMA LocalsUpdates ==
    ASSUME NEW r \in Locals
    PROVE  /\ \A S \in SUBSET Members : [r EXCEPT !.left = S] \in Locals
           /\ \A S \in SUBSET Members, m \in Members :
                [r EXCEPT !.left = S, !.cur = m, !.retried = FALSE, !.failed = FALSE] \in Locals
           /\ \A b \in BOOLEAN, S \in SUBSET Members :
                [r EXCEPT !.alerts = b, !.unproven = S] \in Locals
           /\ [r EXCEPT !.retried = TRUE] \in Locals
           /\ \A e \in 0..2, f \in Nat : [r EXCEPT !.escapes = e, !.failures = f] \in Locals
           /\ \A f \in [Members -> Nat], b \in BOOLEAN, S \in SUBSET Members :
                [r EXCEPT !.rows = f, !.failed = b, !.unproven = S] \in Locals
           /\ \A l \in [Members -> Settings], S \in SUBSET (Members \cup {NoTarget}) :
                [r EXCEPT !.listed = l, !.asked = S, !.stood = FALSE] \in Locals
           /\ \A S \in SUBSET (Members \cup {NoTarget}), b \in BOOLEAN :
                [r EXCEPT !.asked = S, !.stood = b] \in Locals
           /\ \A t \in {"auto", "custom"}, n \in Targets \cup {NoTarget} :
                [r EXCEPT !.type = t, !.named = n] \in Locals
BY DEF Locals

LEMMA EscapeType ==
    ASSUME IInv, NEW c \in Callers, NEW error, NEW reached \in BOOLEAN,
           at[c] \in InRound \ {"verdict", "rows"}, Escape(c, error, reached)
    PROVE  CodeTypeOK'
<1> USE DEF IInv, TypeOK, CodeTypeOK, EscapesLeft, CurKnown, Escape, Asking, HoldsLatch, InRound
<1>1. call[c] \in Locals /\ call[c].escapes \in {0, 1}
  BY DEF Locals
<1>2. call' \in [Callers -> Locals]
  <2> DEFINE new == [call[c] EXCEPT !.escapes = @ + 1,
                                    !.failures = IF reached /\ call[c].alerts THEN @ + 1 ELSE @]
  <2>1. call[c].escapes + 1 \in 0..2
    BY <1>1
  <2>2. (IF reached /\ call[c].alerts THEN call[c].failures + 1 ELSE call[c].failures) \in Nat
    BY <1>1 DEF Locals
  <2>3. new \in Locals
    BY <2>1, <2>2, <1>1, LocalsUpdates
  <2>4. call' = [call EXCEPT ![c] = new]
    OBVIOUS
  <2>. QED  BY <2>3, <2>4
<1>3. at' \in [Callers -> {"idle", "finishing"} \cup Asking \cup HoldsLatch]
  OBVIOUS
<1>4. EscapesLeft' /\ CurKnown'
  BY <1>1
<1>. QED  BY <1>2, <1>3, <1>4

LEMMA DismissType ==
    ASSUME IInv, NEW c \in Callers, Dismiss(c)
    PROVE  CodeTypeOK'
BY NoCallType DEF IInv, TypeOK, CodeTypeOK, EscapesLeft, CurKnown, Dismiss, InRound

\* roundMembers only ever names members.
LEMMA RoundMembersType == \A n : roundMembers(n) \subseteq Members
BY RoundAssumption DEF roundMembers, roundTargets, Existing, Members, RoundAssumption

LEMMA RunRequestedType ==
    ASSUME IInv, NEW c \in Callers, NEW n \in Targets \cup {NoTarget}, RunRequested(c, n)
    PROVE  IInv'
<1>1. [NoCall EXCEPT !.type = "custom", !.named = n] \in Locals
  BY NoCallType, LocalsUpdates
<1>2. [NoCall EXCEPT !.type = "custom", !.named = n].escapes = 0
  BY DEF NoCall
<1>. QED
  BY <1>1, <1>2 DEF IInv, TypeOK, EscapesLeft, CurKnown, InRound, RunRequested, surroundings, Asking

LEMMA AskingType ==
    ASSUME IInv, NEW c \in Callers,
           RunCounted(c) \/ RunReserved(c) \/ AutoCreate(c) \/ RoundDeclined(c)
    PROVE  IInv'
<1> USE DEF IInv, TypeOK, CodeTypeOK, CurKnown, InRound, surroundings, Asking, HoldsLatch
<1>1. CASE RunCounted(c)
  BY <1>1, DismissType DEF RunCounted, EscapesLeft
<1>2. CASE RunReserved(c)
  <2>1. running' \in BOOLEAN
    BY <1>2 DEF RunReserved
  <2>2. CASE Dismiss(c)
    BY <1>2, <2>1, <2>2, DismissType DEF RunReserved
  <2>3. CASE ~Dismiss(c)
    BY <1>2, <2>1, <2>3 DEF RunReserved, EscapesLeft
  <2>. QED  BY <2>2, <2>3
<1>3. CASE AutoCreate(c)
  BY <1>3 DEF AutoCreate, EscapesLeft
<1>4. CASE RoundDeclined(c)
  BY <1>4, DismissType DEF RoundDeclined
<1>. QED  BY <1>1, <1>2, <1>3, <1>4

LEMMA RoundOpenedType ==
    ASSUME IInv, NEW c \in Callers, RoundOpened(c)
    PROVE  IInv'
<1>1. roundMembers(call[c].named) \in SUBSET Members
  BY RoundMembersType
<1>2. call[c] \in Locals
  BY DEF IInv, TypeOK
<1>3. [call[c] EXCEPT !.left = roundMembers(call[c].named)] \in Locals
  BY <1>1, <1>2, LocalsUpdates
<1>4. call' = [call EXCEPT ![c] = [call[c] EXCEPT !.left = roundMembers(call[c].named)]]
  BY DEF RoundOpened
<1>5. call' \in [Callers -> Locals]
  BY <1>3, <1>4 DEF IInv, TypeOK
<1>6. EscapesLeft' /\ CurKnown'
  BY <1>2 DEF RoundOpened, IInv, EscapesLeft, CurKnown, InRound, TypeOK, Locals
<1>. QED
  BY <1>5, <1>6 DEF RoundOpened, IInv, TypeOK, surroundings, Asking, HoldsLatch, InRound

LEMMA LoopTopType ==
    ASSUME IInv, NEW c \in Callers, LoopTop(c)
    PROVE  CodeTypeOK'
<1>1. call[c] \in Locals /\ call[c].left \in SUBSET Members
  BY DEF IInv, TypeOK, Locals
<1>2. CASE call[c].left = {} \/ shuttingDown \/ paused
  <2>1. at' = [at EXCEPT ![c] = "verdict"] /\ call' = call
    BY <1>2 DEF LoopTop
  <2>. QED
    BY <2>1 DEF IInv, TypeOK, CodeTypeOK, EscapesLeft, CurKnown, HoldsLatch, InRound
<1>3. CASE ~(call[c].left = {} \/ shuttingDown \/ paused)
  <2>1. PICK t \in call[c].left :
          /\ at' = [at EXCEPT ![c] = IF call[c].type = "auto" THEN "quietHours" ELSE "reading"]
          /\ call' = [call EXCEPT ![c].left = @ \ {t}, ![c].cur = t,
                                  ![c].retried = FALSE, ![c].failed = FALSE]
    BY <1>3 DEF LoopTop
  <2> DEFINE new == [call[c] EXCEPT !.left = call[c].left \ {t}, !.cur = t,
                                    !.retried = FALSE, !.failed = FALSE]
  <2>2. call' = [call EXCEPT ![c] = new]
    BY <2>1
  <2>3. new \in Locals
    BY <1>1, LocalsUpdates
  <2>4. new.escapes = call[c].escapes /\ new.cur \in Members
    BY <1>1 DEF Locals
  <2>5. at[c] = "top"
    BY DEF LoopTop
  <2>. QED
    BY <2>1, <2>2, <2>3, <2>4, <2>5 DEF IInv, TypeOK, CodeTypeOK, EscapesLeft, CurKnown, HoldsLatch, InRound
<1>. QED  BY <1>2, <1>3

LEMMA GuardsType ==
    ASSUME IInv, NEW c \in Callers, QuietHoursRead(c) \/ MemberRead(c)
    PROVE  CodeTypeOK'
<1>1. ASSUME at[c] \in {"quietHours", "reading"}, NEW error, Escape(c, error, FALSE)
      PROVE  CodeTypeOK'
  BY <1>1, EscapeType DEF CodeTypeOK, InRound
<1>2. ASSUME NEW alerts \in BOOLEAN, at[c] = "reading", BeginTarget(c, alerts)
      PROVE  CodeTypeOK'
  <2> DEFINE un == IF alerts THEN call[c].unproven \cup {call[c].cur} ELSE call[c].unproven
             new == [call[c] EXCEPT !.alerts = alerts, !.unproven = un]
  <2>1. call[c] \in Locals /\ call[c].cur \in Members
    BY <1>2 DEF IInv, TypeOK, CurKnown, InRound
  <2>2. un \in SUBSET Members
    BY <2>1, <1>2 DEF Locals
  <2>3. new \in Locals /\ new.escapes = call[c].escapes /\ new.cur = call[c].cur
    <3>1. new \in Locals
      BY <2>1, <2>2, LocalsUpdates
    <3>2. new.escapes = call[c].escapes /\ new.cur = call[c].cur
      BY <2>1 DEF Locals
    <3>. QED  BY <3>1, <3>2
  <2>4. call' = [call EXCEPT ![c] = new]
    BY <1>2 DEF BeginTarget
  <2>. QED
    BY <1>2, <2>3, <2>4 DEF BeginTarget, IInv, TypeOK, CodeTypeOK, EscapesLeft, CurKnown, HoldsLatch, InRound
<1>3. CASE QuietHoursRead(c)
  <2>1. CASE \E error \in Refusals : Escape(c, error, FALSE)
    BY <1>1, <1>3, <2>1 DEF QuietHoursRead
  <2>2. CASE at' = [at EXCEPT ![c] = IF quiet THEN "verdict" ELSE "reading"] /\ UNCHANGED call
    <3>1. at[c] = "quietHours"
      BY <1>3 DEF QuietHoursRead
    <3>. QED  BY <2>2, <3>1 DEF IInv, TypeOK, CodeTypeOK, EscapesLeft, CurKnown, HoldsLatch, InRound
  <2>. QED  BY <1>3, <2>1, <2>2 DEF QuietHoursRead
<1>4. CASE MemberRead(c)
  <2>1. at[c] = "reading"
    BY <1>4 DEF MemberRead
  <2>2. CASE preview
    BY <1>2, <1>4, <2>1, <2>2 DEF MemberRead
  <2>3. CASE ~preview /\ \E error \in Refusals : Escape(c, error, FALSE)
    BY <1>1, <2>1, <2>3
  <2>4. CASE ~preview /\ BeginTarget(c, table[call[c].cur].alerts)
    <3>1. table[call[c].cur].alerts \in BOOLEAN
      BY <2>1, <2>4 DEF IInv, TypeOK, CurKnown, InRound, Settings
    <3>. QED  BY <1>2, <2>1, <2>4, <3>1
  <2>5. CASE at' = [at EXCEPT ![c] = "top"] /\ UNCHANGED call
    BY <2>1, <2>5 DEF IInv, TypeOK, CodeTypeOK, EscapesLeft, CurKnown, HoldsLatch, InRound
  <2>. QED  BY <1>4, <2>2, <2>3, <2>4, <2>5 DEF MemberRead
<1>. QED  BY <1>3, <1>4

LEMMA RetryOrFailType ==
    ASSUME IInv, NEW c \in Callers, at[c] \in {"measuring", "recording"},
           NEW rateLimited, RetryOrFail(c, rateLimited)
    PROVE  CodeTypeOK'
<1> USE DEF IInv, TypeOK, CodeTypeOK, EscapesLeft, CurKnown, HoldsLatch, InRound
<1>1. CASE at' = [at EXCEPT ![c] = "failing"] /\ UNCHANGED call
  BY <1>1
<1>2. CASE at' = [at EXCEPT ![c] = "measuring"] /\ call' = [call EXCEPT ![c].retried = TRUE]
  <2> DEFINE new == [call[c] EXCEPT !.retried = TRUE]
  <2>1. call[c] \in Locals
    OBVIOUS
  <2>2. new \in Locals
    BY <2>1, LocalsUpdates
  <2>3. new.escapes = call[c].escapes /\ new.cur = call[c].cur
    BY <2>1 DEF Locals
  <2>4. call' = [call EXCEPT ![c] = new]
    BY <1>2
  <2>. QED  BY <1>2, <2>2, <2>3, <2>4
<1>. QED  BY <1>1, <1>2 DEF RetryOrFail

LEMMA WriteRowType ==
    ASSUME IInv, NEW c \in Callers, at[c] \in {"recording", "failing"},
           NEW outcome \in {"ok", "failed"}, WriteRow(c, outcome)
    PROVE  CodeTypeOK' /\ latest' \in [Members -> Outcomes]
<1> DEFINE rows == [call[c].rows EXCEPT ![call[c].cur] = @ + 1]
           un == IF outcome = "ok" THEN call[c].unproven \ {call[c].cur} ELSE call[c].unproven
           new == [call[c] EXCEPT !.rows = rows, !.failed = (outcome = "failed"), !.unproven = un]
<1>1. call[c] \in Locals /\ call[c].cur \in Members
  BY DEF IInv, TypeOK, CurKnown, InRound
<1>2. rows \in [Members -> Nat] /\ un \in SUBSET Members /\ (outcome = "failed") \in BOOLEAN
  BY <1>1 DEF Locals
<1>3. new \in Locals
  BY <1>1, <1>2, LocalsUpdates
<1>4. new.escapes = call[c].escapes /\ new.cur = call[c].cur
  BY <1>1 DEF Locals
<1>5. call' = [call EXCEPT ![c] = new]
  BY <1>1 DEF WriteRow
<1>6. at' = [at EXCEPT ![c] = "after"]
  BY DEF WriteRow
<1>7. latest' \in [Members -> Outcomes]
  BY DEF WriteRow, IInv, TypeOK, Outcomes
<1>. QED
  BY <1>1, <1>3, <1>4, <1>5, <1>6, <1>7
     DEF IInv, TypeOK, CodeTypeOK, EscapesLeft, CurKnown, HoldsLatch, InRound

LEMMA TargetDoneType ==
    ASSUME IInv, NEW c \in Callers, TargetDone(c)
    PROVE  CodeTypeOK'
<1> DEFINE fails == IF call[c].alerts /\ call[c].failed THEN call[c].failures + 1
                                                         ELSE call[c].failures
           new == [call[c] EXCEPT !.escapes = 0, !.failures = fails]
<1>1. call[c] \in Locals
  BY DEF IInv, TypeOK
<1>2. fails \in Nat /\ 0 \in 0..2
  BY <1>1 DEF Locals
<1>3. new \in Locals
  BY <1>1, <1>2, LocalsUpdates
<1>4. new.escapes = 0 /\ new.cur = call[c].cur
  BY <1>1 DEF Locals
<1>5. call' = [call EXCEPT ![c] = new]
  BY DEF TargetDone
<1>6. at[c] = "after" /\ at' = [at EXCEPT ![c] = IF call[c].left = {} THEN "top" ELSE "settling"]
  BY DEF TargetDone
<1>. QED
  BY <1>1, <1>3, <1>4, <1>5, <1>6
     DEF IInv, TypeOK, CodeTypeOK, EscapesLeft, CurKnown, HoldsLatch, InRound

LEMMA ExecuteTargetType ==
    ASSUME IInv, NEW c \in Callers,
           \/ Measured(c) \/ (\E rateLimited \in BOOLEAN : MeasureFailed(c, rateLimited))
           \/ RecordResult(c) \/ RecordFailure(c) \/ TargetDone(c) \/ SettleLine(c)
    PROVE  IInv'
<1>1. CASE Measured(c)
  <2>1. at[c] = "measuring" /\ at' = [at EXCEPT ![c] = "recording"] /\ call' = call
    BY <1>1 DEF Measured
  <2>2. CodeTypeOK'
    BY <2>1 DEF IInv, TypeOK, CodeTypeOK, EscapesLeft, CurKnown, HoldsLatch, InRound
  <2>. QED  BY <1>1, <2>2 DEF Measured, IInv, TypeOK, CodeTypeOK, surroundings
<1>2. ASSUME NEW rateLimited \in BOOLEAN, MeasureFailed(c, rateLimited)
      PROVE  IInv'
  <2>1. at[c] = "measuring" /\ RetryOrFail(c, rateLimited)
    BY <1>2 DEF MeasureFailed
  <2>2. CodeTypeOK'
    BY <2>1, RetryOrFailType
  <2>3. held' \subseteq Providers
    <3>1. call[c].cur \in Members
      BY <1>2 DEF MeasureFailed, IInv, CurKnown, InRound
    <3>2. ProviderOf[call[c].cur] \in Providers
      BY <3>1, RoundAssumption DEF RoundAssumption, Members
    <3>3. held' = held \/ held' = held \cup {ProviderOf[call[c].cur]}
      BY <1>2 DEF MeasureFailed
    <3>. QED  BY <3>2, <3>3 DEF IInv, TypeOK
  <2>. QED  BY <1>2, <2>2, <2>3 DEF MeasureFailed, IInv, TypeOK, CodeTypeOK, surroundings
<1>3. CASE RecordResult(c)
  <2>1. at[c] = "recording"
    BY <1>3 DEF RecordResult
  <2>2. CASE WriteRow(c, "ok")
    BY <1>3, <2>1, <2>2, WriteRowType DEF RecordResult, IInv, TypeOK, CodeTypeOK, surroundings
  <2>3. CASE RetryOrFail(c, FALSE) /\ UNCHANGED latest
    BY <1>3, <2>1, <2>3, RetryOrFailType DEF RecordResult, IInv, TypeOK, CodeTypeOK, surroundings
  <2>. QED  BY <1>3, <2>2, <2>3 DEF RecordResult
<1>4. CASE RecordFailure(c)
  <2>1. at[c] = "failing"
    BY <1>4 DEF RecordFailure
  <2>2. CASE WriteRow(c, "failed")
    BY <1>4, <2>1, <2>2, WriteRowType DEF RecordFailure, IInv, TypeOK, CodeTypeOK, surroundings
  <2>3. ASSUME NEW error, Escape(c, error, TRUE), UNCHANGED latest
        PROVE  IInv'
    <3>1. CodeTypeOK'
      BY <2>1, <2>3, EscapeType DEF InRound
    <3>. QED  BY <1>4, <2>3, <3>1 DEF RecordFailure, IInv, TypeOK, CodeTypeOK, surroundings
  <2>. QED  BY <1>4, <2>2, <2>3 DEF RecordFailure
<1>5. CASE TargetDone(c)
  BY <1>5, TargetDoneType DEF TargetDone, IInv, TypeOK, CodeTypeOK, surroundings
<1>6. CASE SettleLine(c)
  <2>1. at[c] = "settling" /\ at' = [at EXCEPT ![c] = "top"] /\ call' = call
    BY <1>6 DEF SettleLine
  <2>2. CodeTypeOK'
    BY <2>1 DEF IInv, TypeOK, CodeTypeOK, EscapesLeft, CurKnown, HoldsLatch, InRound
  <2>. QED  BY <1>6, <2>2 DEF SettleLine, IInv, TypeOK, CodeTypeOK, surroundings
<1>. QED  BY <1>1, <1>2, <1>3, <1>4, <1>5, <1>6

LEMMA ReleaseType ==
    ASSUME IInv, NEW c \in Callers,
           VerdictKnown(c) \/ VerdictRead(c) \/ VerdictLost(c) \/ Finish(c)
    PROVE  IInv'
<1>1. CASE Finish(c)
  BY <1>1, DismissType DEF Finish, IInv, TypeOK, CodeTypeOK, surroundings
<1>2. CASE ~Finish(c)
  <2>1. PICK v \in {"none", "running", "clean", "failed", "unanswered"} : Release(c, v)
    BY <1>2 DEF VerdictKnown, VerdictRead, VerdictLost, IInv, TypeOK
  <2>2. CodeTypeOK'
    BY <2>1, NoCallType DEF Release, IInv, TypeOK, CodeTypeOK, EscapesLeft, CurKnown, InRound
  <2>. QED  BY <2>1, <2>2 DEF Release, IInv, TypeOK, CodeTypeOK
<1>. QED  BY <1>1, <1>2

\* The reads of the verdict.
LEMMA ReadsType ==
    ASSUME IInv, NEW c \in Callers,
           TargetsListed(c) \/ \E t \in Members \cup {NoTarget} : RowRead(c, t)
    PROVE  IInv'
<1>0. call[c] \in Locals /\ table \in [Members -> Settings] /\ latest \in [Members -> Outcomes]
  BY DEF IInv, TypeOK
<1>1. CASE TargetsListed(c)
  <2> DEFINE S == IF Existing = {} THEN {NoTarget} ELSE watched(table)
             new == [call[c] EXCEPT !.listed = table, !.asked = S, !.stood = FALSE]
  <2>1. S \in SUBSET (Members \cup {NoTarget})
    BY DEF watched
  <2>2. new \in Locals
    BY <1>0, <2>1, LocalsUpdates
  <2>3. call' = [call EXCEPT ![c] = new] /\ at' = [at EXCEPT ![c] = "rows"]
    BY <1>1 DEF TargetsListed
  <2>4. call' \in [Callers -> Locals]
    BY <2>2, <2>3 DEF IInv, TypeOK
  <2>5. at' \in [Callers -> {"idle", "finishing"} \cup Asking \cup HoldsLatch]
    BY <2>3 DEF IInv, TypeOK, HoldsLatch, InRound
  <2>6. EscapesLeft' /\ CurKnown'
    BY <2>3 DEF IInv, TypeOK, EscapesLeft, CurKnown, InRound
  <2>7. moments' \subseteq [table : [Members -> Settings], latest : [Members -> Outcomes]]
    <3>1. moments' = {[table |-> table, latest |-> latest]}
      BY <1>1 DEF TargetsListed
    <3>2. [table |-> table, latest |-> latest]
            \in [table : [Members -> Settings], latest : [Members -> Outcomes]]
      BY <1>0
    <3>. QED  BY <3>1, <3>2
  <2>. QED  BY <1>1, <2>4, <2>5, <2>6, <2>7 DEF TargetsListed, IInv, TypeOK
<1>2. ASSUME NEW t \in Members \cup {NoTarget}, RowRead(c, t) PROVE IInv'
  <2>1. PICK stands \in IF t = NoTarget THEN BOOLEAN ELSE {standing(t, call[c].listed, latest)} :
          call' = [call EXCEPT ![c].asked = @ \ {t}, ![c].stood = @ \/ stands]
    BY <1>2 DEF RowRead
  <2> DEFINE S == call[c].asked \ {t}
             b == call[c].stood \/ stands
             new == [call[c] EXCEPT !.asked = S, !.stood = b]
  <2>2. S \in SUBSET (Members \cup {NoTarget}) /\ b \in BOOLEAN
    BY <1>0 DEF Locals
  <2>3. new \in Locals /\ new.escapes = call[c].escapes /\ new.cur = call[c].cur
    <3>1. new \in Locals
      BY <1>0, <2>2, LocalsUpdates
    <3>. QED  BY <1>0, <3>1 DEF Locals
  <2>4. call' = [call EXCEPT ![c] = new] /\ at' = at
    BY <1>2, <2>1 DEF RowRead
  <2> HIDE DEF new
  <2>5. call' \in [Callers -> Locals]
    BY <2>3, <2>4 DEF IInv, TypeOK
  <2>6. EscapesLeft' /\ CurKnown'
    BY <2>3, <2>4 DEF IInv, TypeOK, EscapesLeft, CurKnown, InRound
  <2>. QED  BY <1>2, <2>4, <2>5, <2>6 DEF RowRead, surroundings, IInv, TypeOK
<1>. QED  BY <1>1, <1>2

LEMMA EnvironmentType == IInv /\ Environment => IInv'
<1> SUFFICES ASSUME IInv, Environment PROVE IInv'
  OBVIOUS
<1>1. CodeTypeOK' /\ running' \in BOOLEAN /\ keepAlive' \in {"ping", "running"}
      /\ report' \in {"none", "running", "clean", "failed", "unanswered"}
  BY DEF Environment, PauseToggled, QuietToggled, DbToggled, MarkShutdown, HoldExpires, RowAges,
         TargetEdited, RowDeleted, Change, IInv, TypeOK, CodeTypeOK, EscapesLeft, CurKnown
<1>2. changes' \in 0..MaxChanges
  BY RoundAssumption
     DEF Environment, PauseToggled, QuietToggled, DbToggled, MarkShutdown, HoldExpires, RowAges,
         TargetEdited, RowDeleted, Change, IInv, TypeOK, RoundAssumption
<1>3. table' \in [Members -> Settings]
  <2>1. ASSUME NEW t, TargetEdited(t) PROVE table' \in [Members -> Settings]
    <3>1. table[t] \in Settings \/ t \notin Members
      BY DEF IInv, TypeOK
    <3>2. PICK row \in {[table[t] EXCEPT !.exists = FALSE],
                        [table[t] EXCEPT !.enabled = ~@], [table[t] EXCEPT !.alerts = ~@]} :
            table' = [table EXCEPT ![t] = row]
      BY <2>1 DEF TargetEdited
    <3>3. row \in Settings \/ t \notin Members
      BY <3>1, <3>2 DEF Settings
    <3>. QED  BY <3>2, <3>3 DEF IInv, TypeOK
  <2>. QED
    BY <2>1 DEF Environment, PauseToggled, QuietToggled, DbToggled, MarkShutdown, HoldExpires,
                RowAges, RowDeleted, Change, IInv, TypeOK
<1>4. latest' \in [Members -> Outcomes] /\ held' \subseteq Providers
  BY DEF Environment, PauseToggled, QuietToggled, DbToggled, MarkShutdown, HoldExpires, RowAges,
         TargetEdited, RowDeleted, Change, IInv, TypeOK, Outcomes
<1>7. moments' \subseteq [table : [Members -> Settings], latest : [Members -> Outcomes]]
  BY <1>3, <1>4
     DEF Environment, PauseToggled, QuietToggled, DbToggled, MarkShutdown, HoldExpires, RowAges,
         TargetEdited, RowDeleted, Witness, IInv, TypeOK
<1>5. <<paused, quiet, shuttingDown, dbUp>>' \in BOOLEAN \X BOOLEAN \X BOOLEAN \X BOOLEAN
  BY DEF Environment, PauseToggled, QuietToggled, DbToggled, MarkShutdown, HoldExpires, RowAges,
         TargetEdited, RowDeleted, Change, IInv, TypeOK
<1>6. preview' \in BOOLEAN
  <2>1. UNCHANGED preview
    BY DEF Environment, PauseToggled, QuietToggled, DbToggled, MarkShutdown, HoldExpires, RowAges,
           TargetEdited, RowDeleted, Change
  <2>. QED  BY <2>1, Zenon DEF IInv, TypeOK
<1>. QED  BY <1>1, <1>2, <1>3, <1>4, <1>5, <1>6, <1>7 DEF IInv, TypeOK, CodeTypeOK

LEMMA NextType == IInv /\ [Next]_vars => IInv'
<1> SUFFICES ASSUME IInv, [Next]_vars PROVE IInv'
  OBVIOUS
<1>1. ASSUME NEW c \in Callers, LoopTop(c) \/ QuietHoursRead(c) \/ MemberRead(c)
      PROVE  IInv'
  <2>1. CodeTypeOK'
    BY <1>1, LoopTopType, GuardsType
  <2>. QED
    BY <1>1, <2>1 DEF LoopTop, QuietHoursRead, MemberRead, IInv, TypeOK, CodeTypeOK, surroundings
<1>2. CASE UNCHANGED vars
  BY <1>2 DEF vars, code, surroundings, IInv, TypeOK, EscapesLeft, CurKnown
<1>. QED
  BY <1>1, <1>2, RunRequestedType, AskingType, RoundOpenedType, ExecuteTargetType, ReleaseType,
     ReadsType, EnvironmentType
     DEF Next, Round

-----------------------------------------------------------------------------
\* Type correctness: whatever the callers, the targets and the surroundings do,
\* the locals of every call, the latch and the announcements keep their types;
\* in particular no round counts past MAX_CONSECUTIVE_ESCAPES.
THEOREM TypeCorrect == Spec => []TypeOK
<1>1. Spec => []IInv
  BY InitType, NextType, PTL DEF Spec
<1>2. IInv => TypeOK
  BY DEF IInv
<1>. QED  BY <1>1, <1>2, PTL

-----------------------------------------------------------------------------
(* The members of a round. Every step of a call is of one of nine kinds.    *)

NoRows == [m \in Members |-> 0]
Measuring == {"measuring", "recording", "failing"}

\* How many steps at most a call has before it is done with its member.
Pace(place, retried) ==
    CASE place = "quietHours" -> 10 [] place = "reading" -> 9
      [] place = "measuring" -> IF retried THEN 6 ELSE 8
      [] place = "recording" -> IF retried THEN 5 ELSE 7
      [] place = "failing" -> 4 [] place = "after" -> 3 [] place = "settling" -> 2
      [] place = "top" -> 1 [] OTHER -> 0

\* The member at hand has no row yet.
Unwritten == {"quietHours", "reading"} \cup Measuring

\* The locals the kinds speak of: what a call knows of its members.
KeepsRows(c) ==
    /\ call'[c].rows = call[c].rows /\ call'[c].left = call[c].left
    /\ call'[c].cur = call[c].cur
KeepsMembers(c) ==
    /\ KeepsRows(c)
    /\ call'[c].unproven = call[c].unproven /\ call'[c].failures = call[c].failures
    /\ call'[c].alerts = call[c].alerts

\* From one guard or await of the same member to the next.
Strolls(c) ==
    /\ KeepsMembers(c)
    /\ at[c] \in InRound \ {"after", "rows"} /\ at'[c] \in InRound \ {"after", "rows"}
    /\ at'[c] \in Unwritten => at[c] \in Unwritten
    /\ at'[c] \in Measuring <=> at[c] \in Measuring
    /\ Pace(at'[c], call'[c].retried) < Pace(at[c], call[c].retried)

Escapes(c) ==
    /\ KeepsRows(c) /\ call'[c].unproven = call[c].unproven
    /\ at[c] \in {"quietHours", "reading", "failing"} /\ at'[c] \in {"top", "verdict"}
    /\ call'[c].failures = IF at[c] = "failing" /\ call[c].alerts THEN call[c].failures + 1
                                                                  ELSE call[c].failures

Begins(c) ==
    /\ KeepsRows(c) /\ call'[c].failures = call[c].failures
    /\ at[c] = "reading" /\ at'[c] = "measuring"
    /\ call'[c].unproven = IF call'[c].alerts THEN call[c].unproven \cup {call[c].cur}
                                              ELSE call[c].unproven

Writes(c) ==
    /\ at[c] \in {"recording", "failing"} /\ at'[c] = "after"
    /\ call'[c].left = call[c].left /\ call'[c].cur = call[c].cur
    /\ call'[c].rows = [call[c].rows EXCEPT ![call[c].cur] = @ + 1]
    /\ call'[c].alerts = call[c].alerts /\ call'[c].failures = call[c].failures
    /\ \/ call'[c].failed /\ call'[c].unproven = call[c].unproven
       \/ ~call'[c].failed /\ call'[c].unproven = call[c].unproven \ {call[c].cur}

Counts(c) ==
    /\ KeepsRows(c) /\ call'[c].unproven = call[c].unproven
    /\ at[c] = "after" /\ at'[c] \in {"top", "settling"}
    /\ call'[c].failures = IF call[c].alerts /\ call[c].failed THEN call[c].failures + 1
                                                               ELSE call[c].failures

Picks(c) ==
    /\ at[c] = "top" /\ at'[c] \in {"quietHours", "reading"}
    /\ call'[c].cur \in call[c].left /\ call'[c].left = call[c].left \ {call'[c].cur}
    /\ call'[c].rows = call[c].rows
    /\ call'[c].unproven = call[c].unproven /\ call'[c].failures = call[c].failures

Opens(c) ==
    /\ at[c] = "members" /\ at'[c] = "top"
    /\ call'[c].rows = call[c].rows
    /\ call'[c].unproven = call[c].unproven /\ call'[c].failures = call[c].failures

\* Outside a round a call knows nothing of members.
Rests(c) ==
    /\ at'[c] \notin InRound /\ (at[c] \in InRound => at'[c] = "finishing")
    /\ \/ call'[c].rows = NoRows /\ call'[c].unproven = {} /\ call'[c].failures = 0
       \/ /\ at[c] \notin InRound
          /\ call'[c].rows = call[c].rows
          /\ call'[c].unproven = call[c].unproven /\ call'[c].failures = call[c].failures

KindOf(c) ==
    \/ Strolls(c) \/ Escapes(c) \/ Begins(c) \/ Writes(c)
    \/ Counts(c) \/ Picks(c) \/ Opens(c) \/ Rests(c)

\* How many answers the verdict waits for; before it has listed the targets, more
\* than they can be.
ReadsLeft(c) ==
    IF at[c] = "rows" THEN Cardinality(call[c].asked) ELSE Cardinality(Members) + 2

\* What the verdict reads is not about the members.
Reads(c) ==
    /\ KeepsMembers(c) /\ call'[c].retried = call[c].retried
    /\ at[c] \in {"verdict", "rows"} /\ at'[c] = "rows"
    /\ at[c] = "verdict" => ~preview /\ ~(call[c].failures > 0)

\* One call moves at a time.
Only(c) == \A d \in Callers \ {c} : at'[d] = at[d] /\ call'[d] = call[d]

LEMMA DismissRests ==
    ASSUME TypeOK, NEW c \in Callers, Dismiss(c), at[c] \notin InRound
    PROVE  Rests(c) /\ Only(c)
BY DEF TypeOK, Dismiss, Rests, Only, NoCall, NoRows, InRound

\* The ways in and out of a round, and its end.
LEMMA EdgeKinds ==
    ASSUME TypeOK, NEW c \in Callers,
           \/ \E n \in Targets \cup {NoTarget} : RunRequested(c, n)
           \/ AutoCreate(c) \/ RunCounted(c) \/ RunReserved(c) \/ RoundDeclined(c)
           \/ RoundOpened(c) \/ VerdictKnown(c) \/ VerdictRead(c) \/ VerdictLost(c) \/ Finish(c)
    PROVE  KindOf(c) /\ Only(c)
<1> USE DEF KindOf
<1>0. at \in [Callers -> {"idle", "finishing"} \cup Asking \cup HoldsLatch] /\ call \in [Callers -> Locals]
  BY DEF TypeOK
<1>1. ASSUME NEW n \in Targets \cup {NoTarget}, RunRequested(c, n) PROVE Rests(c) /\ Only(c)
  BY <1>0, <1>1 DEF RunRequested, Rests, Only, NoCall, NoRows, InRound
<1>2. CASE AutoCreate(c)
  BY <1>0, <1>2 DEF AutoCreate, Rests, Only, InRound
<1>3. CASE RunCounted(c)
  <2>1. at[c] \notin InRound
    BY <1>3 DEF RunCounted, InRound
  <2> QED
    BY <1>0, <1>3, <2>1, DismissRests DEF RunCounted, Rests, Only, InRound
<1>4. CASE RunReserved(c)
  <2>1. at[c] \notin InRound
    BY <1>4 DEF RunReserved, InRound
  <2> QED
    BY <1>0, <1>4, <2>1, DismissRests DEF RunReserved, Rests, Only, InRound
<1>5. CASE RoundDeclined(c) \/ Finish(c)
  <2>1. at[c] \notin InRound
    BY <1>5 DEF RoundDeclined, Finish, InRound
  <2> QED
    BY <1>5, <2>1, DismissRests DEF RoundDeclined, Finish
<1>6. CASE RoundOpened(c)
  <2>1. call[c] \in Locals
    BY <1>0
  <2> QED
    BY <1>0, <1>6, <2>1 DEF RoundOpened, Opens, Only, Locals
<1>7. CASE VerdictKnown(c) \/ VerdictRead(c) \/ VerdictLost(c)
  BY <1>0, <1>7
     DEF VerdictKnown, VerdictRead, VerdictLost, Release, Rests, Only, NoCall, NoRows, InRound
<1> QED
  BY <1>1, <1>2, <1>3, <1>4, <1>5, <1>6, <1>7

LEMMA EscapeKinds ==
    ASSUME TypeOK, NEW c \in Callers, NEW error,
           at[c] \in {"quietHours", "reading", "failing"}, Escape(c, error, at[c] = "failing")
    PROVE  Escapes(c) /\ Only(c)
<1>1. call[c] \in Locals /\ call \in [Callers -> Locals] /\ at \in [Callers -> {"idle", "finishing"} \cup Asking \cup HoldsLatch]
  BY DEF TypeOK
<1> QED
  BY <1>1 DEF Escape, Escapes, KeepsRows, Only, Locals

\* The loop and its guards.
LEMMA LoopKinds ==
    ASSUME TypeOK, NEW c \in Callers, LoopTop(c) \/ QuietHoursRead(c) \/ MemberRead(c)
    PROVE  KindOf(c) /\ Only(c)
<1> USE DEF KindOf
<1>0. /\ at \in [Callers -> {"idle", "finishing"} \cup Asking \cup HoldsLatch]
      /\ call \in [Callers -> Locals] /\ call[c] \in Locals
  BY DEF TypeOK
<1>1. ASSUME at[c] \in {"top", "quietHours", "reading"}, UNCHANGED call,
             NEW v \in {"verdict", "reading", "top"}, at' = [at EXCEPT ![c] = v],
             v = "reading" => at[c] = "quietHours", v = "top" => at[c] = "reading"
      PROVE  Strolls(c) /\ Only(c)
  BY <1>0, <1>1 DEF Strolls, Only, KeepsMembers, KeepsRows, InRound, Unwritten, Measuring, Pace
<1>2. CASE LoopTop(c)
  <2>1. CASE call[c].left = {} \/ shuttingDown \/ paused
    BY <1>1, <1>2, <2>1 DEF LoopTop
  <2>2. CASE ~(call[c].left = {} \/ shuttingDown \/ paused)
    <3>1. PICK t \in call[c].left :
            /\ at' = [at EXCEPT ![c] = IF call[c].type = "auto" THEN "quietHours" ELSE "reading"]
            /\ call' = [call EXCEPT ![c].left = @ \ {t}, ![c].cur = t,
                                    ![c].retried = FALSE, ![c].failed = FALSE]
      BY <1>2, <2>2 DEF LoopTop
    <3>2. at[c] = "top"
      BY <1>2 DEF LoopTop
    <3> QED
      BY <1>0, <3>1, <3>2 DEF Picks, Only, Locals
  <2> QED
    BY <2>1, <2>2
<1>3. CASE QuietHoursRead(c)
  <2>1. at[c] = "quietHours"
    BY <1>3 DEF QuietHoursRead
  <2>2. CASE at' = [at EXCEPT ![c] = IF quiet THEN "verdict" ELSE "reading"] /\ UNCHANGED call
    BY <1>1, <2>1, <2>2
  <2>3. ASSUME NEW error, Escape(c, error, FALSE) PROVE Escapes(c) /\ Only(c)
    <3>1. Escape(c, error, at[c] = "failing")
      BY <2>1, <2>3
    <3> QED
      BY <2>1, <3>1, EscapeKinds
  <2> QED
    BY <1>3, <2>2, <2>3 DEF QuietHoursRead
<1>4. CASE MemberRead(c)
  <2>1. at[c] = "reading"
    BY <1>4 DEF MemberRead
  <2>2. ASSUME NEW alerts, BeginTarget(c, alerts) PROVE Begins(c) /\ Only(c)
    BY <1>0, <2>1, <2>2 DEF BeginTarget, Begins, KeepsRows, Only, Locals
  <2>3. ASSUME NEW error, Escape(c, error, FALSE) PROVE Escapes(c) /\ Only(c)
    <3>1. Escape(c, error, at[c] = "failing")
      BY <2>1, <2>3
    <3> QED
      BY <2>1, <3>1, EscapeKinds
  <2>4. CASE at' = [at EXCEPT ![c] = "top"] /\ UNCHANGED call
    BY <1>1, <2>1, <2>4
  <2>5. \/ BeginTarget(c, TRUE) \/ BeginTarget(c, table[call[c].cur].alerts)
        \/ (\E error \in Refusals : Escape(c, error, FALSE))
        \/ (at' = [at EXCEPT ![c] = "top"] /\ UNCHANGED call)
    BY <1>4 DEF MemberRead
  <2> QED
    BY <2>2, <2>3, <2>4, <2>5
<1> QED
  BY <1>2, <1>3, <1>4

\* The run of one member.
LEMMA TargetKinds ==
    ASSUME TypeOK, NEW c \in Callers,
           \/ Measured(c) \/ (\E rateLimited \in BOOLEAN : MeasureFailed(c, rateLimited))
           \/ RecordResult(c) \/ RecordFailure(c) \/ TargetDone(c) \/ SettleLine(c)
    PROVE  KindOf(c) /\ Only(c)
<1> USE DEF KindOf
<1>0. /\ at \in [Callers -> {"idle", "finishing"} \cup Asking \cup HoldsLatch]
      /\ call \in [Callers -> Locals] /\ call[c] \in Locals
  BY DEF TypeOK
<1>1. ASSUME NEW limited \in BOOLEAN, at[c] \in {"measuring", "recording"}, RetryOrFail(c, limited)
      PROVE  Strolls(c) /\ Only(c)
  BY <1>0, <1>1
     DEF RetryOrFail, Strolls, Only, KeepsMembers, KeepsRows, InRound, Unwritten, Measuring, Locals, Pace
<1>2. ASSUME NEW outcome \in {"ok", "failed"}, at[c] \in {"recording", "failing"}, WriteRow(c, outcome)
      PROVE  Writes(c) /\ Only(c)
  <2> DEFINE rows == [call[c].rows EXCEPT ![call[c].cur] = @ + 1]
             un == IF outcome = "ok" THEN call[c].unproven \ {call[c].cur} ELSE call[c].unproven
             new == [call[c] EXCEPT !.rows = rows, !.failed = (outcome = "failed"), !.unproven = un]
  <2>1. call' = [call EXCEPT ![c] = new] /\ at' = [at EXCEPT ![c] = "after"]
    BY <1>2 DEF WriteRow
  <2>2. /\ new.rows = rows /\ new.unproven = un /\ new.failed = (outcome = "failed")
        /\ new.left = call[c].left /\ new.cur = call[c].cur
        /\ new.alerts = call[c].alerts /\ new.failures = call[c].failures
    BY <1>0 DEF Locals
  <2> HIDE DEF new
  <2>3. call'[c] = new /\ at'[c] = "after" /\ Only(c)
    BY <1>0, <2>1 DEF Only
  <2>4. (new.failed /\ un = call[c].unproven) \/ (~new.failed /\ un = call[c].unproven \ {call[c].cur})
    BY <1>2, <2>2
  <2> QED
    BY <1>2, <2>2, <2>3, <2>4 DEF Writes
<1>3. CASE Measured(c)
  BY <1>0, <1>3
     DEF Measured, Strolls, Only, KeepsMembers, KeepsRows, InRound, Unwritten, Measuring, Pace
<1>4. ASSUME NEW limited \in BOOLEAN, MeasureFailed(c, limited) PROVE Strolls(c) /\ Only(c)
  BY <1>1, <1>4 DEF MeasureFailed
<1>5. CASE RecordResult(c)
  <2>1. at[c] = "recording"
    BY <1>5 DEF RecordResult
  <2>2. CASE WriteRow(c, "ok")
    BY <1>2, <2>1, <2>2
  <2>3. CASE RetryOrFail(c, FALSE)
    BY <1>1, <2>1, <2>3, Zenon
  <2> QED
    BY <1>5, <2>2, <2>3 DEF RecordResult
<1>6. CASE RecordFailure(c)
  <2>1. at[c] = "failing"
    BY <1>6 DEF RecordFailure
  <2>2. ASSUME NEW error, Escape(c, error, TRUE) PROVE Escapes(c) /\ Only(c)
    <3>1. Escape(c, error, at[c] = "failing")
      BY <2>1, <2>2
    <3> QED
      BY <2>1, <3>1, EscapeKinds
  <2> QED
    BY <1>2, <1>6, <2>1, <2>2 DEF RecordFailure
<1>7. CASE TargetDone(c)
  BY <1>0, <1>7 DEF TargetDone, Counts, KeepsRows, Only, Locals
<1>8. CASE SettleLine(c)
  BY <1>0, <1>8
     DEF SettleLine, Strolls, Only, KeepsMembers, KeepsRows, InRound, Unwritten, Measuring, Pace
<1> QED
  BY <1>3, <1>4, <1>5, <1>6, <1>7, <1>8

LEMMA ReadKinds ==
    ASSUME TypeOK, NEW c \in Callers,
           TargetsListed(c) \/ \E t \in Members \cup {NoTarget} : RowRead(c, t)
    PROVE  Reads(c) /\ Only(c)
<1>0. /\ at \in [Callers -> {"idle", "finishing"} \cup Asking \cup HoldsLatch]
      /\ call \in [Callers -> Locals] /\ call[c] \in Locals
  BY DEF TypeOK
<1>1. CASE TargetsListed(c)
  BY <1>0, <1>1
     DEF TargetsListed, Reads, Only, KeepsMembers, KeepsRows, Locals, EventLoop, Busy
<1>2. ASSUME NEW t, RowRead(c, t) PROVE Reads(c) /\ Only(c)
  <2>1. PICK stands : call' = [call EXCEPT ![c].asked = @ \ {t}, ![c].stood = @ \/ stands]
    BY <1>2 DEF RowRead
  <2>2. at[c] = "rows" /\ at' = at
    BY <1>2 DEF RowRead
  <2> QED
    BY <1>0, <2>1, <2>2 DEF Reads, Only, KeepsMembers, KeepsRows, Locals
<1> QED
  BY <1>1, <1>2

\* The steps of a call: of one of these kinds, or a read of the verdict.
LEMMA CallSteps ==
    ASSUME TypeOK, [Next]_vars
    PROVE  \/ \E c \in Callers : KindOf(c) /\ Only(c)
           \/ \E c \in Callers :
                TargetsListed(c) \/ \E t \in Members \cup {NoTarget} : RowRead(c, t)
           \/ UNCHANGED <<at, call>>
<1>1. Environment => UNCHANGED <<at, call>>
  BY DEF Environment, PauseToggled, QuietToggled, DbToggled, MarkShutdown, HoldExpires,
         RowAges, TargetEdited, RowDeleted, Change
<1>2. UNCHANGED vars => UNCHANGED <<at, call>>
  BY DEF vars, code
<1> QED
  BY <1>1, <1>2, EdgeKinds, LoopKinds, TargetKinds DEF Next, Round

LEMMA MemberKinds ==
    ASSUME TypeOK, [Next]_vars
    PROVE  \/ \E c \in Callers : (KindOf(c) \/ Reads(c)) /\ Only(c)
           \/ UNCHANGED <<at, call>>
BY CallSteps, ReadKinds

LEMMA PreviewKept == [Next]_vars => UNCHANGED preview
<1> USE DEF surroundings
<1>1. ASSUME NEW c \in Callers, Round(c) PROVE UNCHANGED preview
  BY <1>1 DEF Round, RunCounted, RunReserved, RoundDeclined, RoundOpened, LoopTop, QuietHoursRead,
              MemberRead, Measured, MeasureFailed, RecordResult, RecordFailure, TargetDone,
              SettleLine, VerdictKnown, VerdictRead, VerdictLost, Release, Finish
<1>2. Environment => UNCHANGED preview
  BY DEF Environment, PauseToggled, QuietToggled, DbToggled, MarkShutdown, HoldExpires,
         RowAges, TargetEdited, RowDeleted, Change
<1> QED
  BY <1>1, <1>2 DEF Next, vars, RunRequested, AutoCreate, TargetsListed, RowRead

\* The rows are only asked for where there are some, and no failure is counted.
AskedForReal == \A c \in Callers : at[c] = "rows" => ~preview /\ ~(call[c].failures > 0)

LEMMA AskedStep == TypeOK /\ AskedForReal /\ [Next]_vars => AskedForReal'
<1> SUFFICES ASSUME TypeOK, AskedForReal, [Next]_vars PROVE AskedForReal'
  OBVIOUS
<1>1. CASE UNCHANGED <<at, call>>
  BY <1>1, PreviewKept DEF AskedForReal
<1>2. ASSUME NEW c \in Callers, KindOf(c), Only(c) PROVE AskedForReal'
  <2>1. at'[c] # "rows"
    BY <1>2 DEF KindOf, Strolls, Escapes, Begins, Writes, Counts, Picks, Opens, Rests, InRound
  <2> QED
    BY <1>2, <2>1, PreviewKept DEF AskedForReal, Only
<1>3. ASSUME NEW c \in Callers, Reads(c), Only(c) PROVE AskedForReal'
  BY <1>3, PreviewKept DEF AskedForReal, Only, Reads, KeepsMembers
<1> QED
  BY <1>1, <1>2, <1>3, MemberKinds

LEMMA AlwaysAsked == Spec => []AskedForReal
<1>1. Init => AskedForReal
  BY DEF Init, AskedForReal
<1>2. Spec => []TypeOK
  BY TypeCorrect
<1> QED
  BY <1>1, <1>2, AskedStep, PTL DEF Spec

-----------------------------------------------------------------------------
(* The latch. Every step of the code is of one of six kinds.               *)

\* Within the round or outside of it, without touching what the latch guards.
Move(c) ==
    /\ \E v : /\ at' = [at EXCEPT ![c] = v]
              /\ at[c] \in HoldsLatch <=> v \in HoldsLatch
              /\ at[c] \in InRound <=> v \in InRound
              /\ at[c] # "finishing" /\ v # "finishing"
    /\ UNCHANGED <<running, keepAlive, report, preview>>

Acquire(c) ==
    /\ ~running /\ at[c] \notin HoldsLatch
    /\ \A d \in Callers : at[d] # "finishing"
    /\ at' = [at EXCEPT ![c] = "members"]
    /\ running' = TRUE /\ UNCHANGED <<keepAlive, report, preview>>

GiveBack(c) ==
    /\ at[c] = "members" /\ at' = [at EXCEPT ![c] = "idle"]
    /\ running' = FALSE /\ UNCHANGED <<keepAlive, report, preview>>

Announce(c) ==
    /\ at[c] = "members" /\ at' = [at EXCEPT ![c] = "top"]
    /\ running' = TRUE /\ keepAlive' = "running"
    /\ report' = IF preview THEN report ELSE "running"
    /\ UNCHANGED preview

Conclude(c) ==
    /\ at[c] \in {"verdict", "rows"} /\ at' = [at EXCEPT ![c] = "finishing"]
    /\ running' = FALSE /\ keepAlive' = "ping"
    /\ IF preview THEN UNCHANGED report ELSE report' \in {"clean", "failed", "unanswered"}
    /\ UNCHANGED preview

Leave(c) ==
    /\ at[c] = "finishing" /\ at' = [at EXCEPT ![c] = "idle"]
    /\ running' = FALSE /\ UNCHANGED <<keepAlive, report, preview>>

LEMMA StepKinds ==
    ASSUME IInv, AskedForReal, Next
    PROVE  \/ \E c \in Callers : \/ Move(c) \/ Acquire(c) \/ GiveBack(c) \/ Announce(c)
                                 \/ Conclude(c) \/ Leave(c)
           \/ UNCHANGED <<at, running, keepAlive, report, preview>>
<1> USE DEF HoldsLatch, InRound, surroundings
<1>1. ASSUME NEW c \in Callers, NEW n, RunRequested(c, n) PROVE Move(c)
  <2>1. PICK v \in {"checking", "counting"} : at' = [at EXCEPT ![c] = v]
    BY <1>1 DEF RunRequested
  <2>. QED  BY <1>1, <2>1 DEF RunRequested, Move
<1>2. ASSUME NEW c \in Callers, AutoCreate(c) PROVE Acquire(c)
  BY <1>2 DEF AutoCreate, Acquire, EventLoop, Busy
<1>3. ASSUME NEW c \in Callers, RunCounted(c) PROVE Move(c)
  BY <1>3 DEF RunCounted, Dismiss, Move
<1>4. ASSUME NEW c \in Callers, RunReserved(c) PROVE Move(c) \/ Acquire(c)
  BY <1>4 DEF RunReserved, Dismiss, Move, Acquire, EventLoop, Busy
<1>5. ASSUME NEW c \in Callers, RoundDeclined(c) PROVE GiveBack(c)
  BY <1>5 DEF RoundDeclined, Dismiss, GiveBack
<1>6. ASSUME NEW c \in Callers, RoundOpened(c) PROVE Announce(c)
  BY <1>6 DEF RoundOpened, Announce
<1>7. ASSUME NEW c \in Callers, NEW error, NEW reached, Escape(c, error, reached),
             at[c] \in InRound, UNCHANGED <<running, keepAlive, report, preview>>
      PROVE  Move(c)
  BY <1>7 DEF Escape, Move
<1>8. ASSUME NEW c \in Callers,
             LoopTop(c) \/ QuietHoursRead(c) \/ MemberRead(c) \/ Measured(c)
             \/ (\E rateLimited \in BOOLEAN : MeasureFailed(c, rateLimited))
             \/ RecordResult(c) \/ RecordFailure(c) \/ TargetDone(c) \/ SettleLine(c)
      PROVE  Move(c)
  <2>1. CASE LoopTop(c)  BY <2>1 DEF LoopTop, Move
  <2>2. CASE QuietHoursRead(c)  BY <1>7, <2>2 DEF QuietHoursRead, Move
  <2>3. CASE MemberRead(c)  BY <1>7, <2>3 DEF MemberRead, BeginTarget, Move
  <2>4. CASE Measured(c)  BY <2>4 DEF Measured, Move
  <2>5. CASE \E rateLimited \in BOOLEAN : MeasureFailed(c, rateLimited)
    BY <2>5 DEF MeasureFailed, RetryOrFail, Move
  <2>6. CASE RecordResult(c)  BY <2>6 DEF RecordResult, WriteRow, RetryOrFail, Move
  <2>7. CASE RecordFailure(c)  BY <1>7, <2>7 DEF RecordFailure, WriteRow, Move
  <2>8. CASE TargetDone(c)  BY <2>8 DEF TargetDone, Move
  <2>9. CASE SettleLine(c)  BY <2>9 DEF SettleLine, Move
  <2>. QED  BY <1>8, <2>1, <2>2, <2>3, <2>4, <2>5, <2>6, <2>7, <2>8, <2>9
<1>9. ASSUME NEW c \in Callers, VerdictKnown(c) \/ VerdictRead(c) \/ VerdictLost(c)
      PROVE  Conclude(c)
  <2>1. at[c] = "rows" => ~preview
    BY DEF AskedForReal
  <2>. QED
    BY <1>9, <2>1 DEF VerdictKnown, VerdictRead, VerdictLost, EventLoop, Busy, Release, Conclude
<1>11. ASSUME NEW c \in Callers, TargetsListed(c) PROVE Move(c)
  BY <1>11 DEF TargetsListed, Move
<1>12. ASSUME NEW c \in Callers, NEW t, RowRead(c, t) PROVE Move(c)
  <2>1. at' = [at EXCEPT ![c] = "rows"]
    BY <1>12 DEF RowRead, IInv, TypeOK
  <2>. QED  BY <1>12, <2>1 DEF RowRead, Move
<1>13. ASSUME NEW c \in Callers, Finish(c) PROVE Leave(c)
  BY <1>13 DEF Finish, Dismiss, Leave
<1>10. ASSUME Environment PROVE UNCHANGED <<at, running, keepAlive, report, preview>>
  BY <1>10 DEF Environment, PauseToggled, QuietToggled, DbToggled, MarkShutdown, HoldExpires,
               RowAges, TargetEdited, RowDeleted, Change
<1>. QED
  BY <1>1, <1>2, <1>3, <1>4, <1>5, <1>6, <1>8, <1>9, <1>10, <1>11, <1>12, <1>13 DEF Next, Round

\* A start has been handed over and its completion not, just while a round that is
\* no demo's is opened.
StartIsOpen == report = "running" <=> ~preview /\ \E c \in Callers : at[c] \in InRound

\* Between the two finallys of a round nobody else holds the latch, nor waits there.
FinishesAlone ==
    \A c, d \in Callers : at[c] = "finishing" => at[d] \notin HoldsLatch

\* The statements about who holds what prove each other: a call that finds
\* the latch down knows that no other call is past it.
LatchInv ==
    OneRound /\ LatchIsOwned /\ KeepAliveIsSilenced /\ DemoIsSilent /\ StartIsOpen /\ FinishesAlone

LEMMA InitLatch == Init => LatchInv
BY DEF Init, LatchInv, OneRound, LatchIsOwned, KeepAliveIsSilenced, DemoIsSilent, StartIsOpen,
       FinishesAlone, HoldsLatch, InRound

LEMMA NextLatch == IInv /\ AskedForReal /\ LatchInv /\ [Next]_vars => LatchInv'
<1> SUFFICES ASSUME IInv, AskedForReal, LatchInv, [Next]_vars PROVE LatchInv'
  OBVIOUS
<1> USE DEF LatchInv, OneRound, LatchIsOwned, KeepAliveIsSilenced, DemoIsSilent, StartIsOpen,
            FinishesAlone
<1>1. DOMAIN at = Callers /\ running \in BOOLEAN /\ at = [d \in Callers |-> at[d]]
  BY DEF IInv, TypeOK
<1>2. ASSUME UNCHANGED <<at, running, keepAlive, report, preview>> PROVE LatchInv'
  BY <1>2
<1>3. ASSUME NEW c \in Callers, Move(c) PROVE LatchInv'
  <2>1. \A d \in Callers : /\ at'[d] \in HoldsLatch <=> at[d] \in HoldsLatch
                           /\ at'[d] \in InRound <=> at[d] \in InRound
                           /\ at'[d] = "finishing" <=> at[d] = "finishing"
    BY <1>1, <1>3 DEF Move
  <2>. QED  BY <1>3, <2>1 DEF Move
<1>4. ASSUME NEW c \in Callers, Acquire(c) PROVE LatchInv'
  <2>1. \A d \in Callers : at[d] \notin HoldsLatch
    BY <1>4 DEF Acquire
  <2>2. \A d \in Callers : d # c => at'[d] = at[d]
    BY <1>1, <1>4 DEF Acquire
  <2>3. at'[c] = "members"
    BY <1>1, <1>4 DEF Acquire
  <2>. QED  BY <1>4, <2>1, <2>2, <2>3 DEF Acquire, HoldsLatch, InRound
<1>5. ASSUME NEW c \in Callers, GiveBack(c) \/ Announce(c) \/ Conclude(c) PROVE LatchInv'
  <2>1. \A d \in Callers : d # c => at[d] \notin HoldsLatch /\ at'[d] = at[d]
    BY <1>1, <1>5 DEF GiveBack, Announce, Conclude, HoldsLatch, InRound
  <2>2. CASE GiveBack(c)
    BY <1>1, <2>1, <2>2 DEF GiveBack, HoldsLatch, InRound
  <2>3. CASE Announce(c)
    BY <1>1, <2>1, <2>3 DEF Announce, HoldsLatch, InRound
  <2>4. CASE Conclude(c)
    BY <1>1, <2>1, <2>4 DEF Conclude, HoldsLatch, InRound
  <2>. QED  BY <1>5, <2>2, <2>3, <2>4
<1>6. CASE UNCHANGED vars
  BY <1>2, <1>6 DEF vars, code, surroundings
<1>7. ASSUME NEW c \in Callers, Leave(c) PROVE LatchInv'
  <2>1. \A d \in Callers : at[d] \notin HoldsLatch
    BY <1>7 DEF Leave
  <2>2. \A d \in Callers : at'[d] \notin HoldsLatch /\ at'[d] \notin InRound
    BY <1>1, <1>7, <2>1 DEF Leave, HoldsLatch, InRound
  <2>. QED  BY <1>7, <2>1, <2>2 DEF Leave, HoldsLatch
<1>. QED  BY <1>2, <1>3, <1>4, <1>5, <1>6, <1>7, StepKinds

\* For any number of requests and ticks: two rounds never measure over each other,
\* the latch is up exactly while a call owns it, create's own finally included, and
\* the keep-alive is silent exactly while an opened round holds it; and a demo hands
\* over nothing to be sent.
THEOREM LatchCorrect ==
    Spec => [](OneRound /\ LatchIsOwned /\ KeepAliveIsSilenced /\ DemoIsSilent)
<1>1. Spec => []IInv
  BY InitType, NextType, PTL DEF Spec
<1>2. Init /\ []IInv /\ []AskedForReal /\ [][Next]_vars => []LatchInv
  BY InitLatch, NextLatch, PTL
<1>3. LatchInv => OneRound /\ LatchIsOwned /\ KeepAliveIsSilenced /\ DemoIsSilent
  BY DEF LatchInv
<1>. QED  BY <1>1, <1>2, <1>3, AlwaysAsked, PTL DEF Spec

-----------------------------------------------------------------------------
(* The rows of a round, and what it owes the monitors.                     *)

\* A member still to come has no row, nor has the one at hand before its write.
RowsOf(c) ==
    /\ at[c] \notin InRound => call[c].rows = NoRows
    /\ \A m \in Members : call[c].rows[m] <= 1
    /\ at[c] \in InRound =>
         /\ \A m \in call[c].left : call[c].rows[m] = 0
         /\ at[c] \in Unwritten => call[c].cur \notin call[c].left /\ call[c].rows[call[c].cur] = 0

\* The member whose outcome the loop has not counted yet.
Uncounted(c) == IF at[c] \in Measuring \cup {"after"} THEN {call[c].cur} ELSE {}

\* A round has counted a failure exactly when an alerting member it is done with
\* has no success; whether the one at hand is unproven is known by its flags.
UnprovenOf(c) ==
    /\ at[c] \notin InRound => call[c].unproven = {} /\ call[c].failures = 0
    /\ at[c] \in InRound => call[c].unproven \cap call[c].left = {}
    /\ at[c] \in {"quietHours", "reading"} => call[c].cur \notin call[c].unproven
    /\ at[c] \in Measuring => (call[c].alerts <=> call[c].cur \in call[c].unproven)
    /\ at[c] = "after" => (call[c].alerts /\ call[c].failed <=> call[c].cur \in call[c].unproven)
    /\ call[c].failures > 0 <=> call[c].unproven \ Uncounted(c) # {}

MemberInv == \A c \in Callers : RowsOf(c) /\ UnprovenOf(c)

LEMMA InitMember == Init => MemberInv
BY DEF Init, MemberInv, RowsOf, UnprovenOf, Uncounted, NoCall, NoRows, InRound, Unwritten, Measuring

LEMMA RowsStep ==
    ASSUME TypeOK, CurKnown, TypeOK', NEW c \in Callers, RowsOf(c), KindOf(c) \/ Reads(c)
    PROVE  RowsOf(c)'
<1> USE DEF RowsOf, KeepsMembers, KeepsRows
<1>0. /\ call[c] \in Locals /\ call'[c] \in Locals
      /\ call[c].rows \in [Members -> Nat] /\ call[c].left \subseteq Members
      /\ at[c] \in Unwritten => call[c].cur \in Members
  BY DEF TypeOK, Locals, CurKnown, Unwritten, Measuring, InRound
<1>1. CASE Strolls(c)
  BY <1>1 DEF Strolls
<1>2. CASE Escapes(c)
  BY <1>2 DEF Escapes, InRound, Unwritten, Measuring
<1>3. CASE Begins(c)
  BY <1>3 DEF Begins, InRound, Unwritten, Measuring
<1>4. CASE Writes(c)
  <2>1. at[c] \in InRound /\ at[c] \in Unwritten /\ at'[c] \in InRound /\ at'[c] \notin Unwritten
    BY <1>4 DEF Writes, InRound, Unwritten, Measuring
  <2>2. \A m \in Members : call'[c].rows[m] <= 1
    BY <1>0, <1>4, <2>1 DEF Writes
  <2>3. \A m \in call'[c].left : call'[c].rows[m] = 0
    BY <1>0, <1>4, <2>1 DEF Writes
  <2> QED
    BY <2>1, <2>2, <2>3
<1>5. CASE Counts(c)
  BY <1>5 DEF Counts, InRound, Unwritten, Measuring
<1>6. CASE Picks(c)
  BY <1>6 DEF Picks, InRound
<1>7. CASE Opens(c)
  <2>1. call[c].rows = NoRows /\ call'[c].rows = NoRows /\ at'[c] = "top"
    BY <1>7 DEF Opens, InRound
  <2>2. call'[c].left \subseteq Members
    BY <1>0 DEF Locals
  <2> QED
    BY <2>1, <2>2 DEF NoRows, InRound, Unwritten, Measuring
<1>8. CASE Rests(c)
  BY <1>8 DEF Rests, NoRows
<1>9. CASE Reads(c)
  BY <1>9 DEF Reads, InRound, Unwritten, Measuring
<1> QED
  BY <1>1, <1>2, <1>3, <1>4, <1>5, <1>6, <1>7, <1>8, <1>9 DEF KindOf

LEMMA UnprovenStep ==
    ASSUME TypeOK, TypeOK', NEW c \in Callers, RowsOf(c), UnprovenOf(c),
           KindOf(c) \/ Reads(c)
    PROVE  UnprovenOf(c)'
<1> USE DEF UnprovenOf, Uncounted, KeepsMembers, KeepsRows, Measuring
<1>0. call[c].failures \in Nat
  BY DEF TypeOK, Locals
<1>1. CASE Strolls(c)
  BY <1>1 DEF Strolls, Unwritten, InRound
<1>2. CASE Escapes(c)
  BY <1>0, <1>2 DEF Escapes, InRound
<1>3. CASE Begins(c)
  <2>1. at[c] \in InRound /\ at[c] \in Unwritten /\ at'[c] \in InRound
    BY <1>3 DEF Begins, InRound, Unwritten
  <2> QED
    BY <1>3, <2>1 DEF Begins, RowsOf
<1>4. CASE Writes(c)
  BY <1>4 DEF Writes, InRound
<1>5. CASE Counts(c)
  BY <1>0, <1>5 DEF Counts, InRound
<1>6. CASE Picks(c)
  BY <1>6 DEF Picks, InRound
<1>7. CASE Opens(c)
  BY <1>7 DEF Opens, InRound
<1>8. CASE Rests(c)
  <2>1. call'[c].unproven = {} /\ call'[c].failures = 0
    BY <1>8 DEF Rests
  <2> QED
    BY <1>8, <2>1 DEF Rests, InRound
<1>9. CASE Reads(c)
  BY <1>9 DEF Reads, InRound
<1> QED
  BY <1>1, <1>2, <1>3, <1>4, <1>5, <1>6, <1>7, <1>8, <1>9 DEF KindOf

LEMMA MemberStep == IInv /\ MemberInv /\ [Next]_vars => MemberInv'
<1> SUFFICES ASSUME IInv, MemberInv, [Next]_vars PROVE MemberInv'
  OBVIOUS
<1>1. TypeOK /\ CurKnown /\ TypeOK'
  BY NextType DEF IInv
<1>2. ASSUME NEW c \in Callers, KindOf(c) \/ Reads(c), Only(c) PROVE MemberInv'
  <2>1. RowsOf(c)' /\ UnprovenOf(c)'
    BY <1>1, <1>2, RowsStep, UnprovenStep DEF MemberInv
  <2>2. ASSUME NEW d \in Callers \ {c} PROVE RowsOf(d)' /\ UnprovenOf(d)'
    BY <1>2 DEF Only, MemberInv, RowsOf, UnprovenOf, Uncounted
  <2> QED
    BY <2>1, <2>2 DEF MemberInv
<1>3. CASE UNCHANGED <<at, call>>
  BY <1>3 DEF MemberInv, RowsOf, UnprovenOf, Uncounted
<1> QED
  BY <1>1, <1>2, <1>3, MemberKinds

\* For any table, any retries and refusals: a round leaves at most one row of a
\* member.
THEOREM RowsCorrect == Spec => []OneRowPerMember
<1>1. Spec => []IInv
  BY InitType, NextType, PTL DEF Spec
<1>2. Init /\ []IInv /\ [][Next]_vars => []MemberInv
  BY InitMember, MemberStep, PTL
<1>3. MemberInv => OneRowPerMember
  BY DEF MemberInv, RowsOf, OneRowPerMember
<1>. QED  BY <1>1, <1>2, <1>3, PTL DEF Spec

-----------------------------------------------------------------------------
(* The truth of the completion event.                                      *)

\* The body of ReportIsTrue.
ReportTells ==
    \A c \in Callers :
      ~preview /\ at[c] \in {"verdict", "rows"} /\ at'[c] = "finishing" =>
        /\ call[c].unproven # {} => report' = "failed"
        /\ report' = "clean" => call[c].unproven = {} /\ \A t \in Members : ~KeptStanding(t)
        /\ report' = "failed" => call[c].unproven # {} \/ EverStood

Now == [table |-> table, latest |-> latest]

\* What a verdict has read so far: the targets as they were at one of the moments,
\* of each row that did not stand a moment at which it did not, and otherwise a
\* reason to say failed.
ReadsOf(c) ==
    at[c] = "rows" =>
      /\ Now \in moments
      /\ \E a \in moments : a.table = call[c].listed
      /\ \A t \in watched(call[c].listed) \ call[c].asked :
           call[c].stood \/ \E b \in moments : ~standing(t, call[c].listed, b.latest)
      /\ call[c].stood => EverStood
      /\ NoTarget \in call[c].asked => \A t \in Members : ~call[c].listed[t].exists

VerdictInv == \A c \in Callers : ReadsOf(c)

\* Only the verdict takes a call from there to create's finally.
LEMMA VerdictEnds ==
    ASSUME TypeOK, Next, NEW c \in Callers, at[c] \in InRound, at'[c] = "finishing"
    PROVE  VerdictKnown(c) \/ VerdictRead(c) \/ VerdictLost(c)
<1>0. at \in [Callers -> {"idle", "finishing"} \cup Asking \cup HoldsLatch]
  BY DEF TypeOK
<1>1. at[c] # "finishing"
  BY DEF InRound
<1>2. ASSUME NEW d \in Callers, Only(d) PROVE d = c
  BY <1>1, <1>2 DEF Only
<1>4. ~Environment
  BY <1>1 DEF Environment, PauseToggled, QuietToggled, DbToggled, MarkShutdown, HoldExpires,
              RowAges, TargetEdited, RowDeleted, Change
<1>5. ASSUME NEW d \in Callers,
             \/ \E n \in Targets \cup {NoTarget} : RunRequested(d, n)
             \/ AutoCreate(d) \/ RunCounted(d) \/ RunReserved(d) \/ RoundDeclined(d)
             \/ RoundOpened(d) \/ Finish(d)
      PROVE  FALSE
  <2>1. d = c
    BY <1>2, <1>5, EdgeKinds
  <2> QED
    BY <1>0, <1>5, <2>1
       DEF RunRequested, AutoCreate, RunCounted, RunReserved, RoundDeclined, RoundOpened, Finish,
           InRound
<1>6. ASSUME NEW d \in Callers, LoopTop(d) \/ QuietHoursRead(d) \/ MemberRead(d) PROVE FALSE
  <2>1. d = c
    BY <1>2, <1>6, LoopKinds
  <2> QED
    BY <1>0, <1>6, <2>1 DEF LoopTop, QuietHoursRead, MemberRead, Escape, BeginTarget
<1>7. ASSUME NEW d \in Callers,
             \/ Measured(d) \/ (\E rateLimited \in BOOLEAN : MeasureFailed(d, rateLimited))
             \/ RecordResult(d) \/ RecordFailure(d) \/ TargetDone(d) \/ SettleLine(d)
      PROVE  FALSE
  <2>1. d = c
    BY <1>2, <1>7, TargetKinds
  <2> QED
    BY <1>0, <1>7, <2>1
       DEF Measured, MeasureFailed, RecordResult, RecordFailure, TargetDone, SettleLine,
           RetryOrFail, WriteRow, Escape
<1>8. ASSUME NEW d \in Callers, VerdictKnown(d) \/ VerdictRead(d) \/ VerdictLost(d) PROVE d = c
  BY <1>2, <1>8, EdgeKinds
<1>9. ASSUME NEW d \in Callers,
             TargetsListed(d) \/ \E t \in Members \cup {NoTarget} : RowRead(d, t)
      PROVE  FALSE
  BY <1>2, <1>9, ReadKinds DEF Reads
<1> QED
  BY <1>4, <1>5, <1>6, <1>7, <1>8, <1>9 DEF Next, Round

\* What a step does to the table, the rows and the moments.
Edits == UNCHANGED <<at, call>> /\ Witness
Ages == UNCHANGED <<at, call>> /\ \A c \in Callers : at[c] # "rows"
WritesRow(c) == at[c] \in InRound \ {"rows"} /\ at'[c] \in InRound \ {"rows"} /\ Only(c)
EndsVerdict(c) == at[c] \in InRound /\ at'[c] \notin InRound /\ Only(c)
StillWorld == UNCHANGED <<table, latest, moments>>

LEMMA WorldStep ==
    ASSUME TypeOK, [Next]_vars
    PROVE  \/ StillWorld \/ Edits \/ Ages
           \/ \E c \in Callers : WritesRow(c) \/ EndsVerdict(c) \/ TargetsListed(c)
<1> USE DEF StillWorld, surroundings
<1>0. at \in [Callers -> {"idle", "finishing"} \cup Asking \cup HoldsLatch]
  BY DEF TypeOK
<1>1. UNCHANGED vars => StillWorld
  BY DEF vars, code
<1>2. Environment => StillWorld \/ Edits \/ Ages
  BY DEF Environment, PauseToggled, QuietToggled, DbToggled, MarkShutdown, HoldExpires, RowAges,
         TargetEdited, RowDeleted, Change, Edits, Ages
<1>3. ASSUME NEW c \in Callers,
             \/ \E n \in Targets \cup {NoTarget} : RunRequested(c, n)
             \/ AutoCreate(c) \/ (\E t \in Members \cup {NoTarget} : RowRead(c, t))
             \/ RunCounted(c) \/ RunReserved(c) \/ RoundDeclined(c) \/ RoundOpened(c)
             \/ LoopTop(c) \/ QuietHoursRead(c) \/ MemberRead(c) \/ Measured(c)
             \/ (\E rateLimited \in BOOLEAN : MeasureFailed(c, rateLimited))
             \/ TargetDone(c) \/ SettleLine(c) \/ Finish(c)
      PROVE  StillWorld
  BY <1>3 DEF RunRequested, AutoCreate, RowRead, RunCounted, RunReserved, RoundDeclined, RoundOpened,
              LoopTop, QuietHoursRead, MemberRead, Measured, MeasureFailed, TargetDone, SettleLine,
              Finish
<1>4. ASSUME NEW c \in Callers, RecordResult(c) \/ RecordFailure(c) PROVE WritesRow(c)
  <2>1. at[c] \in InRound \ {"rows"} /\ at'[c] \in InRound \ {"rows"}
    BY <1>0, <1>4 DEF RecordResult, RecordFailure, WriteRow, RetryOrFail, Escape, InRound
  <2> QED
    BY <1>4, <2>1, TargetKinds DEF WritesRow
<1>5. ASSUME NEW c \in Callers, VerdictKnown(c) \/ VerdictRead(c) \/ VerdictLost(c)
      PROVE  EndsVerdict(c)
  <2>1. at[c] \in InRound /\ at'[c] \notin InRound
    BY <1>0, <1>5 DEF VerdictKnown, VerdictRead, VerdictLost, Release, InRound
  <2> QED
    BY <1>5, <2>1, EdgeKinds DEF EndsVerdict
<1> QED
  BY <1>1, <1>2, <1>3, <1>4, <1>5 DEF Next, Round

\* More moments only add to what a verdict may say.
LEMMA MoreMoments ==
    ASSUME VerdictInv, UNCHANGED <<at, call>>, moments \subseteq moments', Now' \in moments'
    PROVE  VerdictInv'
BY DEF VerdictInv, ReadsOf, EverStood, watched, standing, Now

LEMMA VerdictStep == IInv /\ LatchInv /\ VerdictInv /\ [Next]_vars => VerdictInv'
<1> SUFFICES ASSUME IInv, LatchInv, VerdictInv, [Next]_vars PROVE VerdictInv'
  OBVIOUS
<1>0. /\ TypeOK /\ at \in [Callers -> {"idle", "finishing"} \cup Asking \cup HoldsLatch]
      /\ call \in [Callers -> Locals]
  BY DEF IInv, TypeOK
<1>1. ASSUME NEW c \in Callers, at[c] \in InRound, NEW d \in Callers, d # c
      PROVE  at[d] # "rows"
  BY <1>1 DEF LatchInv, OneRound, HoldsLatch, InRound
<1>2. CASE Edits
  <2>1. CASE moments = {}
    BY <1>2, <2>1 DEF Edits, VerdictInv, ReadsOf
  <2>2. CASE moments # {}
    BY <1>2, <2>2, MoreMoments DEF Edits, Witness, Now
  <2> QED
    BY <2>1, <2>2
<1>3. CASE Ages
  BY <1>3 DEF Ages, VerdictInv, ReadsOf
<1>4. ASSUME NEW c \in Callers, WritesRow(c) \/ EndsVerdict(c) PROVE VerdictInv'
  <2>1. \A d \in Callers : at'[d] # "rows"
    BY <1>1, <1>4 DEF WritesRow, EndsVerdict, Only, InRound
  <2> QED
    BY <2>1 DEF VerdictInv, ReadsOf
<1>5. ASSUME NEW c \in Callers, TargetsListed(c) PROVE VerdictInv'
  <2>1. /\ call'[c].listed = table /\ call'[c].stood = FALSE
        /\ call'[c].asked = IF Existing = {} THEN {NoTarget} ELSE watched(table)
        /\ table' = table /\ latest' = latest /\ moments' = {Now}
    BY <1>0, <1>5 DEF TargetsListed, Locals, Now
  <2>2. NoTarget \notin Members
    BY RoundAssumption DEF RoundAssumption, Members
  <2>3. ReadsOf(c)'
    BY <2>1, <2>2 DEF ReadsOf, Now, watched, Existing
  <2>4. \A d \in Callers \ {c} : at'[d] # "rows"
    BY <1>0, <1>1, <1>5 DEF TargetsListed, InRound
  <2> QED
    BY <2>3, <2>4 DEF VerdictInv, ReadsOf
<1>6. ASSUME NEW c \in Callers, NEW t \in Members \cup {NoTarget}, RowRead(c, t) PROVE VerdictInv'
  <2>1. PICK stands \in IF t = NoTarget THEN BOOLEAN ELSE {standing(t, call[c].listed, latest)} :
          call' = [call EXCEPT ![c].asked = @ \ {t}, ![c].stood = @ \/ stands]
    BY <1>6 DEF RowRead
  <2>2. /\ call'[c].listed = call[c].listed /\ call'[c].asked = call[c].asked \ {t}
        /\ call'[c].stood = (call[c].stood \/ stands) /\ at[c] = "rows" /\ at' = at
        /\ t \in call[c].asked /\ UNCHANGED <<table, latest, moments>>
    BY <1>0, <1>6, <2>1 DEF RowRead, Locals, surroundings
  <2>3. ReadsOf(c)
    BY DEF VerdictInv
  <2>4. stands => EverStood
    <3>1. PICK a \in moments : a.table = call[c].listed
      BY <2>2, <2>3 DEF ReadsOf
    <3>2. CASE t = NoTarget
      BY <2>2, <2>3, <3>1, <3>2 DEF ReadsOf, EverStood
    <3>3. CASE t # NoTarget
      BY <2>1, <2>2, <2>3, <3>1, <3>3 DEF ReadsOf, EverStood, Now
    <3> QED
      BY <3>2, <3>3
  <2>5. ~stands /\ t # NoTarget => \E b \in moments : ~standing(t, call[c].listed, b.latest)
    BY <2>1, <2>2, <2>3 DEF ReadsOf, Now
  <2>6. NoTarget \notin Members
    BY RoundAssumption DEF RoundAssumption, Members
  <2>7. ReadsOf(c)'
    <3>1. EverStood' = EverStood /\ Now' = Now
      BY <2>2 DEF EverStood, Now
    <3>2. \A u \in watched(call[c].listed) \ (call[c].asked \ {t}) :
            (call[c].stood \/ stands) \/ \E b \in moments : ~standing(u, call[c].listed, b.latest)
      BY <2>2, <2>3, <2>5, <2>6 DEF ReadsOf, watched
    <3> QED
      BY <2>2, <2>3, <2>4, <3>1, <3>2 DEF ReadsOf, watched, standing
  <2>8. \A d \in Callers \ {c} : at'[d] # "rows"
    BY <1>1, <2>2 DEF InRound
  <2> QED
    BY <2>7, <2>8 DEF VerdictInv, ReadsOf
<1>7. CASE StillWorld
  <2>1. CASE UNCHANGED <<at, call>>
    BY <1>7, <2>1 DEF StillWorld, VerdictInv, ReadsOf, EverStood, Now
  <2>2. ASSUME NEW c \in Callers, KindOf(c), Only(c) PROVE VerdictInv'
    <3>1. at'[c] # "rows"
      BY <2>2 DEF KindOf, Strolls, Escapes, Begins, Writes, Counts, Picks, Opens, Rests, InRound
    <3>2. \A d \in Callers \ {c} : ReadsOf(d)'
      BY <1>7, <2>2 DEF StillWorld, Only, VerdictInv, ReadsOf, EverStood, Now
    <3> QED
      BY <3>1, <3>2 DEF VerdictInv, ReadsOf
  <2> QED
    BY <1>0, <1>5, <1>6, <2>1, <2>2, CallSteps
<1> QED
  BY <1>0, <1>2, <1>3, <1>4, <1>5, <1>7, WorldStep

\* A counted failure is answered before anybody else moves; an answer read from
\* the tables is one their reads can carry.
LEMMA ReportStep == ASSUME IInv, AskedForReal, MemberInv, VerdictInv, Next PROVE ReportTells
<1> SUFFICES ASSUME NEW c \in Callers, ~preview, at[c] \in {"verdict", "rows"},
                    at'[c] = "finishing"
             PROVE  /\ call[c].unproven # {} => report' = "failed"
                    /\ report' = "clean" =>
                         call[c].unproven = {} /\ \A t \in Members : ~KeptStanding(t)
                    /\ report' = "failed" => call[c].unproven # {} \/ EverStood
  BY DEF ReportTells
<1>1. VerdictKnown(c) \/ VerdictRead(c) \/ VerdictLost(c)
  BY VerdictEnds DEF IInv, InRound
<1>2. call[c].failures > 0 <=> call[c].unproven # {}
  BY DEF MemberInv, UnprovenOf, Uncounted, Measuring
<1>3. CASE VerdictKnown(c)
  BY <1>2, <1>3 DEF VerdictKnown, Release
<1>4. at[c] = "rows" => call[c].unproven = {}
  BY <1>2 DEF AskedForReal
<1>5. CASE VerdictRead(c)
  <2>1. at[c] = "rows" /\ call[c].asked = {}
    BY <1>5 DEF VerdictRead
  <2>2. ReadsOf(c)
    BY DEF VerdictInv
  <2>3. PICK a \in moments : a.table = call[c].listed
    BY <2>1, <2>2 DEF ReadsOf
  <2>4. ~call[c].stood => \A t \in Members : ~KeptStanding(t)
    <3> SUFFICES ASSUME ~call[c].stood, NEW t \in Members, KeptStanding(t) PROVE FALSE
      OBVIOUS
    <3>1. t \in watched(call[c].listed)
      BY <2>3 DEF KeptStanding, standing
    <3>2. PICK b \in moments : ~standing(t, call[c].listed, b.latest)
      BY <2>1, <2>2, <3>1 DEF ReadsOf
    <3> QED
      BY <2>3, <3>2 DEF KeptStanding
  <2>5. call[c].stood => EverStood
    BY <2>1, <2>2 DEF ReadsOf
  <2> QED
    BY <1>4, <1>5, <2>1, <2>4, <2>5 DEF VerdictRead, Release
<1>6. CASE VerdictLost(c)
  <2>1. call[c].unproven = {}
    BY <1>2, <1>4, <1>6 DEF VerdictLost, EventLoop, Busy
  <2> QED
    BY <1>6, <2>1 DEF VerdictLost, Release
<1> QED
  BY <1>1, <1>3, <1>5, <1>6

\* For any members and whatever could not be written or read: the completion
\* event says failed when an alerting member has no recorded success; it never says
\* clean over a watched failure that stood while it was read, nor failed when none
\* stood at any moment of that read.
THEOREM ReportCorrect == Spec => ReportIsTrue
<1>1. Spec => []IInv
  BY InitType, NextType, PTL DEF Spec
<1>2. Init /\ []IInv /\ [][Next]_vars => []MemberInv
  BY InitMember, MemberStep, PTL
<1>3. Init /\ []IInv /\ []AskedForReal /\ [][Next]_vars => []LatchInv
  BY InitLatch, NextLatch, PTL
<1>4. Init => VerdictInv
  BY DEF Init, VerdictInv, ReadsOf
<1>5. Init /\ []IInv /\ []LatchInv /\ [][Next]_vars => []VerdictInv
  BY <1>4, VerdictStep, PTL
<1>6. IInv /\ AskedForReal /\ MemberInv /\ VerdictInv /\ [Next]_vars => [ReportTells]_vars
  BY ReportStep
<1>. QED
  BY <1>1, <1>2, <1>3, <1>5, <1>6, AlwaysAsked, PTL DEF Spec, ReportIsTrue, ReportTells

-----------------------------------------------------------------------------
(* The round implements its contract.                                      *)

Flying == \E c \in Callers : at[c] \in InRound
Phase == IF Flying THEN "opened"
         ELSE IF \E c \in Callers : at[c] = "members" THEN "reserved" ELSE "free"
Recorded == {m \in Members : \E c \in Callers : call[c].rows[m] > 0}

\* Without a round in flight nothing counts as recorded.
LEMMA NothingRecorded == MemberInv /\ ~Flying => Recorded = {}
BY DEF MemberInv, Flying, Recorded, RowsOf, NoRows

LEMMA ContractInit == Init => Contract!Init
<1> SUFFICES ASSUME Init PROVE Contract!Init
  OBVIOUS
<1>1. ~Flying /\ MemberInv
  BY InitMember DEF Init, Flying, InRound
<1>2. Phase = "free" /\ Recorded = {}
  BY <1>1, NothingRecorded DEF Init, Phase
<1>3. report = "none" /\ preview \in BOOLEAN
  BY Zenon DEF Init
<1> QED
  BY <1>2, <1>3 DEF Contract!Init, Phase, Recorded, Flying

\* What the rows of a step mean to the contract.
LEMMA RecordedStep ==
    ASSUME IInv, MemberInv, OneRound, NEW c \in Callers, KindOf(c) \/ Reads(c), Only(c),
           at[c] \in InRound, at'[c] \in InRound
    PROVE  \/ Recorded' = Recorded
           \/ \E m \in Members : m \notin Recorded /\ Recorded' = Recorded \cup {m}
<1>0. /\ call[c].rows \in [Members -> Nat]
      /\ \A d \in Callers \ {c} : call'[d] = call[d] /\ call[d].rows = NoRows
  <2>1. \A d \in Callers \ {c} : at[d] \notin InRound
    BY DEF OneRound, HoldsLatch
  <2> QED
    BY <2>1 DEF IInv, TypeOK, Locals, Only, MemberInv, RowsOf
<1>1. Recorded = {m \in Members : call[c].rows[m] > 0}
  BY <1>0 DEF Recorded, NoRows
<1>2. Recorded' = {m \in Members : call'[c].rows[m] > 0}
  BY <1>0 DEF Recorded, NoRows
<1>3. CASE call'[c].rows = call[c].rows
  BY <1>1, <1>2, <1>3
<1>4. CASE Writes(c)
  <2>1. call[c].cur \in Members /\ call[c].rows[call[c].cur] = 0
    BY <1>4 DEF Writes, IInv, CurKnown, MemberInv, RowsOf, InRound, Unwritten, Measuring
  <2> QED
    BY <1>0, <1>1, <1>2, <1>4, <2>1 DEF Writes
<1> QED
  BY <1>3, <1>4
     DEF KindOf, Strolls, Escapes, Begins, Counts, Picks, Opens, Rests, Reads, KeepsMembers, KeepsRows

\* A call that is in no round changes no row.
LEMMA OutsideStep ==
    ASSUME MemberInv, NEW c \in Callers, KindOf(c) \/ Reads(c), Only(c), at[c] \notin InRound
    PROVE  \/ \A e \in Callers : call'[e].rows = call[e].rows
           \/ at'[c] \in InRound /\ at[c] = "members"
<1>1. Rests(c) \/ Opens(c)
  BY DEF KindOf, Strolls, Escapes, Begins, Writes, Counts, Picks, Reads, InRound
<1>2. call'[c].rows = call[c].rows
  BY <1>1 DEF Rests, Opens, MemberInv, RowsOf
<1> QED
  BY <1>2 DEF Only

\* Every step of the code is a step of the contract or none.
LEMMA ContractStep ==
    ASSUME IInv, AskedForReal, LatchInv, MemberInv, IInv', LatchInv', MemberInv', [Next]_vars
    PROVE  [Contract!Next]_Contract!vars
<1>a. ASSUME Phase' = Phase, Recorded' = Recorded, UNCHANGED <<report, preview>>
      PROVE  UNCHANGED Contract!vars
  BY <1>a DEF Contract!vars, Phase, Recorded, Flying
<1>b. ASSUME Phase = "opened", Phase' = "opened", UNCHANGED <<report, preview>>,
             NEW m \in Members, m \notin Recorded, Recorded' = Recorded \cup {m}
      PROVE  Contract!Record(m)
  BY <1>b DEF Contract!Record, Phase, Recorded, Flying
<1>c. ASSUME Phase = "free", Phase' = "reserved", Recorded' = Recorded, UNCHANGED <<report, preview>>
      PROVE  Contract!Reserve
  BY <1>c DEF Contract!Reserve, Phase, Recorded, Flying
<1>d. ASSUME Phase = "reserved", Phase' = "free", Recorded' = Recorded, UNCHANGED <<report, preview>>
      PROVE  Contract!GiveUp
  BY <1>d DEF Contract!GiveUp, Phase, Recorded, Flying
<1>e. ASSUME Phase = "reserved", Phase' = "opened", Recorded' = Recorded, UNCHANGED preview,
             report' = IF preview THEN report ELSE "running"
      PROVE  Contract!Open
  BY <1>e DEF Contract!Open, Phase, Recorded, Flying
<1>f. ASSUME Phase = "opened", Phase' = "free", Recorded' = {}, UNCHANGED preview,
             IF preview THEN UNCHANGED report
                        ELSE report = "running" /\ report' \in {"clean", "failed", "unanswered"}
      PROVE  Contract!Close
  BY <1>f DEF Contract!Close, Phase, Recorded, Flying
<1>g. DOMAIN at = Callers /\ OneRound /\ MemberInv /\ at = [d \in Callers |-> at[d]]
  BY DEF IInv, TypeOK, LatchInv
<1>h. ~Flying => Recorded = {}
  BY NothingRecorded
<1>i. ~Flying' => Recorded' = {}
  BY DEF MemberInv, Flying, Recorded, RowsOf, NoRows
<1>j. UNCHANGED call => Recorded' = Recorded
  BY DEF Recorded
<1>1. CASE UNCHANGED <<at, running, keepAlive, report, preview>>
  <2>1. Phase' = Phase
    BY <1>1 DEF Phase, Flying
  <2>2. Recorded' = Recorded \/ \E m \in Members : m \notin Recorded /\ Recorded' = Recorded \cup {m}
    <3>1. CASE UNCHANGED call
      BY <3>1, <1>j
    <3>2. ASSUME NEW c \in Callers, KindOf(c) \/ Reads(c), Only(c), at[c] \in InRound
          PROVE  <2>2
      BY <1>1, <1>g, <3>2, RecordedStep
    <3>3. CASE ~Flying
      BY <1>1, <1>h, <1>i, <3>3 DEF Flying
    <3>4. CASE Flying
      <4>2. ASSUME NEW c \in Callers, KindOf(c) \/ Reads(c), Only(c), at[c] \notin InRound
            PROVE  Recorded' = Recorded
        BY <1>1, <1>g, <4>2, OutsideStep DEF Recorded
      <4> QED
        BY <3>1, <3>2, <4>2, MemberKinds DEF IInv
    <3> QED
      BY <3>3, <3>4
  <2>3. Phase = "opened" \/ Recorded' = Recorded
    BY <1>1, <1>h, <1>i DEF Phase, Flying
  <2> QED
    BY <1>1, <1>a, <1>b, <2>1, <2>2, <2>3 DEF Contract!Next
<1>2. ASSUME NEW c \in Callers, Move(c) PROVE [Contract!Next]_Contract!vars
  <2>1. \A d \in Callers : /\ at'[d] \in HoldsLatch <=> at[d] \in HoldsLatch
                           /\ at'[d] \in InRound <=> at[d] \in InRound
    BY <1>2, <1>g DEF Move
  <2>2. Phase' = Phase /\ (Flying' <=> Flying)
    BY <2>1 DEF Phase, Flying, HoldsLatch, InRound
  <2>3. ASSUME NEW d \in Callers, KindOf(d) \/ Reads(d), Only(d)
        PROVE  Recorded' = Recorded \/ \E m \in Members : m \notin Recorded /\ Recorded' = Recorded \cup {m}
    <3>1. CASE at[d] \in InRound
      BY <1>g, <2>1, <2>3, <3>1, RecordedStep
    <3>2. CASE at[d] \notin InRound
      BY <1>g, <2>1, <2>3, <3>2, OutsideStep DEF Recorded
    <3> QED
      BY <3>1, <3>2
  <2>4. Recorded' = Recorded \/ \E m \in Members : m \notin Recorded /\ Recorded' = Recorded \cup {m}
    BY <1>j, <2>3, MemberKinds DEF IInv
  <2>5. Phase = "opened" \/ Recorded' = Recorded
    BY <1>h, <1>i, <2>2 DEF Phase
  <2> QED
    BY <1>2, <1>a, <1>b, <2>2, <2>4, <2>5 DEF Contract!Next, Move
<1>3. ASSUME NEW c \in Callers, Acquire(c) PROVE [Contract!Next]_Contract!vars
  <2>1. \A d \in Callers : at[d] \notin HoldsLatch
    BY <1>3 DEF Acquire, LatchInv, LatchIsOwned
  <2>2. Phase = "free" /\ ~Flying
    BY <2>1 DEF Phase, Flying, HoldsLatch
  <2>3. at'[c] = "members" /\ \A d \in Callers \ {c} : at'[d] = at[d]
    BY <1>3, <1>g DEF Acquire
  <2>4. ~Flying' /\ Phase' = "reserved"
    BY <2>1, <2>3 DEF Flying, Phase, HoldsLatch, InRound
  <2> QED
    BY <1>3, <1>c, <1>h, <1>i, <2>2, <2>4 DEF Acquire, Contract!Next
<1>4. ASSUME NEW c \in Callers, GiveBack(c) PROVE [Contract!Next]_Contract!vars
  <2>1. \A d \in Callers \ {c} : at[d] \notin HoldsLatch /\ at'[d] = at[d]
    BY <1>4, <1>g DEF GiveBack, OneRound, HoldsLatch
  <2>2. at[c] = "members" /\ at'[c] = "idle"
    BY <1>4, <1>g DEF GiveBack
  <2>3. ~Flying /\ Phase = "reserved" /\ ~Flying' /\ Phase' = "free"
    BY <2>1, <2>2 DEF Flying, Phase, HoldsLatch, InRound
  <2> QED
    BY <1>4, <1>d, <1>h, <1>i, <2>3 DEF GiveBack, Contract!Next
<1>5. ASSUME NEW c \in Callers, Announce(c) PROVE [Contract!Next]_Contract!vars
  <2>1. \A d \in Callers \ {c} : at[d] \notin HoldsLatch /\ at'[d] = at[d]
    BY <1>5, <1>g DEF Announce, OneRound, HoldsLatch
  <2>2. at[c] = "members" /\ at'[c] = "top"
    BY <1>5, <1>g DEF Announce
  <2>3. ~Flying /\ Phase = "reserved" /\ Phase' = "opened"
    BY <2>1, <2>2 DEF Flying, Phase, HoldsLatch, InRound
  <2>4. Recorded' = Recorded
    <3>1. ASSUME NEW d \in Callers, KindOf(d) \/ Reads(d), Only(d)
          PROVE  \A e \in Callers : call'[e].rows = call[e].rows
      <4>1. at[d] \notin InRound
        BY <2>3 DEF Flying, Phase
      <4>2. call'[d].rows = call[d].rows
        BY <3>1, <4>1
           DEF KindOf, Strolls, Escapes, Begins, Writes, Counts, Picks, Opens, Rests, Reads, InRound,
               MemberInv, RowsOf
      <4> QED
        BY <3>1, <4>2 DEF Only
    <3> QED
      BY <1>j, <3>1, MemberKinds DEF IInv, Recorded
  <2> QED
    BY <1>5, <1>e, <2>3, <2>4 DEF Announce, Contract!Next
<1>6. ASSUME NEW c \in Callers, Conclude(c) PROVE [Contract!Next]_Contract!vars
  <2>1. \A d \in Callers \ {c} : at[d] \notin HoldsLatch /\ at'[d] = at[d]
    BY <1>6, <1>g DEF Conclude, OneRound, HoldsLatch, InRound
  <2>2. at[c] \in {"verdict", "rows"} /\ at'[c] = "finishing"
    BY <1>6, <1>g DEF Conclude
  <2>3. Flying /\ Phase = "opened" /\ ~Flying' /\ Phase' = "free"
    BY <2>1, <2>2 DEF Flying, Phase, HoldsLatch, InRound
  <2>4. ~preview => report = "running"
    BY <2>3 DEF LatchInv, StartIsOpen, Flying
  <2> QED
    BY <1>6, <1>f, <1>i, <2>3, <2>4 DEF Conclude, Contract!Next
<1>7. CASE UNCHANGED vars
  BY <1>1, <1>7 DEF vars, code, surroundings
<1>8. ASSUME NEW c \in Callers, Leave(c) PROVE [Contract!Next]_Contract!vars
  <2>1. \A d \in Callers : at[d] \notin HoldsLatch
    BY <1>8 DEF Leave, LatchInv, FinishesAlone
  <2>2. \A d \in Callers : at'[d] \notin HoldsLatch
    BY <1>8, <1>g, <2>1 DEF Leave, HoldsLatch, InRound
  <2>3. ~Flying /\ ~Flying' /\ Phase = "free" /\ Phase' = "free"
    BY <2>1, <2>2 DEF Flying, Phase, HoldsLatch
  <2> QED
    BY <1>8, <1>a, <1>h, <1>i, <2>3 DEF Leave
<1> QED
  BY <1>1, <1>2, <1>3, <1>4, <1>5, <1>6, <1>7, <1>8, StepKinds

\* For any number of requests, ticks, targets and providers the round is what its
\* contract says: opened rounds one at a time, each member recorded at most once,
\* and an opened round's verdict, if one could be given, handed over in the step
\* that releases the latch.
THEOREM RoundKeepsContract == Spec => ImplementsContract
<1>1. Spec => []IInv
  BY InitType, NextType, PTL DEF Spec
<1>2. Init /\ []IInv /\ []AskedForReal /\ [][Next]_vars => []LatchInv
  BY InitLatch, NextLatch, PTL
<1>3. Init /\ []IInv /\ [][Next]_vars => []MemberInv
  BY InitMember, MemberStep, PTL
<1>. QED
  BY <1>1, <1>2, <1>3, AlwaysAsked, ContractInit, ContractStep, PTL
     DEF Spec, ImplementsContract, Contract!Spec

-----------------------------------------------------------------------------
(* The holds.                                                              *)

UnderWay == {"measuring", "recording"}
SameMember(c) == call'[c].cur = call[c].cur /\ call'[c].type = call[c].type

\* A scheduled measurement under way is of a provider without a hold.
HoldInv ==
    \A c \in Callers :
      at[c] \in UnderWay /\ call[c].type = "auto" /\ ~preview => ProviderOf[call[c].cur] \notin held

\* What a step of a call does to the holds and to what is under way: it goes on
\* or leaves, it begins with a provider that is not held, or it is refused.
GoesOn(c) == held' \subseteq held /\ (at'[c] \in UnderWay => at[c] \in UnderWay /\ SameMember(c))
BeginsFree(c) ==
    /\ held' = held /\ SameMember(c)
    /\ call[c].type = "auto" /\ ~preview => ProviderOf[call[c].cur] \notin held
IsRefused(c) == at[c] = "measuring" /\ at'[c] = "failing"
HoldKind(c) == GoesOn(c) \/ BeginsFree(c) \/ IsRefused(c)

LEMMA HoldKinds ==
    ASSUME TypeOK, [Next]_vars
    PROVE  /\ UNCHANGED preview
           /\ \/ \E c \in Callers : HoldKind(c) /\ Only(c)
              \/ UNCHANGED <<at, call>> /\ held' \subseteq held
<1> USE DEF UnderWay, surroundings
<1>0. /\ at \in [Callers -> {"idle", "finishing"} \cup Asking \cup HoldsLatch] /\ call \in [Callers -> Locals]
      /\ \A c \in Callers : call[c] \in Locals
  BY DEF TypeOK
<1>1. ASSUME NEW c \in Callers, Dismiss(c), held' = held PROVE GoesOn(c)
  BY <1>0, <1>1 DEF Dismiss, GoesOn
<1>2. ASSUME NEW c \in Callers,
             \/ \E n \in Targets \cup {NoTarget} : RunRequested(c, n)
             \/ AutoCreate(c) \/ RunCounted(c) \/ RunReserved(c) \/ RoundDeclined(c)
             \/ RoundOpened(c) \/ VerdictKnown(c) \/ VerdictRead(c) \/ VerdictLost(c) \/ Finish(c)
      PROVE  HoldKind(c) /\ Only(c) /\ UNCHANGED preview
  <2>1. held' = held /\ preview' = preview
    BY <1>2 DEF RunRequested, AutoCreate, RunCounted, RunReserved, RoundDeclined, RoundOpened,
                VerdictKnown, VerdictRead, VerdictLost, Release, Finish
  <2>2. at'[c] \notin UnderWay
    BY <1>0, <1>2 DEF RunRequested, AutoCreate, RunCounted, RunReserved, RoundDeclined, RoundOpened,
                VerdictKnown, VerdictRead, VerdictLost, Release, Finish, Dismiss
  <2> QED
    BY <1>2, <2>1, <2>2, EdgeKinds DEF HoldKind, GoesOn
<1>3. ASSUME NEW c \in Callers, LoopTop(c) \/ QuietHoursRead(c) \/ MemberRead(c)
      PROVE  HoldKind(c) /\ Only(c) /\ UNCHANGED preview
  <2>1. held' = held /\ preview' = preview
    BY <1>3 DEF LoopTop, QuietHoursRead, MemberRead
  <2>2. ASSUME LoopTop(c) \/ QuietHoursRead(c) PROVE HoldKind(c)
    <3>1. at'[c] \notin UnderWay
      BY <1>0, <2>2 DEF LoopTop, QuietHoursRead, Escape
    <3> QED
      BY <2>1, <3>1 DEF HoldKind, GoesOn
  <2>3. ASSUME MemberRead(c) PROVE HoldKind(c)
    <3>1. CASE at'[c] \notin UnderWay
      BY <2>1, <3>1 DEF HoldKind, GoesOn
    <3>2. CASE preview /\ BeginTarget(c, TRUE)
      BY <1>0, <2>1, <3>2 DEF HoldKind, BeginsFree, BeginTarget, SameMember, Locals
    <3>3. CASE ~memberHeld(call[c].cur, call[c].type) /\ BeginTarget(c, table[call[c].cur].alerts)
      BY <1>0, <2>1, <3>3 DEF HoldKind, BeginsFree, BeginTarget, SameMember, Locals, memberHeld
    <3> QED
      BY <1>0, <2>3, <3>1, <3>2, <3>3 DEF MemberRead, Escape
  <2> QED
    BY <1>3, <2>1, <2>2, <2>3, LoopKinds
<1>4. ASSUME NEW c \in Callers,
             \/ Measured(c) \/ (\E rateLimited \in BOOLEAN : MeasureFailed(c, rateLimited))
             \/ RecordResult(c) \/ RecordFailure(c) \/ TargetDone(c) \/ SettleLine(c)
      PROVE  HoldKind(c) /\ Only(c) /\ UNCHANGED preview
  <2>1. preview' = preview
    BY <1>4 DEF Measured, MeasureFailed, RecordResult, RecordFailure, TargetDone, SettleLine
  <2>2. ASSUME NEW limited, at[c] \in UnderWay, RetryOrFail(c, limited)
        PROVE  SameMember(c)
    BY <1>0, <2>2 DEF RetryOrFail, SameMember, Locals
  <2>3. ASSUME Measured(c) PROVE HoldKind(c)
    BY <1>0, <2>3 DEF Measured, HoldKind, GoesOn, SameMember
  <2>4. ASSUME NEW limited \in BOOLEAN, MeasureFailed(c, limited) PROVE HoldKind(c)
    <3>1. CASE limited
      BY <1>0, <2>4, <3>1 DEF MeasureFailed, RetryOrFail, HoldKind, IsRefused
    <3>2. CASE ~limited
      <4>1. held' = held /\ at[c] \in UnderWay
        BY <2>4, <3>2 DEF MeasureFailed
      <4>2. SameMember(c)
        BY <2>2, <2>4, <4>1 DEF MeasureFailed
      <4> QED
        BY <4>1, <4>2 DEF HoldKind, GoesOn
    <3> QED
      BY <3>1, <3>2
  <2>5. ASSUME RecordResult(c) PROVE HoldKind(c)
    <3>1. held' = held /\ at[c] \in UnderWay
      BY <2>5 DEF RecordResult
    <3>2. CASE WriteRow(c, "ok")
      BY <1>0, <3>1, <3>2 DEF WriteRow, HoldKind, GoesOn
    <3>3. CASE RetryOrFail(c, FALSE)
      BY <1>0, <3>1, <3>3 DEF RetryOrFail, SameMember, Locals, HoldKind, GoesOn
    <3> QED
      BY <2>5, <3>2, <3>3 DEF RecordResult
  <2>6. ASSUME RecordFailure(c) \/ TargetDone(c) \/ SettleLine(c) PROVE HoldKind(c)
    <3>1. held' = held /\ at'[c] \notin UnderWay
      BY <1>0, <2>6 DEF RecordFailure, TargetDone, SettleLine, WriteRow, Escape
    <3> QED
      BY <3>1 DEF HoldKind, GoesOn
  <2> QED
    BY <1>4, <2>1, <2>3, <2>4, <2>5, <2>6, TargetKinds
<1>5. Environment => UNCHANGED <<at, call, preview>> /\ held' \subseteq held
  BY DEF Environment, PauseToggled, QuietToggled, DbToggled, MarkShutdown, HoldExpires,
         RowAges, TargetEdited, RowDeleted, Change
<1>6. UNCHANGED vars => UNCHANGED <<at, call, preview>> /\ held' \subseteq held
  BY DEF vars, code
<1>7. ASSUME NEW c \in Callers,
             TargetsListed(c) \/ \E t \in Members \cup {NoTarget} : RowRead(c, t)
      PROVE  HoldKind(c) /\ Only(c) /\ UNCHANGED preview
  <2>1. held' = held /\ preview' = preview
    BY <1>7 DEF TargetsListed, RowRead
  <2>2. at'[c] \notin UnderWay /\ Only(c)
    BY <1>7, ReadKinds DEF Reads
  <2> QED
    BY <2>1, <2>2 DEF HoldKind, GoesOn
<1> QED
  BY <1>2, <1>3, <1>4, <1>5, <1>6, <1>7 DEF Next, Round

LEMMA HoldStep == IInv /\ LatchInv /\ HoldInv /\ [Next]_vars => HoldInv'
<1> SUFFICES ASSUME IInv, LatchInv, HoldInv, [Next]_vars,
                    NEW d \in Callers, at'[d] \in UnderWay, call'[d].type = "auto", ~preview'
             PROVE  ProviderOf[call'[d].cur] \notin held'
  BY DEF HoldInv
<1>1. ~preview
  BY HoldKinds DEF IInv
<1>2. CASE UNCHANGED <<at, call>> /\ held' \subseteq held
  BY <1>1, <1>2 DEF HoldInv
<1>3. ASSUME NEW c \in Callers, HoldKind(c), Only(c) PROVE ProviderOf[call'[d].cur] \notin held'
  <2>1. CASE GoesOn(c)
    BY <1>1, <1>3, <2>1 DEF GoesOn, SameMember, Only, HoldInv
  <2>2. CASE BeginsFree(c)
    BY <1>1, <1>3, <2>2 DEF BeginsFree, SameMember, Only, HoldInv
  <2>3. CASE IsRefused(c)
    <3>1. d # c /\ at[d] = at'[d]
      BY <1>3, <2>3 DEF IsRefused, Only, UnderWay
    <3>2. at[c] \in HoldsLatch /\ at[d] \in HoldsLatch
      BY <2>3, <3>1 DEF IsRefused, UnderWay, HoldsLatch, InRound
    <3> QED
      BY <3>1, <3>2 DEF LatchInv, OneRound
  <2> QED
    BY <1>3, <2>1, <2>2, <2>3 DEF HoldKind
<1> QED
  BY <1>2, <1>3, HoldKinds DEF IInv

\* The body of HoldIsHonoured.
HoldRespected ==
    \A c \in Callers :
      /\ at'[c] = "measuring"
      /\ at[c] # "measuring" \/ call'[c].retried # call[c].retried
      /\ call[c].type = "auto" /\ ~preview
      => ProviderOf[call[c].cur] \notin held'

LEMMA HoldIsRespected == ASSUME IInv, HoldInv, Next PROVE HoldRespected
<1> SUFFICES ASSUME NEW c \in Callers, at'[c] = "measuring",
                    at[c] # "measuring" \/ call'[c].retried # call[c].retried,
                    call[c].type = "auto", ~preview
             PROVE  ProviderOf[call[c].cur] \notin held'
  BY DEF HoldRespected
<1>1. PICK d \in Callers : HoldKind(d) /\ Only(d)
  BY HoldKinds DEF IInv
<1>2. d = c
  BY <1>1 DEF Only
<1>3. CASE GoesOn(c)
  BY <1>3 DEF GoesOn, UnderWay, HoldInv
<1>4. CASE BeginsFree(c)
  BY <1>4 DEF BeginsFree
<1>5. CASE IsRefused(c)
  BY <1>5 DEF IsRefused
<1> QED
  BY <1>1, <1>2, <1>3, <1>4, <1>5 DEF HoldKind

\* For any targets and providers: a scheduled round asks no provider while its
\* hold stands, not the further members of one that refused nor a member again.
THEOREM HoldsHonoured == Spec => HoldIsHonoured
<1>1. Spec => []IInv
  BY InitType, NextType, PTL DEF Spec
<1>2. Init /\ []IInv /\ []AskedForReal /\ [][Next]_vars => []LatchInv
  BY InitLatch, NextLatch, PTL
<1>3. Init => HoldInv
  BY DEF Init, HoldInv, UnderWay
<1>4. Init /\ []IInv /\ []LatchInv /\ [][Next]_vars => []HoldInv
  BY <1>3, HoldStep, PTL
<1>5. IInv /\ HoldInv /\ [Next]_vars => [HoldRespected]_vars
  BY HoldIsRespected
<1>. QED
  BY <1>1, <1>2, <1>4, <1>5, AlwaysAsked, PTL DEF Spec, HoldIsHonoured, HoldRespected

-----------------------------------------------------------------------------
(* A round comes to its end by what it does itself: what is left of it     *)
(* shrinks with each step it takes, whatever fails or changes around it.   *)

StepsLeft(c) ==
    10 * Cardinality(call[c].left) + Pace(at[c], call[c].retried) + ReadsLeft(c)

\* The body of RoundShrinks.
ShrinksOrEnds ==
    \A c \in Callers : at[c] \in InRound =>
      \/ UNCHANGED <<at[c], call[c]>>
      \/ at'[c] = "finishing"
      \/ at'[c] \in InRound /\ StepsLeft(c)' < StepsLeft(c)

\* No step of an opened round goes back on an earlier one: each takes it nearer to
\* its verdict, retries, escapes and the verdict's reads included, and only the
\* verdict ends it.
RoundShrinks == [][ShrinksOrEnds]_vars

\* And it never has more to do than so many steps a member.
RoundIsBounded ==
    \A c \in Callers : at[c] \in InRound =>
      StepsLeft(c) \in 0 .. (11 * Cardinality(Members) + 12)

LEMMA PaceRange == \A place, retried : Pace(place, retried) \in 0..10
BY DEF Pace

LEMMA LeftIsFinite ==
    ASSUME NEW S \in SUBSET Members
    PROVE  IsFiniteSet(S) /\ Cardinality(S) \in Nat /\ Cardinality(S) <= Cardinality(Members)
           /\ Cardinality(Members) \in Nat
<1>1. IsFiniteSet(Members)
  BY RoundAssumption, FS_AddElement DEF RoundAssumption, Members
<1> QED
  BY <1>1, FS_Subset, FS_CardinalityType

LEMMA AskedIsFinite ==
    ASSUME NEW S \in SUBSET (Members \cup {NoTarget})
    PROVE  IsFiniteSet(S) /\ Cardinality(S) \in 0 .. (Cardinality(Members) + 1)
<1>1. IsFiniteSet(Members) /\ NoTarget \notin Members /\ Cardinality(Members) \in Nat
  BY RoundAssumption, LeftIsFinite DEF RoundAssumption, Members
<1>2. /\ IsFiniteSet(Members \cup {NoTarget})
      /\ Cardinality(Members \cup {NoTarget}) = Cardinality(Members) + 1
  BY <1>1, FS_AddElement
<1>3. IsFiniteSet(S) /\ Cardinality(S) \in Nat /\ Cardinality(S) <= Cardinality(Members) + 1
  BY <1>2, FS_Subset, FS_CardinalityType
<1> QED
  BY <1>1, <1>3

LEMMA LeftKnown ==
    ASSUME TypeOK, NEW c \in Callers
    PROVE  /\ call[c].left \in SUBSET Members
           /\ call[c].asked \in SUBSET (Members \cup {NoTarget})
BY DEF TypeOK, Locals

LEMMA ReadsRange ==
    ASSUME TypeOK, NEW c \in Callers PROVE ReadsLeft(c) \in 0 .. (Cardinality(Members) + 2)
<1>1. Cardinality(call[c].asked) \in 0 .. (Cardinality(Members) + 1)
  BY LeftKnown, AskedIsFinite
<1>2. Cardinality(Members) \in Nat
  BY LeftIsFinite
<1> QED
  BY <1>1, <1>2 DEF ReadsLeft

LEMMA RoundBound == TypeOK => RoundIsBounded
<1> SUFFICES ASSUME TypeOK, NEW c \in Callers
             PROVE  StepsLeft(c) \in 0 .. (11 * Cardinality(Members) + 12)
  BY DEF RoundIsBounded
<1>1. Pace(at[c], call[c].retried) \in 0..10
  BY PaceRange
<1>2. /\ Cardinality(call[c].left) \in Nat /\ Cardinality(Members) \in Nat
      /\ Cardinality(call[c].left) <= Cardinality(Members)
  BY LeftKnown, LeftIsFinite
<1> QED
  BY <1>1, <1>2, ReadsRange DEF StepsLeft

\* Before the verdict lists the targets, a step of the round changes nothing about
\* how many answers that will wait for.
LEMMA ShrinkKinds ==
    ASSUME TypeOK, TypeOK', NEW c \in Callers, at[c] \in InRound, KindOf(c)
    PROVE  at'[c] = "finishing" \/ (at'[c] \in InRound /\ StepsLeft(c)' < StepsLeft(c))
<1> DEFINE left == call[c].left
           pace == Pace(at[c], call[c].retried)
           reads == ReadsLeft(c)
<1>1. /\ left \in SUBSET Members /\ Cardinality(left) \in Nat /\ IsFiniteSet(left)
      /\ pace \in 0..10 /\ pace' \in 0..10 /\ reads \in Nat
  <2>1. reads \in 0 .. (Cardinality(Members) + 2) /\ Cardinality(Members) \in Nat
    BY ReadsRange, LeftIsFinite
  <2> QED
    BY <2>1, LeftKnown, LeftIsFinite, PaceRange
<1>2. ASSUME at[c] # "rows", at'[c] # "rows" PROVE reads' = reads
  BY <1>2 DEF ReadsLeft
<1>3. ASSUME left' = left, pace' < pace, at[c] # "rows", at'[c] # "rows"
      PROVE  StepsLeft(c)' < StepsLeft(c)
  <2>1. Cardinality(left)' = Cardinality(left) /\ reads' = reads
    BY <1>2, <1>3
  <2> QED
    BY <1>1, <1>3, <2>1 DEF StepsLeft
<1>4. ASSUME Strolls(c) PROVE at'[c] \in InRound /\ StepsLeft(c)' < StepsLeft(c)
  BY <1>3, <1>4 DEF Strolls, KeepsMembers, KeepsRows
<1>5. ASSUME Escapes(c) \/ Begins(c) \/ Writes(c) \/ Counts(c)
      PROVE  at'[c] \in InRound /\ StepsLeft(c)' < StepsLeft(c)
  <2>1. left' = left /\ at'[c] \in InRound /\ at[c] # "rows" /\ at'[c] # "rows"
    BY <1>5 DEF Escapes, Begins, Writes, Counts, KeepsRows, InRound
  <2>2. pace' < pace
    BY <1>5 DEF Escapes, Begins, Writes, Counts, Pace
  <2> QED
    BY <1>3, <2>1, <2>2
<1>6. ASSUME Picks(c) PROVE at'[c] \in InRound /\ StepsLeft(c)' < StepsLeft(c)
  <2>1. PICK t \in left : left' = left \ {t}
    BY <1>6 DEF Picks
  <2>2. Cardinality(left \ {t}) = Cardinality(left) - 1
    BY <1>1, FS_RemoveElement
  <2>3. pace = 1 /\ at'[c] \in InRound /\ at[c] # "rows" /\ at'[c] # "rows"
    BY <1>6 DEF Picks, Pace, InRound
  <2>4. StepsLeft(c)' = 10 * Cardinality(left \ {t}) + pace' + reads
    BY <1>2, <2>1, <2>3 DEF StepsLeft
  <2> QED
    BY <1>1, <2>2, <2>3, <2>4 DEF StepsLeft
<1>7. ~Opens(c)
  BY DEF Opens, InRound
<1>8. Rests(c) => at'[c] = "finishing"
  BY DEF Rests
<1> QED
  BY <1>4, <1>5, <1>6, <1>7, <1>8, Zenon DEF KindOf

\* Each read of the verdict leaves fewer to come.
LEMMA ShrinkReads ==
    ASSUME TypeOK, TypeOK', NEW c \in Callers,
           TargetsListed(c) \/ \E t \in Members \cup {NoTarget} : RowRead(c, t)
    PROVE  at'[c] \in InRound /\ StepsLeft(c)' < StepsLeft(c)
<1>0. /\ at \in [Callers -> {"idle", "finishing"} \cup Asking \cup HoldsLatch]
      /\ call \in [Callers -> Locals] /\ call[c] \in Locals
  BY DEF TypeOK
<1>a. /\ call[c].asked \in SUBSET (Members \cup {NoTarget})
      /\ call'[c].asked \in SUBSET (Members \cup {NoTarget})
  BY DEF TypeOK, Locals
<1>1. /\ at[c] \in {"verdict", "rows"} /\ at'[c] = "rows"
      /\ call'[c].left = call[c].left
  BY ReadKinds DEF Reads, KeepsMembers, KeepsRows
<1>2. /\ Pace(at[c], call[c].retried) = 0 /\ Pace(at[c], call[c].retried)' = 0
      /\ Cardinality(call[c].left)' = Cardinality(call[c].left)
      /\ Cardinality(call[c].left) \in Nat
  BY <1>1, LeftKnown, LeftIsFinite DEF Pace
<1>3. /\ ReadsLeft(c)' = Cardinality(call'[c].asked)
      /\ ReadsLeft(c)' \in Nat /\ ReadsLeft(c) \in Nat /\ Cardinality(Members) \in Nat
  <2>1. /\ Cardinality(call[c].asked) \in 0 .. (Cardinality(Members) + 1)
        /\ Cardinality(call'[c].asked) \in 0 .. (Cardinality(Members) + 1)
    BY <1>a, AskedIsFinite
  <2>2. Cardinality(Members) \in Nat
    BY LeftIsFinite
  <2> QED
    BY <1>1, <2>1, <2>2 DEF ReadsLeft
<1>4. ReadsLeft(c)' < ReadsLeft(c)
  <2>1. CASE TargetsListed(c)
    <3>1. ReadsLeft(c) = Cardinality(Members) + 2
      BY <2>1 DEF TargetsListed, ReadsLeft
    <3>2. Cardinality(call'[c].asked) <= Cardinality(Members) + 1
      BY <1>3, <1>a, AskedIsFinite
    <3> QED
      BY <1>3, <3>1, <3>2
  <2>2. ASSUME NEW t, RowRead(c, t) PROVE ReadsLeft(c)' < ReadsLeft(c)
    <3>1. at[c] = "rows" /\ t \in call[c].asked /\ call'[c].asked = call[c].asked \ {t}
      <4>1. PICK stands : call' = [call EXCEPT ![c].asked = @ \ {t}, ![c].stood = @ \/ stands]
        BY <2>2 DEF RowRead
      <4> QED
        BY <1>0, <2>2, <4>1 DEF RowRead, Locals
    <3>2. Cardinality(call[c].asked \ {t}) = Cardinality(call[c].asked) - 1
      BY <3>1, <1>a, AskedIsFinite, FS_RemoveElement
    <3>3. ReadsLeft(c) = Cardinality(call[c].asked)
      BY <3>1 DEF ReadsLeft
    <3> QED
      BY <1>3, <3>1, <3>2, <3>3
  <2> QED
    BY <2>1, <2>2
<1> QED
  BY <1>1, <1>2, <1>3, <1>4 DEF StepsLeft, InRound

LEMMA ShrinkStep == ASSUME TypeOK, TypeOK', [Next]_vars PROVE ShrinksOrEnds
<1> SUFFICES ASSUME NEW c \in Callers, at[c] \in InRound
             PROVE  \/ UNCHANGED <<at[c], call[c]>>
                    \/ at'[c] = "finishing"
                    \/ at'[c] \in InRound /\ StepsLeft(c)' < StepsLeft(c)
  BY DEF ShrinksOrEnds
<1>1. ASSUME NEW d \in Callers, Only(d), d # c PROVE UNCHANGED <<at[c], call[c]>>
  BY <1>1 DEF Only
<1>2. CASE UNCHANGED <<at, call>>
  BY <1>2
<1> QED
  BY <1>1, <1>2, CallSteps, ReadKinds, ShrinkKinds, ShrinkReads

\* For any callers, targets and providers, and however the database, the pauses
\* and the holds change meanwhile: an opened round takes its own steps towards the
\* release of the latch and no others, at most eleven a member and twelve more.
THEOREM RoundIsFinite == Spec => RoundShrinks /\ []RoundIsBounded
<1>1. Spec => []IInv
  BY InitType, NextType, PTL DEF Spec
<1>2. IInv /\ IInv' /\ [Next]_vars => [ShrinksOrEnds]_vars
  BY ShrinkStep DEF IInv
<1>3. IInv => RoundIsBounded
  BY RoundBound DEF IInv
<1> QED
  BY <1>1, <1>2, <1>3, PTL DEF Spec, RoundShrinks
=============================================================================
