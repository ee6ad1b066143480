----------------------------- MODULE SignInProofs -----------------------------
(***************************************************************************)
(* What holds of SignIn for any number of requests, passwords and changes. *)
(* The argument: a request captures the generation before it reads, and a  *)
(* revocation advances it, so a request whose generation is still the      *)
(* current one has read the current password - or one whose replacement is *)
(* committed and has not revoked yet.                                      *)
(***************************************************************************)
EXTENDS SignIn, AttemptThrottleProofs, SequenceTheorems

USE SignInAssumption, ThrottleAssumption

States == {"idle", "operator", "viewer", "reading", "hashed", "read",
           "comparing", "rereading", "reread", "differs"}
Calls == [kind : Kinds, generation : Nat, revision : Nat, hash : Hashes,
          version : Nat, level : Levels, policy : Nat]

\* The part of TypeOK that is not the throttle's.
OwnTypeOK ==
    /\ passwordHash \in Hashes /\ passwordLevel \in Levels
    /\ sessions \in Seq(Nat) /\ Len(sessions) <= MAX_SESSIONS
    /\ generation \in Nat /\ policyRevision \in Nat
    /\ mutation \subseteq {"password", "level"}
    /\ at \in [Requests -> States]
    /\ call \in [Requests -> Calls]
    /\ version \in Nat /\ policy \in Nat

HashIsCurrent(r) == call[r].version = version \/ "password" \in mutation
LevelIsCurrent(r) == call[r].policy = policy \/ "level" \in mutation

\* The strengthening: what a request has captured is not ahead of the counters, and
\* what it has read under the current ones is current.
CallIsDated(r) ==
    /\ call[r].generation <= generation
    /\ call[r].revision <= policyRevision
    /\ at[r] \in {"hashed", "read", "comparing", "rereading", "reread", "differs"} =>
         (call[r].generation = generation => HashIsCurrent(r))
    /\ at[r] \in {"read", "comparing"} /\ call[r].kind = "gate" =>
         (call[r].revision = policyRevision => LevelIsCurrent(r))
CallsAreDated == \A r \in Requests : CallIsDated(r)

SInv == OwnTypeOK /\ CallsAreDated /\ SessionsAreCurrent /\ IInv

LEMMA BlankType == Blank \in Calls
BY DEF Blank, Calls, Kinds, Hashes, Levels

LEMMA TypeOKParts == TypeOK <=> ThrottleTypeOK /\ OwnTypeOK
BY DEF TypeOK, OwnTypeOK, States, Calls

-----------------------------------------------------------------------------
(* Every step of SignIn is a step of the throttle, or leaves it alone.     *)

LEMMA ThrottleMoves ==
    ASSUME NEW r \in Requests, NEW n \in 1..MaxCandidates, NEW failed \in 0..MaxCandidates,
           NEW cleared \in BOOLEAN
    PROVE  /\ LockedOut(r) => UNCHANGED throttleVars
           /\ Busy(r, n) => ThrottleNext
           /\ Reserve(r, n) => ThrottleNext
           /\ ReserveAndSettle(r, n, failed, cleared) => ThrottleNext
           /\ Settle(r, failed, cleared) => ThrottleNext
           /\ Forgive(r) => ThrottleNext
BY DEF LockedOut, ThrottleNext

LEMMA ThrottleStep == IInv /\ [Next]_vars => [ThrottleNext]_throttleVars
<1> SUFFICES ASSUME IInv, [Next]_vars PROVE [ThrottleNext]_throttleVars
  OBVIOUS
<1>0. /\ 1 \in 1..MaxCandidates /\ 0 \in 0..MaxCandidates
      /\ \A n \in 1..MaxCandidates : n \in 0..MaxCandidates
      /\ \A r \in Requests : ticket[r] \in 0..MaxCandidates
  BY DEF IInv, ThrottleTypeOK
<1>1. ASSUME NEW r \in Requests,
             \/ SessionArrives(r) \/ SessionHonoured(r)
             \/ \E k \in Kinds : GateArrives(r, k)
             \/ HashAnswered(r) \/ LevelAnswered(r) \/ HashReread(r)
             \/ SessionCompares(r) \/ GateChanged(r) \/ ScrapeChanged(r)
      PROVE  [ThrottleNext]_throttleVars
  BY <1>0, <1>1 DEF SessionArrives, SessionHonoured, GateArrives, HashAnswered, LevelAnswered,
     HashReread, SessionCompares, GateChanged, ScrapeChanged, LockedOut, ThrottleNext
<1>2. ASSUME NEW r \in Requests, ReadRefused(r) PROVE [ThrottleNext]_throttleVars
  BY <1>0, <1>2, ThrottleMoves DEF ReadRefused
<1>3. ASSUME NEW r \in Requests, SessionToken(r) \/ SessionCompared(r)
      PROVE  [ThrottleNext]_throttleVars
  <2>1. PICK valid \in BOOLEAN : SessionDecided(r, valid)
    BY <1>3 DEF SessionToken, SessionCompared
  <2> QED
    BY <1>0, <2>1, ThrottleMoves DEF SessionDecided
<1>4. ASSUME NEW r \in Requests, GateUnconfigured(r) \/ GateCompares(r)
      PROVE  [ThrottleNext]_throttleVars
  BY <1>0, <1>4, ThrottleMoves DEF GateUnconfigured, GateCompares
<1>5. ASSUME NEW r \in Requests, GateCompared(r) \/ ScrapeCompared(r)
      PROVE  [ThrottleNext]_throttleVars
  BY <1>0, <1>5, ThrottleMoves DEF GateCompared, ScrapeCompared
<1>6. ASSUME NEW r \in Requests, ScrapeUnconfigured(r) \/ ScrapeCompares(r)
      PROVE  [ThrottleNext]_throttleVars
  BY <1>0, <1>6, ThrottleMoves DEF ScrapeUnconfigured, ScrapeCompares
<1>7. ASSUME NEW r \in Requests, Rechecked(r) PROVE [ThrottleNext]_throttleVars
  BY <1>7 DEF Rechecked, ThrottleNext
<1>8. CASE ValueWritten \/ ImportCommitted \/ ResetCommitted \/ Revoked \/ SessionEnds \/ PasswordCleared
  BY <1>8 DEF ValueWritten, ImportCommitted, ResetCommitted, Commit, Revoked, SessionEnds, PasswordCleared
<1>9. CASE Restart \/ TimePasses
  BY <1>9 DEF Restart, TimePasses, ThrottleNext
<1>10. CASE UNCHANGED vars
  BY <1>10 DEF vars
<1> QED
  BY <1>1, <1>2, <1>3, <1>4, <1>5, <1>6, <1>7, <1>8, <1>9, <1>10 DEF Next

-----------------------------------------------------------------------------
(* The steps of one request.                                               *)

\* A step that moves one request and none of the counters is about that request.
LEMMA OneRequest ==
    ASSUME OwnTypeOK, CallsAreDated, NEW r \in Requests, NEW to \in States, NEW locals \in Calls,
           at' = [at EXCEPT ![r] = to], call' = [call EXCEPT ![r] = locals],
           UNCHANGED <<stored, generation, policyRevision, mutation>>,
           CallIsDated(r)'
    PROVE  /\ CallsAreDated'
           /\ sessions' \in Seq(Nat) /\ Len(sessions') <= MAX_SESSIONS => OwnTypeOK'
<1>1. at' \in [Requests -> States] /\ call' \in [Requests -> Calls]
  BY DEF OwnTypeOK
<1>2. sessions' \in Seq(Nat) /\ Len(sessions') <= MAX_SESSIONS => OwnTypeOK'
  BY <1>1 DEF OwnTypeOK, stored
<1>3. ASSUME NEW s \in Requests PROVE CallIsDated(s)'
  <2>1. CASE s = r
    BY <2>1
  <2>2. CASE s # r
    <3>1. at'[s] = at[s] /\ call'[s] = call[s]
      BY <2>2 DEF OwnTypeOK
    <3>2. CallIsDated(s)
      BY DEF CallsAreDated
    <3> QED
      BY <3>1, <3>2 DEF CallIsDated, HashIsCurrent, LevelIsCurrent, stored
  <2> QED
    BY <2>1, <2>2
<1> QED
  BY <1>2, <1>3 DEF CallsAreDated

\* A request that is answered holds nothing any more.
LEMMA Answered ==
    ASSUME OwnTypeOK, CallsAreDated, NEW r \in Requests,
           NEW outcome \in {"idle", "operator", "viewer"}, Answer(r, outcome),
           UNCHANGED <<stored, generation, policyRevision, mutation>>
    PROVE  /\ CallsAreDated'
           /\ sessions' \in Seq(Nat) /\ Len(sessions') <= MAX_SESSIONS => OwnTypeOK'
<1>1. /\ at' = [at EXCEPT ![r] = outcome] /\ call' = [call EXCEPT ![r] = Blank]
      /\ at'[r] = outcome /\ call'[r] = Blank
  BY DEF Answer, OwnTypeOK
<1>2. CallIsDated(r)'
  BY <1>1 DEF CallIsDated, Blank, OwnTypeOK
<1>3. outcome \in States
  BY DEF States
<1> QED
  BY <1>1, <1>2, <1>3, BlankType, OneRequest
\* What the steps of a request leave alone, but for the sessions.
Frame == UNCHANGED <<stored, generation, policyRevision, mutation>>
Own == OwnTypeOK /\ CallsAreDated /\ SessionsAreCurrent

LEMMA FrameSessions ==
    ASSUME Own, Frame, UNCHANGED sessions
    PROVE  /\ SessionsAreCurrent'
           /\ sessions' \in Seq(Nat) /\ Len(sessions') <= MAX_SESSIONS
BY DEF Own, Frame, stored, SessionsAreCurrent, OwnTypeOK

\* A request that is turned away, or let in, with the sessions as they were.
LEMMA AnsweredOwn ==
    ASSUME Own, Frame, UNCHANGED sessions, NEW r \in Requests,
           NEW outcome \in {"idle", "operator", "viewer"}, Answer(r, outcome)
    PROVE  Own'
BY FrameSessions, Answered DEF Own, Frame

\* A request that goes on to its next await.
LEMMA MovedOwn ==
    ASSUME Own, Frame, UNCHANGED sessions, NEW r \in Requests, NEW to \in States,
           NEW locals \in Calls, at' = [at EXCEPT ![r] = to],
           call' = [call EXCEPT ![r] = locals], CallIsDated(r)'
    PROVE  Own'
BY FrameSessions, OneRequest DEF Own, Frame

LEMMA ArrivalsOwn ==
    ASSUME Own, NEW r \in Requests,
           SessionArrives(r) \/ SessionHonoured(r) \/ (\E k \in Kinds : GateArrives(r, k))
    PROVE  Own'
<1>1. Frame /\ UNCHANGED sessions
  BY DEF SessionArrives, SessionHonoured, GateArrives, Frame, memory
<1>2. ASSUME NEW k \in Kinds, Captured(r, k), at' = [at EXCEPT ![r] = "reading"] PROVE Own'
  <2> DEFINE locals == [Blank EXCEPT !.kind = k, !.generation = generation,
                                     !.revision = IF k = "gate" THEN policyRevision ELSE 0]
  <2>1. locals \in Calls
    BY BlankType DEF Own, OwnTypeOK, Calls
  <2>2. call' = [call EXCEPT ![r] = locals] /\ call'[r] = locals /\ at'[r] = "reading"
    BY <1>2 DEF Captured, Own, OwnTypeOK
  <2>3. CallIsDated(r)'
    BY <1>1, <2>2 DEF CallIsDated, Blank, Frame, Own, OwnTypeOK
  <2>4. "reading" \in States
    BY DEF States
  <2> QED
    BY <1>1, <1>2, <2>1, <2>2, <2>3, <2>4, MovedOwn
<1>3. CASE Answer(r, "idle") \/ Answer(r, "operator")
  BY <1>1, <1>3, AnsweredOwn
<1> QED
  BY <1>2, <1>3 DEF SessionArrives, SessionHonoured, GateArrives, Refuse, Kinds

LEMMA ReadsOwn ==
    ASSUME Own, NEW r \in Requests,
           HashAnswered(r) \/ LevelAnswered(r) \/ HashReread(r) \/ ReadRefused(r)
    PROVE  Own'
<1>1. Frame /\ UNCHANGED sessions
  BY DEF HashAnswered, LevelAnswered, HashReread, ReadRefused, Frame, memory
<1>0. call[r] \in Calls /\ CallIsDated(r)
  BY DEF Own, OwnTypeOK, CallsAreDated
<1>2. CASE HashAnswered(r)
  <2> DEFINE locals == [call[r] EXCEPT !.hash = passwordHash, !.version = version]
             to == IF call[r].kind = "gate" THEN "hashed" ELSE "read"
  <2>1. locals \in Calls /\ to \in States
    BY <1>0 DEF Own, OwnTypeOK, Calls, States
  <2>2. /\ call' = [call EXCEPT ![r] = locals] /\ call'[r] = locals
        /\ at' = [at EXCEPT ![r] = to] /\ at'[r] = to
    BY <1>2 DEF HashAnswered, Step, Own, OwnTypeOK
  <2>3. locals.version = version /\ locals.generation = call[r].generation
        /\ locals.revision = call[r].revision /\ locals.kind = call[r].kind
    BY <1>0 DEF Calls
  <2>5. at'[r] \in {"read", "comparing"} => call[r].kind # "gate"
    BY <2>2
  <2> HIDE DEF locals, to
  <2>4. CallIsDated(r)'
    BY <1>0, <1>1, <2>2, <2>3, <2>5 DEF CallIsDated, HashIsCurrent, Frame, stored
  <2> QED
    BY <1>1, <2>1, <2>2, <2>4, MovedOwn
<1>3. CASE LevelAnswered(r)
  <2> DEFINE locals == [call[r] EXCEPT !.level = passwordLevel, !.policy = policy]
  <2>1. locals \in Calls /\ "read" \in States
    BY <1>0 DEF Own, OwnTypeOK, Calls, States
  <2>2. /\ call' = [call EXCEPT ![r] = locals] /\ call'[r] = locals
        /\ at' = [at EXCEPT ![r] = "read"] /\ at'[r] = "read" /\ at[r] = "hashed"
    BY <1>3 DEF LevelAnswered, Step, Own, OwnTypeOK
  <2>3. locals.version = call[r].version /\ locals.generation = call[r].generation
        /\ locals.revision = call[r].revision /\ locals.policy = policy
    BY <1>0 DEF Calls
  <2>4. CallIsDated(r)'
    BY <1>0, <1>1, <2>2, <2>3 DEF CallIsDated, HashIsCurrent, LevelIsCurrent, Frame, stored
  <2> QED
    BY <1>1, <2>1, <2>2, <2>4, MovedOwn
<1>4. CASE HashReread(r)
  <2> DEFINE locals == [call[r] EXCEPT !.hash = NoPassword]
  <2>1. locals \in Calls
    BY <1>0 DEF Calls, Hashes
  <2>2. /\ call' = [call EXCEPT ![r] = locals] /\ call'[r] = locals /\ at[r] = "rereading"
    BY <1>4 DEF HashReread, Step, Own, OwnTypeOK
  <2>5. PICK to \in {"reread", "differs"} : at' = [at EXCEPT ![r] = to]
    BY <1>4 DEF HashReread, Step
  <2>6. at'[r] = to /\ to \in States
    BY <2>5 DEF Own, OwnTypeOK, States
  <2>3. locals.version = call[r].version /\ locals.generation = call[r].generation
        /\ locals.revision = call[r].revision
    BY <1>0 DEF Calls
  <2>4. CallIsDated(r)'
    BY <1>0, <1>1, <2>2, <2>3, <2>5, <2>6 DEF CallIsDated, HashIsCurrent, Frame, stored
  <2> QED
    BY <1>1, <2>1, <2>2, <2>4, <2>5, <2>6, MovedOwn
<1>5. CASE ReadRefused(r)
  BY <1>1, <1>5, AnsweredOwn DEF ReadRefused, Refuse
<1> QED
  BY <1>2, <1>3, <1>4, <1>5
\* What a sign-in appends is as current as what it has read.
LEMMA CreatedSession ==
    ASSUME OwnTypeOK, SessionsAreCurrent, NEW v \in Nat, createSession(v),
           v = version \/ "password" \in mutation, UNCHANGED <<version, mutation>>
    PROVE  /\ sessions' \in Seq(Nat) /\ Len(sessions') <= MAX_SESSIONS
           /\ SessionsAreCurrent'
<1> DEFINE kept == IF Len(sessions) >= MAX_SESSIONS THEN Tail(sessions) ELSE sessions
<1>1. Len(sessions) >= MAX_SESSIONS => sessions # <<>> /\ Len(sessions) = MAX_SESSIONS
  BY DEF OwnTypeOK
<1>2. kept \in Seq(Nat) /\ Len(kept) < MAX_SESSIONS
  BY <1>1 DEF OwnTypeOK
<1>3. \A i \in 1..Len(kept) : \E j \in 1..Len(sessions) : kept[i] = sessions[j]
  <2>1. CASE Len(sessions) >= MAX_SESSIONS
    <3>1. \A i \in 1..Len(Tail(sessions)) :
            Tail(sessions)[i] = sessions[i + 1] /\ i + 1 \in 1..Len(sessions)
      BY <1>1, <2>1 DEF OwnTypeOK
    <3> QED
      BY <2>1, <3>1
  <2>2. CASE ~(Len(sessions) >= MAX_SESSIONS)
    BY <2>2
  <2> QED
    BY <2>1, <2>2
<1>4. sessions' = Append(kept, v)
  BY DEF createSession
<1> HIDE DEF kept
<1>5. sessions' \in Seq(Nat) /\ Len(sessions') = Len(kept) + 1
  BY <1>2, <1>4
<1>6. \A i \in 1..Len(sessions') : sessions'[i] = v \/ \E j \in 1..Len(sessions) : sessions'[i] = sessions[j]
  BY <1>2, <1>3, <1>4, <1>5
<1>7. \A j \in 1..Len(sessions) : sessions[j] = version \/ "password" \in mutation
  BY DEF SessionsAreCurrent, OwnTypeOK
<1>8. \A i \in 1..Len(sessions') : sessions'[i] = version \/ "password" \in mutation
  BY <1>6, <1>7
<1> QED
  BY <1>2, <1>5, <1>8 DEF SessionsAreCurrent

LEMMA SessionOwn ==
    ASSUME Own, NEW r \in Requests,
           SessionToken(r) \/ SessionCompares(r) \/ SessionCompared(r)
    PROVE  Own'
<1>0. call[r] \in Calls /\ CallIsDated(r)
  BY DEF Own, OwnTypeOK, CallsAreDated
<1>1. CASE SessionCompares(r)
  <2> DEFINE locals == [call[r] EXCEPT !.hash = NoPassword]
  <2>1. locals \in Calls /\ "comparing" \in States
    BY <1>0 DEF Calls, Hashes, States
  <2>2. /\ call' = [call EXCEPT ![r] = locals] /\ call'[r] = locals
        /\ at' = [at EXCEPT ![r] = "comparing"] /\ at'[r] = "comparing" /\ at[r] = "read"
    BY <1>1 DEF SessionCompares, Step, Own, OwnTypeOK
  <2>3. locals.version = call[r].version /\ locals.generation = call[r].generation
        /\ locals.revision = call[r].revision /\ locals.policy = call[r].policy
        /\ locals.kind = call[r].kind
    BY <1>0 DEF Calls
  <2>4. Frame /\ UNCHANGED sessions
    BY <1>1 DEF SessionCompares, Frame, memory
  <2>5. CallIsDated(r)'
    BY <1>0, <2>2, <2>3, <2>4 DEF CallIsDated, HashIsCurrent, LevelIsCurrent, Frame, stored
  <2> QED
    BY <2>1, <2>2, <2>4, <2>5, MovedOwn
<1>2. ASSUME NEW valid \in BOOLEAN, SessionDecided(r, valid), at[r] \in {"read", "comparing"}
      PROVE  Own'
  <2>1. Frame /\ Answer(r, "idle")
    BY <1>2 DEF SessionDecided, Refuse, Frame
  <2>2. CASE UNCHANGED sessions
    BY <2>1, <2>2, AnsweredOwn
  <2>3. CASE createSession(call[r].version) /\ ~sessionChanged(r)
    <3>1. call[r].version = version \/ "password" \in mutation
      BY <1>0, <1>2, <2>3 DEF CallIsDated, HashIsCurrent, sessionChanged
    <3>2. call[r].version \in Nat
      BY <1>0 DEF Calls
    <3>3. UNCHANGED <<version, mutation>>
      BY <2>1 DEF Frame, stored
    <3>4. /\ sessions' \in Seq(Nat) /\ Len(sessions') <= MAX_SESSIONS
          /\ SessionsAreCurrent'
      BY <2>3, <3>1, <3>2, <3>3, CreatedSession DEF Own
    <3> QED
      BY <2>1, <3>4, Answered DEF Own, Frame
  <2> QED
    BY <1>2, <2>2, <2>3 DEF SessionDecided
<1> QED
  BY <1>1, <1>2 DEF SessionToken, SessionCompared

\* The right guess keeps what it was compared with.
LEMMA RightOwn ==
    ASSUME Own, Frame, UNCHANGED sessions, NEW r \in Requests, Right(r),
           at[r] \in {"read", "comparing"}
    PROVE  Own'
<1>0. call[r] \in Calls /\ CallIsDated(r)
  BY DEF Own, OwnTypeOK, CallsAreDated
<1> DEFINE locals == [call[r] EXCEPT !.revision = 0, !.level = "none", !.policy = 0]
<1>1. locals \in Calls /\ "rereading" \in States
  BY <1>0 DEF Calls, Levels, States
<1>2. /\ call' = [call EXCEPT ![r] = locals] /\ call'[r] = locals
      /\ at' = [at EXCEPT ![r] = "rereading"] /\ at'[r] = "rereading"
  BY DEF Right, Own, OwnTypeOK
<1>3. locals.version = call[r].version /\ locals.generation = call[r].generation
      /\ locals.revision = 0
  BY <1>0 DEF Calls
<1>4. CallIsDated(r)'
  BY <1>0, <1>2, <1>3 DEF CallIsDated, HashIsCurrent, Frame, stored, Own, OwnTypeOK
<1> QED
  BY <1>1, <1>2, <1>4, MovedOwn

\* A comparison that begins changes nothing of what was read.
LEMMA ComparesOwn ==
    ASSUME Own, Frame, UNCHANGED sessions, NEW r \in Requests, Step(r, "read", "comparing"),
           UNCHANGED call
    PROVE  Own'
<1>0. call[r] \in Calls /\ CallIsDated(r)
  BY DEF Own, OwnTypeOK, CallsAreDated
<1>1. /\ call' = [call EXCEPT ![r] = call[r]] /\ at' = [at EXCEPT ![r] = "comparing"]
      /\ at[r] = "read" /\ at'[r] = "comparing" /\ "comparing" \in States
  BY DEF Step, Own, OwnTypeOK, States
<1>2. CallIsDated(r)'
  BY <1>0, <1>1 DEF CallIsDated, HashIsCurrent, LevelIsCurrent, Frame, stored
<1> QED
  BY <1>0, <1>1, <1>2, MovedOwn

LEMMA GateOwn ==
    ASSUME Own, NEW r \in Requests,
           GateChanged(r) \/ GateUnconfigured(r) \/ GateCompares(r) \/ GateCompared(r)
    PROVE  Own'
<1>1. Frame /\ UNCHANGED sessions
  BY DEF GateChanged, GateUnconfigured, GateCompares, GateCompared, Frame, memory
<1>2. ASSUME Answer(r, "idle") \/ Answer(r, "operator") \/ Answer(r, "viewer") PROVE Own'
  BY <1>1, <1>2, AnsweredOwn
<1>3. ASSUME Fallback(r) PROVE Own'
  BY <1>2, <1>3 DEF Fallback, Refuse
<1>4. CASE GateChanged(r) \/ GateUnconfigured(r)
  BY <1>2, <1>4 DEF GateChanged, GateUnconfigured, Refuse
<1>5. CASE GateCompares(r)
  BY <1>1, <1>3, <1>5, ComparesOwn DEF GateCompares
<1>6. CASE GateCompared(r)
  BY <1>1, <1>2, <1>3, <1>6, RightOwn DEF GateCompared, Refuse
<1> QED
  BY <1>4, <1>5, <1>6

LEMMA ScrapeOwn ==
    ASSUME Own, NEW r \in Requests,
           \/ ScrapeChanged(r) \/ ScrapeUnconfigured(r) \/ ScrapeCompares(r)
           \/ ScrapeCompared(r) \/ Rechecked(r)
    PROVE  Own'
<1>1. Frame /\ UNCHANGED sessions
  BY DEF ScrapeChanged, ScrapeUnconfigured, ScrapeCompares, ScrapeCompared, Rechecked, Frame, memory
<1>2. ASSUME Answer(r, "idle") \/ Answer(r, "operator") PROVE Own'
  BY <1>1, <1>2, AnsweredOwn
<1>3. CASE ScrapeChanged(r) \/ Rechecked(r)
  BY <1>2, <1>3 DEF ScrapeChanged, Rechecked, Refuse
<1>4. CASE ScrapeUnconfigured(r)
  BY <1>1, <1>2, <1>4, RightOwn DEF ScrapeUnconfigured, AtScrape, Refuse
<1>5. CASE ScrapeCompares(r)
  BY <1>1, <1>2, <1>5, ComparesOwn DEF ScrapeCompares, Refuse
<1>6. CASE ScrapeCompared(r)
  BY <1>1, <1>2, <1>6, RightOwn DEF ScrapeCompared, Refuse
<1> QED
  BY <1>3, <1>4, <1>5, <1>6
-----------------------------------------------------------------------------
(* The administration, and what happens to the process.                    *)

LEMMA CommitOwn ==
    ASSUME Own, NEW hash \in Hashes, NEW level \in Levels,
           NEW revokes \in SUBSET {"password", "level"}, Commit(hash, level, revokes)
    PROVE  Own'
<1>1. /\ mutation = {} /\ mutation' = revokes
      /\ passwordHash' = hash /\ passwordLevel' = level
      /\ version' = (IF "password" \in revokes THEN version + 1 ELSE version)
      /\ policy' = (IF "level" \in revokes THEN policy + 1 ELSE policy)
      /\ UNCHANGED <<sessions, generation, policyRevision, at, call>>
  BY DEF Commit, memory
<1>2. OwnTypeOK'
  BY <1>1 DEF Own, OwnTypeOK
<1>3. SessionsAreCurrent'
  BY <1>1 DEF Own, SessionsAreCurrent
<1>4. ASSUME NEW r \in Requests PROVE CallIsDated(r)'
  <2>1. CallIsDated(r)
    BY DEF Own, CallsAreDated
  <2> QED
    BY <1>1, <2>1 DEF CallIsDated, HashIsCurrent, LevelIsCurrent
<1> QED
  BY <1>2, <1>3, <1>4 DEF Own, CallsAreDated

\* A revocation leaves the requests that captured the generation before behind it.
LEMMA RevokedOwn ==
    ASSUME Own, Revoked
    PROVE  Own'
<1>1. /\ mutation' = {}
      /\ policyRevision' = (IF "level" \in mutation THEN policyRevision + 1 ELSE policyRevision)
      /\ UNCHANGED <<passwordHash, passwordLevel, version, policy, at, call>>
  BY DEF Revoked, stored
<1>2. /\ "password" \in mutation => sessions' = <<>> /\ generation' = generation + 1
      /\ "password" \notin mutation => UNCHANGED <<sessions, generation>>
  BY DEF Revoked
<1>3. OwnTypeOK'
  <2>0. <<>> \in Seq(Nat) /\ Len(<<>>) = 0
    BY EmptySeq
  <2>1. sessions' \in Seq(Nat) /\ Len(sessions') <= MAX_SESSIONS /\ generation' \in Nat
    <3>1. CASE "password" \in mutation
      BY <1>2, <2>0, <3>1 DEF Own, OwnTypeOK
    <3>2. CASE "password" \notin mutation
      BY <1>2, <3>2 DEF Own, OwnTypeOK
    <3> QED
      BY <3>1, <3>2
  <2>2. policyRevision' \in Nat
    BY <1>1 DEF Own, OwnTypeOK
  <2> QED
    BY <1>1, <2>1, <2>2 DEF Own, OwnTypeOK
<1>4. SessionsAreCurrent'
  BY <1>1, <1>2 DEF Own, SessionsAreCurrent
<1>5. ASSUME NEW r \in Requests PROVE CallIsDated(r)'
  <2>1. CallIsDated(r) /\ call[r].generation \in Nat /\ call[r].revision \in Nat
    BY DEF Own, CallsAreDated, OwnTypeOK, Calls
  <2>2. generation \in Nat /\ policyRevision \in Nat
    BY DEF Own, OwnTypeOK
  <2> QED
    BY <1>1, <1>2, <2>1, <2>2 DEF CallIsDated, HashIsCurrent, LevelIsCurrent
<1> QED
  BY <1>3, <1>4, <1>5 DEF Own, CallsAreDated

\* One session ends, wherever it stands.
LEMMA SessionEndsOwn ==
    ASSUME Own, SessionEnds
    PROVE  Own'
<1>1. PICK i \in DOMAIN sessions :
        sessions' = SubSeq(sessions, 1, i - 1) \o SubSeq(sessions, i + 1, Len(sessions))
  BY DEF SessionEnds
<1> DEFINE before == SubSeq(sessions, 1, i - 1)
           after == SubSeq(sessions, i + 1, Len(sessions))
           Current == {v \in Nat : v = version \/ "password" \in mutation}
<1>2. /\ sessions \in Seq(Nat) /\ i \in 1..Len(sessions) /\ Len(sessions) \in Nat
      /\ Len(sessions) <= MAX_SESSIONS
  BY <1>1 DEF Own, OwnTypeOK
<1>3. \A j \in 1..Len(sessions) : sessions[j] \in Current
  BY <1>2 DEF Own, SessionsAreCurrent
<1> HIDE DEF Current
<1>4. before \in Seq(Current) /\ Len(before) <= i - 1 /\ Len(before) \in Nat
  <2>1. 1 \in Int /\ i - 1 \in Int /\ \A j \in 1..(i - 1) : sessions[j] \in Current
    BY <1>2, <1>3
  <2>2. before \in Seq(Current) /\ Len(before) = IF 1 <= i - 1 THEN (i - 1) - 1 + 1 ELSE 0
    BY <2>1, SubSeqProperties
  <2> QED
    BY <1>2, <2>2
<1>5. after \in Seq(Current) /\ Len(after) <= Len(sessions) - i /\ Len(after) \in Nat
  <2>1. i + 1 \in Int /\ Len(sessions) \in Int /\ \A j \in (i + 1)..Len(sessions) : sessions[j] \in Current
    BY <1>2, <1>3
  <2>2. after \in Seq(Current)
        /\ Len(after) = IF i + 1 <= Len(sessions) THEN Len(sessions) - (i + 1) + 1 ELSE 0
    BY <2>1, SubSeqProperties
  <2> QED
    BY <1>2, <2>2
<1>6. sessions' = before \o after
  BY <1>1
<1> HIDE DEF before, after
<1>7. sessions' \in Seq(Current) /\ Len(sessions') <= MAX_SESSIONS
  <2>1. before \o after \in Seq(Current) /\ Len(before \o after) = Len(before) + Len(after)
    BY <1>4, <1>5, ConcatProperties
  <2> QED
    BY <1>2, <1>4, <1>5, <1>6, <2>1
<1>8. /\ UNCHANGED <<passwordHash, passwordLevel, version, policy>>
      /\ UNCHANGED <<generation, policyRevision, mutation, at, call>>
  BY DEF SessionEnds, stored
<1>9. OwnTypeOK'
  <2>1. sessions' \in Seq(Nat)
    BY <1>7 DEF Current
  <2> QED
    BY <1>7, <1>8, <2>1 DEF Own, OwnTypeOK
<1>10. SessionsAreCurrent'
  <2>1. \A j \in DOMAIN sessions' : sessions'[j] \in Current
    BY <1>7
  <2> QED
    BY <1>8, <2>1 DEF SessionsAreCurrent, Current
<1>11. CallsAreDated'
  BY <1>8 DEF Own, CallsAreDated, CallIsDated, HashIsCurrent, LevelIsCurrent
<1> QED
  BY <1>9, <1>10, <1>11 DEF Own

LEMMA OutsideOwn ==
    ASSUME Own, PasswordCleared \/ TimePasses \/ UNCHANGED vars
    PROVE  Own'
<1>1. /\ UNCHANGED <<passwordLevel, version, policy, sessions, generation, policyRevision>>
      /\ UNCHANGED <<mutation, at, call>>
      /\ passwordHash' \in Hashes
  BY DEF PasswordCleared, TimePasses, vars, memory, stored, Hashes, Own, OwnTypeOK
<1>2. OwnTypeOK'
  BY <1>1 DEF Own, OwnTypeOK
<1>3. SessionsAreCurrent'
  BY <1>1 DEF Own, SessionsAreCurrent
<1>4. CallsAreDated'
  BY <1>1 DEF Own, CallsAreDated, CallIsDated, HashIsCurrent, LevelIsCurrent
<1> QED
  BY <1>2, <1>3, <1>4 DEF Own

LEMMA FreshOwn ==
    ASSUME OwnTypeOK, Restart
    PROVE  Own'
<1>1. /\ sessions' = <<>> /\ generation' = 0 /\ policyRevision' = 0 /\ mutation' = {}
      /\ at' = [r \in Requests |-> "idle"] /\ call' = [r \in Requests |-> Blank]
      /\ version' = 0 /\ policy' = 0
      /\ UNCHANGED <<passwordHash, passwordLevel>>
  BY DEF Restart
<1>2. OwnTypeOK'
  BY <1>1, BlankType DEF OwnTypeOK, States
<1>3. SessionsAreCurrent'
  BY <1>1 DEF SessionsAreCurrent
<1>4. CallsAreDated'
  BY <1>1 DEF CallsAreDated, CallIsDated, Blank
<1> QED
  BY <1>2, <1>3, <1>4 DEF Own

LEMMA InitOwn == Init => Own
<1> SUFFICES ASSUME Init PROVE Own
  OBVIOUS
<1>1. OwnTypeOK
  BY BlankType DEF Init, OwnTypeOK, States
<1>2. SessionsAreCurrent
  BY DEF Init, SessionsAreCurrent
<1>3. CallsAreDated
  BY DEF Init, CallsAreDated, CallIsDated, Blank
<1> QED
  BY <1>1, <1>2, <1>3 DEF Own

LEMMA NextOwn == Own /\ [Next]_vars => Own'
<1> SUFFICES ASSUME Own, [Next]_vars PROVE Own'
  OBVIOUS
<1>1. ASSUME NEW r \in Requests,
             SessionArrives(r) \/ SessionHonoured(r) \/ (\E k \in Kinds : GateArrives(r, k))
      PROVE  Own'
  BY <1>1, ArrivalsOwn
<1>2. ASSUME NEW r \in Requests,
             HashAnswered(r) \/ LevelAnswered(r) \/ HashReread(r) \/ ReadRefused(r)
      PROVE  Own'
  BY <1>2, ReadsOwn
<1>3. ASSUME NEW r \in Requests, SessionToken(r) \/ SessionCompares(r) \/ SessionCompared(r)
      PROVE  Own'
  BY <1>3, SessionOwn
<1>4. ASSUME NEW r \in Requests,
             GateChanged(r) \/ GateUnconfigured(r) \/ GateCompares(r) \/ GateCompared(r)
      PROVE  Own'
  BY <1>4, GateOwn
<1>5. ASSUME NEW r \in Requests,
             \/ ScrapeChanged(r) \/ ScrapeUnconfigured(r) \/ ScrapeCompares(r)
             \/ ScrapeCompared(r) \/ Rechecked(r)
      PROVE  Own'
  BY <1>5, ScrapeOwn
<1>6. CASE ValueWritten \/ ImportCommitted \/ ResetCommitted
  <2>1. \A h \in Hashes, l \in Levels, s \in SUBSET {"password", "level"} :
          Commit(h, l, s) => Own'
    BY CommitOwn
  <2>2. passwordHash \in Hashes /\ passwordLevel \in Levels /\ NoPassword \in Hashes
        /\ "none" \in Levels
    BY DEF Own, OwnTypeOK, Hashes, Levels
  <2>3. /\ {"password"} \in SUBSET {"password", "level"} /\ {"level"} \in SUBSET {"password", "level"}
        /\ {"password", "level"} \in SUBSET {"password", "level"}
    OBVIOUS
  <2> QED
    BY <1>6, <2>1, <2>2, <2>3 DEF ValueWritten, ImportCommitted, ResetCommitted
<1>7. CASE Revoked \/ SessionEnds
  BY <1>7, RevokedOwn, SessionEndsOwn
<1>8. CASE PasswordCleared \/ TimePasses \/ UNCHANGED vars
  BY <1>8, OutsideOwn
<1>9. CASE Restart
  BY <1>9, FreshOwn DEF Own
<1> QED
  BY <1>1, <1>2, <1>3, <1>4, <1>5, <1>6, <1>7, <1>8, <1>9 DEF Next
\* The three ways in use the throttle as its own module specifies it, so what is
\* proved of AttemptThrottle holds of them.
THEOREM UsesTheThrottle == Spec => ThrottleSpec
<1>1. Init => ThrottleInit
  BY DEF Init
<1>2. ThrottleInit => IInv
  BY InitIInv
<1>3. IInv /\ [ThrottleNext]_throttleVars => IInv'
  BY NextIInv
<1>4. IInv /\ [Next]_vars => [ThrottleNext]_throttleVars
  BY ThrottleStep
<1> QED
  BY <1>1, <1>2, <1>3, <1>4, PTL DEF Spec, ThrottleSpec

\* However the three ways in are mixed, beside restarts and changes of the password,
\* a client that lost no running comparison has no more guesses than its budget, and
\* every reservation is of a comparison that is running.
THEOREM GuessesAreCounted == Spec => [](BudgetHeld /\ ReservationsAreOwned)
BY UsesTheThrottle, BudgetIsHeld, ReservationsOwned, PTL

LEMMA Invariants == Spec => [](Own /\ IInv)
<1>1. Init => Own /\ IInv
  BY InitOwn, InitIInv DEF Init
<1>2. Own /\ IInv /\ [Next]_vars => Own' /\ IInv'
  BY NextOwn, NextIInv, ThrottleStep
<1> QED
  BY <1>1, <1>2, PTL DEF Spec

\* The types of all that the three ways in keep, read and share.
THEOREM TypeCorrect == Spec => []TypeOK
<1>1. Own /\ IInv => TypeOK
  BY TypeOKParts DEF Own, IInv
<1> QED
  BY <1>1, Invariants, PTL

\* No session outlives the password it was issued against (createSession after the
\* generation check, destroyAllSessions after the commit), for any number of
\* requests, changes and restored hashes.
THEOREM SessionsCurrent == Spec => []SessionsAreCurrent
<1>1. Own => SessionsAreCurrent
  BY DEF Own
<1> QED
  BY <1>1, Invariants, PTL

\* Only the request that takes a step can be let in by it.
LEMMA Admits ==
    ASSUME Own, NEW r \in Requests, NEW to \in States, at' = [at EXCEPT ![r] = to]
    PROVE  /\ at'[r] = to
           /\ \A s \in Requests : s # r => at'[s] = at[s]
BY DEF Own, OwnTypeOK

AdmittedCurrently(r) ==
    /\ ~Idle(r) /\ at'[r] \in {"operator", "viewer"} => HashIsCurrent(r)
    /\ ~Idle(r) /\ at'[r] = "viewer" => LevelIsCurrent(r)

\* The gate lets in at "read" or after the comparison, under the policy it read.
LEMMA GateAdmits ==
    ASSUME Own, NEW r \in Requests, at[r] \in {"read", "comparing"}, call[r].kind = "gate",
           NEW outcome \in {"idle", "operator", "viewer"}, Answer(r, outcome),
           outcome = "idle" \/ ~authenticationChanged(r)
    PROVE  \A s \in Requests : AdmittedCurrently(s)
<1>1. at' = [at EXCEPT ![r] = outcome] /\ outcome \in States
  BY DEF Answer, States
<1>2. CallIsDated(r)
  BY DEF Own, CallsAreDated
<1>3. outcome # "idle" => HashIsCurrent(r) /\ LevelIsCurrent(r)
  BY <1>2 DEF CallIsDated, authenticationChanged, sessionChanged
<1> QED
  BY <1>1, <1>3, Admits DEF AdmittedCurrently, Idle

\* The other two look at the generation alone, and let in the operator.
LEMMA OthersAdmit ==
    ASSUME Own, NEW r \in Requests, at[r] \in {"read", "comparing", "reread", "differs"},
           NEW outcome \in {"idle", "operator"}, Answer(r, outcome),
           outcome = "idle" \/ ~sessionChanged(r)
    PROVE  \A s \in Requests : AdmittedCurrently(s)
<1>1. at' = [at EXCEPT ![r] = outcome] /\ outcome \in States
  BY DEF Answer, States
<1>2. CallIsDated(r)
  BY DEF Own, CallsAreDated
<1>3. outcome # "idle" => HashIsCurrent(r)
  BY <1>2 DEF CallIsDated, sessionChanged
<1> QED
  BY <1>1, <1>3, Admits DEF AdmittedCurrently, Idle

\* A step that lets nobody in.
LEMMA NobodyAdmitted ==
    ASSUME Own, NEW r \in Requests, NEW to \in States, at' = [at EXCEPT ![r] = to],
           to \notin {"operator", "viewer"} \/ Idle(r)
    PROVE  \A s \in Requests : AdmittedCurrently(s)
BY Admits DEF AdmittedCurrently, Idle

LEMMA AdmissionStep == Own /\ [Next]_vars => \A s \in Requests : AdmittedCurrently(s)
<1> SUFFICES ASSUME Own, [Next]_vars PROVE \A s \in Requests : AdmittedCurrently(s)
  OBVIOUS
<1> DEFINE Goal == \A s \in Requests : AdmittedCurrently(s)
<1>1. ASSUME at' = at PROVE Goal
  BY <1>1 DEF AdmittedCurrently, Idle
<1>2. ASSUME NEW r \in Requests, Refuse(r) PROVE Goal
  BY <1>2, NobodyAdmitted DEF Refuse, Answer, States
<1>3. ASSUME NEW r \in Requests,
             \/ SessionArrives(r) \/ SessionHonoured(r)
             \/ \E k \in Kinds : GateArrives(r, k)
      PROVE  Goal
  <2>1. /\ Idle(r)
        /\ \E to \in States : at' = [at EXCEPT ![r] = to]
    BY <1>3 DEF SessionArrives, SessionHonoured, GateArrives, Refuse, Answer, States
  <2> QED
    BY <2>1, NobodyAdmitted
<1>4. ASSUME NEW r \in Requests,
             HashAnswered(r) \/ LevelAnswered(r) \/ HashReread(r) \/ SessionCompares(r) \/ Right(r)
      PROVE  Goal
  <2>1. \E to \in States \ {"operator", "viewer"} : at' = [at EXCEPT ![r] = to]
    BY <1>4 DEF HashAnswered, LevelAnswered, HashReread, SessionCompares, Right, Step, States
  <2> QED
    BY <2>1, NobodyAdmitted
<1>5. ASSUME NEW r \in Requests, Step(r, "read", "comparing") PROVE Goal
  BY <1>5, NobodyAdmitted DEF Step, States
<1>6. ASSUME NEW r \in Requests,
             \/ ReadRefused(r) \/ SessionToken(r) \/ SessionCompared(r)
             \/ GateChanged(r) \/ ScrapeChanged(r)
      PROVE  Goal
  BY <1>2, <1>6 DEF ReadRefused, SessionToken, SessionCompared, SessionDecided, GateChanged, ScrapeChanged
<1>7. ASSUME NEW r \in Requests, at[r] \in {"read", "comparing"}, call[r].kind = "gate", Fallback(r)
      PROVE  Goal
  BY <1>2, <1>7, GateAdmits DEF Fallback
<1>8. ASSUME NEW r \in Requests, GateUnconfigured(r) PROVE Goal
  BY <1>2, <1>8, GateAdmits DEF GateUnconfigured, AtGate
<1>9. ASSUME NEW r \in Requests, GateCompares(r) \/ GateCompared(r) PROVE Goal
  BY <1>2, <1>4, <1>5, <1>7, <1>9 DEF GateCompares, GateCompared, AtGate
<1>10. ASSUME NEW r \in Requests, ScrapeUnconfigured(r) PROVE Goal
  BY <1>2, <1>4, <1>10, OthersAdmit DEF ScrapeUnconfigured, AtScrape
<1>11. ASSUME NEW r \in Requests, ScrapeCompares(r) \/ ScrapeCompared(r) PROVE Goal
  BY <1>2, <1>4, <1>5, <1>11 DEF ScrapeCompares, ScrapeCompared
<1>12. ASSUME NEW r \in Requests, Rechecked(r) PROVE Goal
  BY <1>2, <1>12, OthersAdmit DEF Rechecked
<1>13. CASE \/ ValueWritten \/ ImportCommitted \/ ResetCommitted \/ Revoked \/ SessionEnds
            \/ PasswordCleared \/ TimePasses \/ UNCHANGED vars
  BY <1>1, <1>13 DEF ValueWritten, ImportCommitted, ResetCommitted, Commit, Revoked, SessionEnds,
     PasswordCleared, TimePasses, vars
<1>14. CASE Restart
  BY <1>14 DEF Restart, AdmittedCurrently
<1> QED
  BY <1>3, <1>4, <1>6, <1>8, <1>9, <1>10, <1>11, <1>12, <1>13, <1>14 DEF Next

\* Whoever is let in has shown the password, and as a viewer was offered the policy,
\* that is in force - whichever of the three ways in, and whatever else is going on.
THEOREM AdmissionCurrent == Spec => AdmissionIsCurrent
<1> DEFINE LetIn == \A r \in Requests :
         /\ ~Idle(r) /\ at'[r] \in {"operator", "viewer"} =>
              call[r].version = version \/ "password" \in mutation
         /\ ~Idle(r) /\ at'[r] = "viewer" =>
              call[r].policy = policy \/ "level" \in mutation
<1>1. Own /\ IInv /\ [Next]_vars => [LetIn]_vars
  BY AdmissionStep DEF AdmittedCurrently, HashIsCurrent, LevelIsCurrent
<1> QED
  BY <1>1, Invariants, PTL DEF Spec, AdmissionIsCurrent
=============================================================================
