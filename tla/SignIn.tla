------------------------------- MODULE SignIn --------------------------------
(***************************************************************************)
(* Who is let in, and with which password. Three ways in - POST            *)
(* /api/session, the gate of middlewares/password.js in front of every     *)
(* route, and the metrics scrape - read the stored password, compare and   *)
(* admit across awaits, while an update, a restored backup or a factory    *)
(* reset replaces the password or its level, and then revokes              *)
(* (util/session.js, util/authPolicy.js).                                  *)
(*                                                                         *)
(* at[r] is the await request r is suspended at, call[r] its locals. A     *)
(* read is answered by the database in one step and resumed in another.    *)
(* version counts the passwords the administration has put in place since  *)
(* the process started, and policy the levels: ghosts, so that a password  *)
(* restored to the same hash is still another one. One mutation runs at a  *)
(* time (mutateAdminEntities).                                             *)
(***************************************************************************)
EXTENDS AttemptThrottle, Sequences

CONSTANTS Passwords, NoPassword,  \* stored hashes, one name per password; the "none" sentinel
          MAX_SESSIONS,
          MaxChanges,             \* bound: commits of a password or a level
          MaxLate                 \* bound: windows and deadlines that are over at once

ASSUME SignInAssumption ==
    /\ NoPassword \notin Passwords
    /\ MAX_SESSIONS \in Nat \ {0}
    /\ MaxChanges \in Nat /\ MaxLate \in Nat

Hashes == Passwords \cup {NoPassword}
Levels == {"none", "read"}          \* passwordLevel: what a caller without the password may do
Kinds == {"session", "gate", "scrape"}

VARIABLES
    passwordHash, passwordLevel,  \* the config table
    sessions,                     \* oldest first: the version each was issued against
    generation, policyRevision,   \* util/session.js, util/authPolicy.js
    mutation,                     \* what a committed mutation has yet to revoke
    at, call,                     \* the requests
    version, policy               \* ghosts

stored == <<passwordHash, passwordLevel, version, policy>>
memory == <<sessions, generation, policyRevision>>
vars == <<throttleVars, stored, memory, mutation, at, call>>

Blank == [kind |-> "gate", generation |-> 0, revision |-> 0, hash |-> NoPassword,
          version |-> 0, level |-> "none", policy |-> 0]

Init ==
    /\ ThrottleInit
    /\ passwordHash \in Hashes /\ passwordLevel \in Levels
    /\ sessions = <<>> /\ generation = 0 /\ policyRevision = 0
    /\ mutation = {}
    /\ at = [r \in Requests |-> "idle"] /\ call = [r \in Requests |-> Blank]
    /\ version = 0 /\ policy = 0

Idle(r) == at[r] \in {"idle", "operator", "viewer"}    \* and then its locals are gone
Step(r, from, to) == at[r] = from /\ at' = [at EXCEPT ![r] = to]

\* The request is answered: let in as the operator or as a viewer, or turned away.
Answer(r, outcome) ==
    /\ at' = [at EXCEPT ![r] = outcome]
    /\ call' = [call EXCEPT ![r] = Blank]
Refuse(r) == Answer(r, "idle")

\* The right guess of the gate or the scrape: the hash is read again, and of its
\* locals only what that is compared with matters from here.
Right(r) ==
    /\ at' = [at EXCEPT ![r] = "rereading"]
    /\ call' = [call EXCEPT ![r].revision = 0, ![r].level = "none", ![r].policy = 0]

sessionChanged(r) == call[r].generation # generation
authenticationChanged(r) == sessionChanged(r) \/ call[r].revision # policyRevision

-----------------------------------------------------------------------------
(* Arrivals: each captures its counters before its first await.            *)

Captured(r, k) ==
    call' = [call EXCEPT ![r] = [Blank EXCEPT !.kind = k, !.generation = generation,
                                   !.revision = IF k = "gate" THEN policyRevision ELSE 0]]

\* POST /api/session reserves its one guess before anything else.
SessionArrives(r) ==
    /\ Idle(r)
    /\ \/ LockedOut(r) /\ Refuse(r)
       \/ Busy(r, 1) /\ Refuse(r)
       \/ Reserve(r, 1) /\ at' = [at EXCEPT ![r] = "reading"] /\ Captured(r, "session")
    /\ UNCHANGED <<stored, memory, mutation>>

GateArrives(r, k) ==
    /\ Idle(r) /\ k \in {"gate", "scrape"}
    /\ at' = [at EXCEPT ![r] = "reading"] /\ Captured(r, k)
    /\ UNCHANGED <<throttleVars, stored, memory, mutation>>

\* A live session is let in at once.
SessionHonoured(r) ==
    /\ Idle(r) /\ sessions # <<>> /\ Answer(r, "operator")
    /\ UNCHANGED <<throttleVars, stored, memory, mutation>>

-----------------------------------------------------------------------------
(* The reads.                                                              *)

\* The gate goes on to read the level, the other two have what they need.
HashAnswered(r) ==
    /\ Step(r, "reading", IF call[r].kind = "gate" THEN "hashed" ELSE "read")
    /\ call' = [call EXCEPT ![r].hash = passwordHash, ![r].version = version]
    /\ UNCHANGED <<throttleVars, stored, memory, mutation>>

LevelAnswered(r) ==
    /\ Step(r, "hashed", "read")
    /\ call' = [call EXCEPT ![r].level = passwordLevel, ![r].policy = policy]
    /\ UNCHANGED <<throttleVars, stored, memory, mutation>>

\* The second look at the hash, after a guess came back right: it must be the
\* one that was compared. The comparison of the two is a local's by then.
HashReread(r) ==
    /\ \/ passwordHash = call[r].hash /\ Step(r, "rereading", "reread")
       \/ passwordHash # call[r].hash /\ Step(r, "rereading", "differs")
    /\ call' = [call EXCEPT ![r].hash = NoPassword]
    /\ UNCHANGED <<throttleVars, stored, memory, mutation>>

\* A read the database refuses fails the request; a session's reservation is
\* released in its finally, and nothing is charged.
ReadRefused(r) ==
    /\ at[r] \in {"reading", "hashed", "rereading"}
    /\ IF ticket[r] > 0 THEN Settle(r, 0, FALSE) ELSE UNCHANGED throttleVars
    /\ Refuse(r)
    /\ UNCHANGED <<stored, memory, mutation>>

-----------------------------------------------------------------------------
(* POST /api/session, after its read: the setup token is compared there    *)
(* and then, a password across an await.                                   *)

\* Mutant: the map grows with every sign-in.
createSessionUnbounded(v) == sessions' = Append(sessions, v)

createSession(v) ==
    sessions' = Append(IF Len(sessions) >= MAX_SESSIONS THEN Tail(sessions) ELSE sessions, v)

\* Mutant: the session is issued without a look at the generation.
SessionDecidedUnchecked(r, valid) ==
    /\ IF valid THEN createSession(call[r].version) /\ Settle(r, 0, TRUE)
       ELSE UNCHANGED sessions /\ Settle(r, ticket[r], FALSE)
    /\ Refuse(r)
    /\ UNCHANGED <<stored, generation, policyRevision, mutation>>

\* A right guess is a session if nothing was revoked since the request came in.
SessionDecided(r, valid) ==
    /\ IF valid /\ ~sessionChanged(r)
       THEN createSession(call[r].version) /\ Settle(r, 0, TRUE)
       ELSE UNCHANGED sessions /\ Settle(r, IF valid THEN 0 ELSE ticket[r], FALSE)
    /\ Refuse(r)
    /\ UNCHANGED <<stored, generation, policyRevision, mutation>>

SessionToken(r) ==
    /\ at[r] = "read" /\ call[r].kind = "session" /\ call[r].hash = NoPassword
    /\ \E valid \in BOOLEAN : SessionDecided(r, valid)

SessionCompares(r) ==
    /\ call[r].kind = "session" /\ call[r].hash # NoPassword
    /\ Step(r, "read", "comparing")
    /\ call' = [call EXCEPT ![r].hash = NoPassword]
    /\ UNCHANGED <<throttleVars, stored, memory, mutation>>

SessionCompared(r) ==
    /\ at[r] = "comparing" /\ call[r].kind = "session"
    /\ \E valid \in BOOLEAN : SessionDecided(r, valid)

-----------------------------------------------------------------------------
(* The gate: with both reads in hand the policy must be the one they were  *)
(* made under.                                                             *)

AtGate(r) == at[r] = "read" /\ call[r].kind = "gate"

GateChanged(r) ==
    /\ AtGate(r) /\ authenticationChanged(r) /\ Refuse(r)
    /\ UNCHANGED <<throttleVars, stored, memory, mutation>>

\* handleUnconfigured, in one stretch: a caller who is allowed in without a
\* password needs nothing, another one the setup token.
GateUnconfigured(r) ==
    /\ AtGate(r) /\ ~authenticationChanged(r) /\ call[r].hash = NoPassword
    /\ \/ Answer(r, "operator") /\ UNCHANGED throttleVars   \* allowsPasswordlessAccess
       \/ Refuse(r) /\ UNCHANGED throttleVars               \* no guess at all
       \/ \E n \in 1..MaxCandidates :
            \/ LockedOut(r) /\ Refuse(r)
            \/ Busy(r, n) /\ Refuse(r)
            \/ ReserveAndSettle(r, n, 0, TRUE) /\ Answer(r, "operator")
            \/ ReserveAndSettle(r, n, n, FALSE) /\ Refuse(r)
    /\ UNCHANGED <<stored, memory, mutation>>

\* What is left for a caller whose password did not match, or was not compared:
\* read access, if the policy still is the one that was read.
Fallback(r) ==
    IF ~authenticationChanged(r) /\ call[r].level = "read"
    THEN Answer(r, "viewer") \/ Refuse(r)     \* allowViewAccess of the route
    ELSE Refuse(r)

GateCompares(r) ==
    /\ AtGate(r) /\ ~authenticationChanged(r) /\ call[r].hash # NoPassword
    /\ \/ Fallback(r) /\ UNCHANGED throttleVars              \* no guess at all
       \/ \E n \in 1..MaxCandidates :
            \/ LockedOut(r) /\ Fallback(r)
            \/ Busy(r, n) /\ Fallback(r)
            \/ Reserve(r, n) /\ Step(r, "read", "comparing") /\ UNCHANGED call
    /\ UNCHANGED <<stored, memory, mutation>>

\* One of the candidates matched, none did, or bcrypt threw.
GateCompared(r) ==
    /\ at[r] = "comparing" /\ call[r].kind = "gate"
    /\ \/ Settle(r, 0, FALSE) /\ Right(r)
       \/ Settle(r, ticket[r], FALSE) /\ Fallback(r)
       \/ Settle(r, 0, FALSE) /\ Refuse(r)
    /\ UNCHANGED <<stored, memory, mutation>>

-----------------------------------------------------------------------------
(* The metrics scrape: authorizeMetrics.                                   *)

AtScrape(r) == at[r] = "read" /\ call[r].kind = "scrape"

ScrapeChanged(r) ==
    /\ AtScrape(r) /\ sessionChanged(r) /\ Refuse(r)
    /\ UNCHANGED <<throttleVars, stored, memory, mutation>>

ScrapeUnconfigured(r) ==
    /\ AtScrape(r) /\ ~sessionChanged(r) /\ call[r].hash = NoPassword
    /\ \/ Answer(r, "operator") /\ UNCHANGED throttleVars
       \/ Refuse(r) /\ UNCHANGED throttleVars
       \/ LockedOut(r) /\ Refuse(r)
       \/ Busy(r, 1) /\ Refuse(r)
       \/ ReserveAndSettle(r, 1, 0, FALSE) /\ Right(r)
       \/ ReserveAndSettle(r, 1, 1, FALSE) /\ Refuse(r)
    /\ UNCHANGED <<stored, memory, mutation>>

ScrapeCompares(r) ==
    /\ AtScrape(r) /\ ~sessionChanged(r) /\ call[r].hash # NoPassword
    /\ \/ Refuse(r) /\ UNCHANGED throttleVars
       \/ LockedOut(r) /\ Refuse(r)
       \/ Busy(r, 1) /\ Refuse(r)
       \/ Reserve(r, 1) /\ Step(r, "read", "comparing") /\ UNCHANGED call
    /\ UNCHANGED <<stored, memory, mutation>>

ScrapeCompared(r) ==
    /\ at[r] = "comparing" /\ call[r].kind = "scrape"
    /\ \/ Settle(r, 0, FALSE) /\ Right(r)
       \/ Settle(r, ticket[r], FALSE) /\ Refuse(r)
       \/ Settle(r, 0, FALSE) /\ Refuse(r)
    /\ UNCHANGED <<stored, memory, mutation>>

\* Mutant: the hash read again is all the guard there is.
RecheckedByHash(r) ==
    /\ at[r] \in {"reread", "differs"}
    /\ IF at[r] = "reread" THEN Forgive(r) /\ Answer(r, "operator")
       ELSE UNCHANGED throttleVars /\ Refuse(r)
    /\ UNCHANGED <<stored, memory, mutation>>

\* The last guard of the gate and of the scrape, and no await after it.
Rechecked(r) ==
    /\ at[r] \in {"reread", "differs"}
    /\ IF at[r] = "reread" /\ ~sessionChanged(r)
       THEN Forgive(r) /\ Answer(r, "operator")
       ELSE UNCHANGED throttleVars /\ Refuse(r)
    /\ UNCHANGED <<stored, memory, mutation>>

-----------------------------------------------------------------------------
(* What the administration does. The commit and the revocation are two     *)
(* steps: the answer of the database lies between them.                    *)

Commit(hash, level, revokes) ==
    /\ mutation = {} /\ version + policy < MaxChanges
    /\ passwordHash' = hash /\ passwordLevel' = level
    /\ version' = IF "password" \in revokes THEN version + 1 ELSE version
    /\ policy' = IF "level" \in revokes THEN policy + 1 ELSE policy
    /\ mutation' = revokes
    /\ UNCHANGED <<throttleVars, memory, at, call>>

\* updateValue of one of the two keys.
ValueWritten ==
    \/ \E h \in Hashes : Commit(h, passwordLevel, {"password"})
    \/ \E l \in Levels : Commit(passwordHash, l, {"level"})

\* A backup carries the hash verbatim, or none when it was exported redacted.
ImportCommitted ==
    \E h \in Hashes, l \in Levels : Commit(h, l, {"password", "level"})

ResetCommitted == Commit(NoPassword, "none", {"password", "level"})

\* destroyAllSessions and advanceAuthPolicy, in the stretch after the commit.
Revoked ==
    /\ mutation # {}
    /\ IF "password" \in mutation
       THEN sessions' = <<>> /\ generation' = generation + 1
       ELSE UNCHANGED <<sessions, generation>>
    /\ policyRevision' = IF "level" \in mutation THEN policyRevision + 1 ELSE policyRevision
    /\ mutation' = {}
    /\ UNCHANGED <<throttleVars, stored, at, call>>

\* DELETE /api/session, the end of a session's seven days, or the oldest going.
SessionEnds ==
    /\ \E i \in DOMAIN sessions :
         sessions' = SubSeq(sessions, 1, i - 1) \o SubSeq(sessions, i + 1, Len(sessions))
    /\ UNCHANGED <<throttleVars, stored, generation, policyRevision, mutation, at, call>>

\* util/resetPassword.js runs in another process: it clears the password and
\* revokes nothing - "they stay valid until they expire or the server is
\* restarted" - so it is no new version here.
PasswordCleared ==
    /\ passwordHash # NoPassword /\ passwordHash' = NoPassword
    /\ UNCHANGED <<throttleVars, passwordLevel, version, policy, memory, mutation, at, call>>

\* The table stays, all else lives in memory; the ghosts count from here again.
Restart ==
    /\ ThrottleForgotten
    /\ sessions' = <<>> /\ generation' = 0 /\ policyRevision' = 0
    /\ mutation' = {}
    /\ at' = [r \in Requests |-> "idle"] /\ call' = [r \in Requests |-> Blank]
    /\ version' = 0 /\ policy' = 0
    /\ UNCHANGED <<passwordHash, passwordLevel>>

TimePasses ==
    /\ Cardinality(windowOver) + Cardinality(stale) + Cardinality(overrun) < MaxLate
    /\ (\E c \in Clients : WindowEnds(c)) \/ (\E r \in Requests : DeadlinePasses(r))
    /\ UNCHANGED <<stored, memory, mutation, at, call>>

Next ==
    \/ \E r \in Requests :
         \/ SessionArrives(r) \/ SessionHonoured(r)
         \/ \E k \in Kinds : GateArrives(r, k)
         \/ HashAnswered(r) \/ LevelAnswered(r) \/ HashReread(r) \/ ReadRefused(r)
         \/ SessionToken(r) \/ SessionCompares(r) \/ SessionCompared(r)
         \/ GateChanged(r) \/ GateUnconfigured(r) \/ GateCompares(r) \/ GateCompared(r)
         \/ ScrapeChanged(r) \/ ScrapeUnconfigured(r) \/ ScrapeCompares(r) \/ ScrapeCompared(r)
         \/ Rechecked(r)
    \/ ValueWritten \/ ImportCommitted \/ ResetCommitted \/ Revoked
    \/ SessionEnds \/ PasswordCleared \/ Restart \/ TimePasses

Spec == Init /\ [][Next]_vars

-----------------------------------------------------------------------------
TypeOK ==
    /\ ThrottleTypeOK
    /\ passwordHash \in Hashes /\ passwordLevel \in Levels
    /\ sessions \in Seq(Nat) /\ Len(sessions) <= MAX_SESSIONS
    /\ generation \in Nat /\ policyRevision \in Nat
    /\ mutation \subseteq {"password", "level"}
    /\ at \in [Requests -> {"idle", "operator", "viewer", "reading", "hashed", "read",
                            "comparing", "rereading", "reread", "differs"}]
    /\ call \in [Requests -> [kind : Kinds, generation : Nat, revision : Nat, hash : Hashes,
                              version : Nat, level : Levels, policy : Nat]]
    /\ version \in Nat /\ policy \in Nat

\* Taking the password back takes back every session issued against it: once a
\* change of the password has revoked, none is left - and none is issued later
\* by a request that was still comparing with the password before.
SessionsAreCurrent ==
    \A s \in DOMAIN sessions : sessions[s] = version \/ "password" \in mutation

\* Nobody is let in as the operator on a password, nor as a viewer on a policy,
\* that had been replaced before - the same hash put back included. The one step
\* excepted lies between a commit and the revocation that follows it.
AdmissionIsCurrent ==
    [][\A r \in Requests :
         /\ ~Idle(r) /\ at'[r] \in {"operator", "viewer"} =>
              call[r].version = version \/ "password" \in mutation
         /\ ~Idle(r) /\ at'[r] = "viewer" =>
              call[r].policy = policy \/ "level" \in mutation]_vars
=============================================================================
