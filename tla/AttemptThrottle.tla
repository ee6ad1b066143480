--------------------------- MODULE AttemptThrottle ---------------------------
(***************************************************************************)
(* The failed-attempt throttle of middlewares/password.js, shared by the   *)
(* three ways in: routes/session.js, the password middleware and the       *)
(* metrics route. A request reserves its guesses before it compares them   *)
(* (reserveAttempt) and settles them afterwards (the closure releaseWith   *)
(* hands out); both are one synchronous stretch. Time is what it does: the *)
(* window of a client's failures ends, the deadline of a reservation       *)
(* passes. Which entry of a full map is the oldest is left open.           *)
(***************************************************************************)
EXTENDS Integers, FiniteSets

CONSTANTS Clients, Requests, ClientOf,   \* the requests of each client address
          MaxCandidates,                 \* guesses one request can carry (readPasswords: three)
          MAX_FAILED_ATTEMPTS, MAX_ATTEMPTS_IN_FLIGHT, MAX_TRACKED_CLIENTS

ASSUME ThrottleAssumption ==
    /\ IsFiniteSet(Clients) /\ IsFiniteSet(Requests)
    /\ ClientOf \in [Requests -> Clients]
    /\ MaxCandidates \in Nat \ {0}
    /\ MAX_FAILED_ATTEMPTS \in Nat \ {0}
    /\ MAX_ATTEMPTS_IN_FLIGHT \in Nat \ {0}
    /\ MAX_TRACKED_CLIENTS \in Nat \ {0}

VARIABLES
    failedAttempts,    \* wrong guesses counted against a client; 0: no entry
    windowOver,        \* the clients whose entry is past its resetAt
    attemptsInFlight,  \* the reservations a client holds: <<ticket, number>>
    ticket,            \* how many guesses a request has reserved and not settled
    stale,             \* requests whose reservations are past their deadline
    overrun            \* ghost: clients that lost a reservation of a running comparison

throttleVars == <<failedAttempts, windowOver, attemptsInFlight, ticket, stale, overrun>>

Slots == Requests \X (1..MaxCandidates)
Reserved(r, n) == {r} \X (1..n)

\* The guesses of client c that are being compared.
Comparing(c) == {s \in Slots : ClientOf[s[1]] = c /\ s[2] <= ticket[s[1]]}

\* A full map lets its oldest entry go before it takes another.
Room(tracked) ==
    IF Cardinality(tracked) < MAX_TRACKED_CLIENTS THEN {tracked}
    ELSE {tracked \ {oldest} : oldest \in tracked}

ThrottleInit ==
    /\ failedAttempts = [c \in Clients |-> 0]
    /\ windowOver = {}
    /\ attemptsInFlight = [c \in Clients |-> {}]
    /\ ticket = [r \in Requests |-> 0]
    /\ stale = {}
    /\ overrun = {}

-----------------------------------------------------------------------------
isLockedOut(c) == c \notin windowOver /\ failedAttempts[c] >= MAX_FAILED_ATTEMPTS

liveReservations(c) == {s \in attemptsInFlight[c] : s[1] \notin stale}

\* Mutant: one reservation for the whole list of candidates.
isBusyOnce(c, n) == Cardinality(liveReservations(c)) >= MAX_ATTEMPTS_IN_FLIGHT

isBusy(c, n) == Cardinality(liveReservations(c)) + n > MAX_ATTEMPTS_IN_FLIGHT

\* The clients whose running comparisons a new table of reservations forgets.
Forgotten(inFlight, tickets) ==
    {c \in Clients : \E s \in attemptsInFlight[c] \ inFlight[c] : s[2] <= tickets[s[1]]}

\* recordFailure: a fresh window for a client without one, else one count more.
Counting(c, failed) ==
    IF failed = 0 THEN UNCHANGED <<failedAttempts, windowOver>>
    ELSE IF failedAttempts[c] > 0 /\ c \notin windowOver
    THEN /\ failedAttempts' = [failedAttempts EXCEPT ![c] = @ + failed]
         /\ UNCHANGED windowOver
    ELSE \E kept \in Room({d \in Clients \ {c} : failedAttempts[d] > 0}) :
           /\ failedAttempts' = [d \in Clients |-> IF d = c THEN failed
                                   ELSE IF d \in kept THEN failedAttempts[d] ELSE 0]
           /\ windowOver' = windowOver \cap kept

\* clearFailedAttempts, after the right password.
Forgiven(c) ==
    /\ failedAttempts' = [failedAttempts EXCEPT ![c] = 0]
    /\ windowOver' = windowOver \ {c}

\* What a settled request leaves of its client's count: what was compared and
\* wrong is charged, a right guess that leads somewhere at once clears it.
Charged(r, failed, cleared) ==
    IF cleared THEN Forgiven(ClientOf[r]) ELSE Counting(ClientOf[r], failed)

\* reserveAttempt refuses: out of budget, or as many comparisons as may run at
\* once - then the stale reservations have been swept on the way.
LockedOut(r) == isLockedOut(ClientOf[r]) /\ UNCHANGED throttleVars

Busy(r, n) ==
    LET c == ClientOf[r]
        inFlight == [attemptsInFlight EXCEPT ![c] = liveReservations(c)] IN
    /\ ~isLockedOut(c) /\ isBusy(c, n)
    /\ attemptsInFlight' = inFlight
    /\ overrun' = overrun \cup Forgotten(inFlight, ticket)
    /\ UNCHANGED <<failedAttempts, windowOver, ticket, stale>>

\* What the table of reservations can be with r's own in it.
WithOwn(r, n) ==
    LET c == ClientOf[r]
        others == {d \in Clients \ {c} : attemptsInFlight[d] # {}} IN
    {[d \in Clients |-> IF d = c THEN liveReservations(c) \cup Reserved(r, n)
                        ELSE IF d \in kept THEN attemptsInFlight[d] ELSE {}] :
        kept \in IF liveReservations(c) = {} THEN Room(others) ELSE {others}}

Admitted(r, n) ==
    /\ ticket[r] = 0
    /\ ~isLockedOut(ClientOf[r]) /\ ~isBusy(ClientOf[r], n)

\* reserveAttempt admits a request that will compare across an await ...
Reserve(r, n) ==
    /\ Admitted(r, n)
    /\ \E inFlight \in WithOwn(r, n) :
         /\ attemptsInFlight' = inFlight
         /\ overrun' = overrun \cup Forgotten(inFlight, ticket)
    /\ ticket' = [ticket EXCEPT ![r] = n]
    /\ UNCHANGED <<failedAttempts, windowOver, stale>>

\* Mutant: releases one reservation however many the request took.
SettledTableOnce(r) ==
    [attemptsInFlight EXCEPT ![ClientOf[r]] = liveReservations(ClientOf[r]) \ {<<r, 1>>}]

\* ... whose settle finds exactly its own reservations, however the list changed,
SettledTable(r) ==
    LET c == ClientOf[r] IN
    [attemptsInFlight EXCEPT ![c] = {s \in liveReservations(c) : s[1] # r}]

Settle(r, failed, cleared) ==
    LET tickets == [ticket EXCEPT ![r] = 0] IN
    /\ ticket[r] > 0 /\ failed \in {0, ticket[r]}
    /\ attemptsInFlight' = SettledTable(r)
    /\ overrun' = overrun \cup Forgotten(SettledTable(r), tickets)
    /\ ticket' = tickets
    /\ stale' = stale \ {r}
    /\ Charged(r, failed, cleared)

\* ... or one whose comparison is synchronous: the setup token. It takes its
\* place in the table, which may cost another client its entry, and leaves it.
ReserveAndSettle(r, n, failed, cleared) ==
    /\ Admitted(r, n) /\ failed \in {0, n}
    /\ \E inFlight \in WithOwn(r, n) :
         LET after == [inFlight EXCEPT ![ClientOf[r]] = @ \ Reserved(r, n)] IN
         /\ attemptsInFlight' = after
         /\ overrun' = overrun \cup Forgotten(after, ticket)
    /\ Charged(r, failed, cleared)
    /\ UNCHANGED <<ticket, stale>>

\* The credential was read again and is still the one that was compared.
Forgive(r) ==
    /\ Forgiven(ClientOf[r])
    /\ UNCHANGED <<attemptsInFlight, ticket, stale, overrun>>

\* resetAt of a client's failures, and staleAt of a request's reservations.
WindowEnds(c) ==
    /\ failedAttempts[c] > 0 /\ c \notin windowOver
    /\ windowOver' = windowOver \cup {c}
    /\ UNCHANGED <<failedAttempts, attemptsInFlight, ticket, stale, overrun>>

DeadlinePasses(r) ==
    /\ ticket[r] > 0 /\ r \notin stale
    /\ stale' = stale \cup {r}
    /\ UNCHANGED <<failedAttempts, windowOver, attemptsInFlight, ticket, overrun>>

\* The process starts again: the counters live in its memory alone.
ThrottleForgotten ==
    /\ failedAttempts' = [c \in Clients |-> 0]
    /\ windowOver' = {}
    /\ attemptsInFlight' = [c \in Clients |-> {}]
    /\ ticket' = [r \in Requests |-> 0]
    /\ stale' = {}
    /\ overrun' = {}

ThrottleNext ==
    \/ \E r \in Requests, n \in 1..MaxCandidates :
         \/ Busy(r, n)
         \/ Reserve(r, n)
         \/ \E cleared \in BOOLEAN, failed \in 0..MaxCandidates :
              ReserveAndSettle(r, n, failed, cleared)
    \/ \E r \in Requests, cleared \in BOOLEAN, failed \in 0..MaxCandidates :
         Settle(r, failed, cleared)
    \/ \E r \in Requests : Forgive(r) \/ DeadlinePasses(r)
    \/ \E c \in Clients : WindowEnds(c)
    \/ ThrottleForgotten

ThrottleSpec == ThrottleInit /\ [][ThrottleNext]_throttleVars

-----------------------------------------------------------------------------
ThrottleTypeOK ==
    /\ failedAttempts \in [Clients -> Nat]
    /\ windowOver \subseteq Clients
    /\ attemptsInFlight \in [Clients -> SUBSET Slots]
    /\ ticket \in [Requests -> 0..MaxCandidates]
    /\ stale \subseteq Requests
    /\ overrun \subseteq Clients

\* A reservation is one of a comparison that is running: whatever a request ends
\* in - a right guess, a wrong one, a throw - nothing of it stays in the table to
\* keep its client at the cap. And a client that lost none has all of its own.
ReservationsAreOwned ==
    \A c \in Clients :
      /\ attemptsInFlight[c] \subseteq Comparing(c)
      /\ c \notin overrun => attemptsInFlight[c] = Comparing(c)

\* The wrong guesses of a window and the comparisons still running never come
\* to twice the budget, however the requests of a client interleave - but for a
\* client of which a deadline or a full table let a running comparison go.
BudgetHeld ==
    \A c \in Clients \ overrun :
      (IF c \in windowOver THEN 0 ELSE failedAttempts[c]) + Cardinality(Comparing(c))
         < MAX_FAILED_ATTEMPTS + MAX_ATTEMPTS_IN_FLIGHT
=============================================================================
