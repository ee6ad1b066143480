------------------------ MODULE AttemptThrottleProofs ------------------------
(***************************************************************************)
(* What holds of AttemptThrottle for any number of clients and requests,   *)
(* and any budget. The argument: a reservation is made in the stretch that *)
(* looked at both counters, so the table of a client that lost nothing is  *)
(* exactly what it has running, and what a settled request adds to the     *)
(* count of its failures leaves the table in the same step.                *)
(***************************************************************************)
EXTENDS AttemptThrottle, FiniteSetTheorems, TLAPS

USE ThrottleAssumption

\* The failures that still count against a client.
Counted(c) == IF c \in windowOver THEN 0 ELSE failedAttempts[c]

InFlightIsBounded ==
    \A c \in Clients : Cardinality(attemptsInFlight[c]) <= MAX_ATTEMPTS_IN_FLIGHT

IInv == ThrottleTypeOK /\ ReservationsAreOwned /\ InFlightIsBounded /\ BudgetHeld

-----------------------------------------------------------------------------
(* Sets of reservations.                                                   *)

LEMMA SlotsAreFinite == IsFiniteSet(Slots)
<1>1. IsFiniteSet(1..MaxCandidates)
  BY FS_Interval
<1> QED
  BY <1>1, FS_Product DEF Slots

\* A request that carries n guesses holds n reservations.
LEMMA ReservedSize ==
    ASSUME NEW r \in Requests, NEW n \in 0..MaxCandidates
    PROVE  /\ Reserved(r, n) \in SUBSET Slots
           /\ IsFiniteSet(Reserved(r, n))
           /\ Cardinality(Reserved(r, n)) = n
<1>1. Reserved(r, n) \in SUBSET Slots
  BY DEF Reserved, Slots
<1>2. IsFiniteSet({r}) /\ Cardinality({r}) = 1
  BY FS_Singleton
<1>3. IsFiniteSet(1..n) /\ Cardinality(1..n) = n
  BY FS_Interval
<1>4. IsFiniteSet({r} \X (1..n)) /\ Cardinality({r} \X (1..n)) = 1 * n
  BY <1>2, <1>3, FS_Product
<1> QED
  BY <1>1, <1>4 DEF Reserved

LEMMA ComparingSize ==
    ASSUME NEW c \in Clients
    PROVE  /\ Comparing(c) \in SUBSET Slots
           /\ IsFiniteSet(Comparing(c))
           /\ Cardinality(Comparing(c)) \in Nat
<1>1. Comparing(c) \in SUBSET Slots
  BY DEF Comparing
<1> QED
  BY <1>1, SlotsAreFinite, FS_Subset, FS_CardinalityType

\* Adding the reservations of one request to a set that has none of its own, and
\* taking them out again.
LEMMA SlotsAdd ==
    ASSUME NEW S \in SUBSET Slots, NEW r \in Requests, NEW n \in 0..MaxCandidates
    PROVE  /\ Cardinality(S) \in Nat
           /\ Cardinality(S \cup Reserved(r, n)) \in Nat
           /\ Cardinality(S \cup Reserved(r, n)) <= Cardinality(S) + n
           /\ S \cap Reserved(r, n) = {} =>
                Cardinality(S \cup Reserved(r, n)) = Cardinality(S) + n
<1>1. IsFiniteSet(S) /\ Cardinality(S) \in Nat
  BY SlotsAreFinite, FS_Subset, FS_CardinalityType
<1>2. IsFiniteSet(Reserved(r, n)) /\ Cardinality(Reserved(r, n)) = n
  BY ReservedSize
<1>3. Cardinality(S \cup Reserved(r, n))
        = Cardinality(S) + n - Cardinality(S \cap Reserved(r, n))
  BY <1>1, <1>2, FS_Union
<1>4. IsFiniteSet(S \cap Reserved(r, n)) /\ Cardinality(S \cap Reserved(r, n)) \in Nat
  BY <1>1, FS_Intersection, FS_CardinalityType
<1>5. IsFiniteSet(S \cup Reserved(r, n)) /\ Cardinality(S \cup Reserved(r, n)) \in Nat
  BY <1>1, <1>2, FS_Union, FS_CardinalityType
<1>6. S \cap Reserved(r, n) = {} => Cardinality(S \cap Reserved(r, n)) = 0
  BY FS_EmptySet
<1> QED
  BY <1>1, <1>3, <1>4, <1>5, <1>6

LEMMA SubsetSize ==
    ASSUME NEW S \in SUBSET Slots, NEW T \in SUBSET S
    PROVE  /\ Cardinality(S) \in Nat /\ Cardinality(T) \in Nat
           /\ Cardinality(T) <= Cardinality(S)
<1>1. IsFiniteSet(S)
  BY SlotsAreFinite, FS_Subset
<1> QED
  BY <1>1, FS_Subset, FS_CardinalityType

\* A full map that makes room keeps some of its clients.
LEMMA RoomKeeps ==
    ASSUME NEW tracked, NEW kept \in Room(tracked)
    PROVE  kept \subseteq tracked
BY DEF Room

-----------------------------------------------------------------------------
(* The steps' parts.                                                       *)

\* A settled request charges its client at most what it carried, and nobody else.
LEMMA ChargedBounds ==
    ASSUME ThrottleTypeOK, NEW r \in Requests, NEW failed \in 0..MaxCandidates,
           NEW cleared \in BOOLEAN, Charged(r, failed, cleared)
    PROVE  /\ failedAttempts' \in [Clients -> Nat] /\ windowOver' \subseteq Clients
           /\ Counted(ClientOf[r])' <= Counted(ClientOf[r]) + failed
           /\ \A d \in Clients : d # ClientOf[r] => Counted(d)' <= Counted(d)
<1> DEFINE c == ClientOf[r]
<1>1. c \in Clients
  OBVIOUS
<1>2. CASE Forgiven(c)
  BY <1>1, <1>2 DEF Forgiven, Counted, ThrottleTypeOK
<1>3. CASE failed = 0 /\ UNCHANGED <<failedAttempts, windowOver>>
  BY <1>1, <1>3 DEF Counted, ThrottleTypeOK
<1>4. CASE /\ failedAttempts[c] > 0 /\ c \notin windowOver
           /\ failedAttempts' = [failedAttempts EXCEPT ![c] = @ + failed]
           /\ UNCHANGED windowOver
  BY <1>1, <1>4 DEF Counted, ThrottleTypeOK
<1>5. CASE /\ ~(failedAttempts[c] > 0 /\ c \notin windowOver)
           /\ \E kept \in Room({d \in Clients \ {c} : failedAttempts[d] > 0}) :
                /\ failedAttempts' = [d \in Clients |-> IF d = c THEN failed
                                        ELSE IF d \in kept THEN failedAttempts[d] ELSE 0]
                /\ windowOver' = windowOver \cap kept
  <2>1. PICK kept \in Room({d \in Clients \ {c} : failedAttempts[d] > 0}) :
          /\ failedAttempts' = [d \in Clients |-> IF d = c THEN failed
                                  ELSE IF d \in kept THEN failedAttempts[d] ELSE 0]
          /\ windowOver' = windowOver \cap kept
    BY <1>5
  <2>2. kept \subseteq Clients \ {c}
    BY <2>1, RoomKeeps
  <2>3. Counted(c) = 0
    BY <1>1, <1>5 DEF Counted, ThrottleTypeOK
  <2>4. Counted(c)' = failed
    BY <1>1, <2>1, <2>2 DEF Counted
  <2>5. ASSUME NEW d \in Clients, d # c PROVE Counted(d)' <= Counted(d)
    BY <2>1, <2>2, <2>5 DEF Counted, ThrottleTypeOK
  <2>6. failedAttempts' \in [Clients -> Nat] /\ windowOver' \subseteq Clients
    BY <2>1 DEF ThrottleTypeOK
  <2> QED
    BY <2>3, <2>4, <2>5, <2>6
<1>6. Forgiven(c) \/ Counting(c, failed)
  BY DEF Charged
<1> QED
  BY <1>2, <1>3, <1>4, <1>5, <1>6 DEF Counting

\* An admitted request finds room, and the table with its reservations in it has
\* at most that of any other client.
LEMMA OwnTable ==
    ASSUME IInv, NEW r \in Requests, NEW n \in 1..MaxCandidates, Admitted(r, n),
           NEW inFlight \in WithOwn(r, n)
    PROVE  /\ inFlight \in [Clients -> SUBSET Slots]
           /\ inFlight[ClientOf[r]] = liveReservations(ClientOf[r]) \cup Reserved(r, n)
           /\ \A d \in Clients : d # ClientOf[r] =>
                inFlight[d] = attemptsInFlight[d] \/ inFlight[d] = {}
<1> DEFINE c == ClientOf[r]
           others == {d \in Clients \ {c} : attemptsInFlight[d] # {}}
<1>1. c \in Clients
  OBVIOUS
<1>2. PICK kept \in IF liveReservations(c) = {} THEN Room(others) ELSE {others} :
        inFlight = [d \in Clients |-> IF d = c THEN liveReservations(c) \cup Reserved(r, n)
                                      ELSE IF d \in kept THEN attemptsInFlight[d] ELSE {}]
  BY DEF WithOwn
<1>3. Reserved(r, n) \in SUBSET Slots
  BY ReservedSize
<1>4. liveReservations(c) \in SUBSET Slots
  BY <1>1 DEF liveReservations, IInv, ThrottleTypeOK
<1> QED
  BY <1>1, <1>2, <1>3, <1>4 DEF IInv, ThrottleTypeOK

\* A reservation that leaves the table while its guess is compared is noticed.
LEMMA NothingForgotten ==
    ASSUME NEW c \in Clients, NEW inFlight, NEW tickets, c \notin Forgotten(inFlight, tickets)
    PROVE  \A s \in attemptsInFlight[c] : s[2] <= tickets[s[1]] => s \in inFlight[c]
BY DEF Forgotten

-----------------------------------------------------------------------------
(* The steps.                                                              *)

LEMMA InitIInv == ThrottleInit => IInv
<1> SUFFICES ASSUME ThrottleInit PROVE IInv
  OBVIOUS
<1>1. ThrottleTypeOK
  BY DEF ThrottleInit, ThrottleTypeOK
<1>2. ASSUME NEW c \in Clients PROVE Comparing(c) = {}
  BY DEF ThrottleInit, Comparing, Slots
<1>3. Cardinality({}) = 0
  BY FS_EmptySet
<1>4. ReservationsAreOwned
  BY <1>2 DEF ThrottleInit, ReservationsAreOwned
<1>5. InFlightIsBounded
  BY <1>3 DEF ThrottleInit, InFlightIsBounded
<1>6. BudgetHeld
  BY <1>2, <1>3 DEF ThrottleInit, BudgetHeld
<1> QED
  BY <1>1, <1>4, <1>5, <1>6 DEF IInv

\* A refusal for want of room sweeps what is past its deadline.
LEMMA BusyIInv ==
    ASSUME IInv, NEW r \in Requests, NEW n \in 1..MaxCandidates, Busy(r, n)
    PROVE  IInv'
<1> DEFINE c == ClientOf[r]
           inFlight == [attemptsInFlight EXCEPT ![c] = liveReservations(c)]
<1> USE DEF IInv
<1>1. c \in Clients
  OBVIOUS
<1>2. /\ attemptsInFlight' = inFlight
      /\ overrun' = overrun \cup Forgotten(inFlight, ticket)
      /\ UNCHANGED <<failedAttempts, windowOver, ticket, stale>>
  BY DEF Busy
<1>3. \A d \in Clients : inFlight[d] \subseteq attemptsInFlight[d]
  BY <1>1 DEF liveReservations, ThrottleTypeOK
<1>4. ThrottleTypeOK'
  BY <1>1, <1>2, <1>3 DEF ThrottleTypeOK, Forgotten
<1>5. \A d \in Clients : Comparing(d)' = Comparing(d)
  BY <1>2 DEF Comparing
<1>6. ReservationsAreOwned'
  <2>1. ASSUME NEW d \in Clients, d \notin overrun' PROVE inFlight[d] = Comparing(d)
    <3>1. attemptsInFlight[d] = Comparing(d)
      BY <1>2, <2>1 DEF ReservationsAreOwned
    <3>2. \A s \in attemptsInFlight[d] : s[2] <= ticket[s[1]]
      BY <3>1 DEF Comparing
    <3>3. \A s \in attemptsInFlight[d] : s[2] <= ticket[s[1]] => s \in inFlight[d]
      BY <1>2, <2>1, NothingForgotten
    <3> QED
      BY <1>3, <3>1, <3>2, <3>3
  <2> QED
    BY <1>2, <1>3, <1>5, <2>1 DEF ReservationsAreOwned
<1>7. InFlightIsBounded'
  <2>1. ASSUME NEW d \in Clients
        PROVE  Cardinality(inFlight[d]) <= MAX_ATTEMPTS_IN_FLIGHT
    <3>1. attemptsInFlight[d] \in SUBSET Slots
      BY DEF ThrottleTypeOK
    <3>2. Cardinality(attemptsInFlight[d]) <= MAX_ATTEMPTS_IN_FLIGHT
      BY DEF InFlightIsBounded
    <3> HIDE DEF inFlight
    <3> QED
      BY <1>3, <3>1, <3>2, SubsetSize
  <2> QED
    BY <1>2, <2>1 DEF InFlightIsBounded
<1>8. BudgetHeld'
  BY <1>2, <1>5 DEF BudgetHeld
<1> QED
  BY <1>4, <1>6, <1>7, <1>8

\* What an admitted request found: room for its guesses, and budget left.
LEMMA AdmittedFound ==
    ASSUME IInv, NEW r \in Requests, NEW n \in 1..MaxCandidates, Admitted(r, n)
    PROVE  /\ Counted(ClientOf[r]) < MAX_FAILED_ATTEMPTS
           /\ liveReservations(ClientOf[r]) \in SUBSET Slots
           /\ Cardinality(liveReservations(ClientOf[r])) + n <= MAX_ATTEMPTS_IN_FLIGHT
           /\ Cardinality(liveReservations(ClientOf[r])) \in Nat
           /\ liveReservations(ClientOf[r]) \cap Reserved(r, n) = {}
<1> DEFINE c == ClientOf[r]
<1>1. c \in Clients
  OBVIOUS
<1>2. liveReservations(c) \in SUBSET Slots
  BY <1>1 DEF IInv, ThrottleTypeOK, liveReservations
<1>3. Cardinality(liveReservations(c)) \in Nat
  BY <1>2, SlotsAreFinite, FS_Subset, FS_CardinalityType
<1>4. Counted(c) < MAX_FAILED_ATTEMPTS
  BY <1>1 DEF Admitted, isLockedOut, Counted, IInv, ThrottleTypeOK
<1>5. Cardinality(liveReservations(c)) + n <= MAX_ATTEMPTS_IN_FLIGHT
  BY <1>1, <1>3 DEF Admitted, isBusy
<1>6. liveReservations(c) \cap Reserved(r, n) = {}
  <2>1. liveReservations(c) \subseteq Comparing(c)
    BY <1>1 DEF liveReservations, IInv, ReservationsAreOwned
  <2>2. \A s \in Comparing(c) : s[1] # r
    BY DEF Comparing, Admitted, Slots
  <2> QED
    BY <2>1, <2>2 DEF Reserved
<1> QED
  BY <1>2, <1>3, <1>4, <1>5, <1>6

LEMMA ReserveIInv ==
    ASSUME IInv, NEW r \in Requests, NEW n \in 1..MaxCandidates, Reserve(r, n)
    PROVE  IInv'
<1> DEFINE c == ClientOf[r]
<1>1. c \in Clients /\ n \in 0..MaxCandidates /\ n \in Nat
  OBVIOUS
<1>2. PICK inFlight \in WithOwn(r, n) :
        /\ attemptsInFlight' = inFlight
        /\ overrun' = overrun \cup Forgotten(inFlight, ticket)
  BY DEF Reserve
<1>3. /\ Admitted(r, n)
      /\ ticket' = [ticket EXCEPT ![r] = n]
      /\ UNCHANGED <<failedAttempts, windowOver, stale>>
  BY DEF Reserve
<1>4. /\ inFlight \in [Clients -> SUBSET Slots]
      /\ inFlight[c] = liveReservations(c) \cup Reserved(r, n)
      /\ \A d \in Clients : d # c => inFlight[d] = attemptsInFlight[d] \/ inFlight[d] = {}
  BY <1>3, OwnTable
<1>5. ThrottleTypeOK'
  BY <1>1, <1>2, <1>3, <1>4 DEF IInv, ThrottleTypeOK, Forgotten
<1>6. Comparing(c)' = Comparing(c) \cup Reserved(r, n)
  BY <1>1, <1>3 DEF Comparing, Reserved, Slots, Admitted, IInv, ThrottleTypeOK
<1>7. \A d \in Clients : d # c => Comparing(d)' = Comparing(d)
  BY <1>3 DEF Comparing, Slots, IInv, ThrottleTypeOK
<1>8. ASSUME NEW d \in Clients, d \notin overrun'
      PROVE  attemptsInFlight[d] = Comparing(d) /\ attemptsInFlight[d] \subseteq inFlight[d]
  <2>1. attemptsInFlight[d] = Comparing(d)
    BY <1>2, <1>8 DEF IInv, ReservationsAreOwned
  <2>2. \A s \in attemptsInFlight[d] : s[2] <= ticket[s[1]]
    BY <2>1 DEF Comparing
  <2>3. \A s \in attemptsInFlight[d] : s[2] <= ticket[s[1]] => s \in inFlight[d]
    BY <1>2, <1>8, NothingForgotten
  <2> QED
    BY <2>1, <2>2, <2>3
<1>9. liveReservations(c) \subseteq attemptsInFlight[c]
  BY DEF liveReservations
<1>10. ReservationsAreOwned'
  <2>1. \A d \in Clients : attemptsInFlight[d] \subseteq Comparing(d)
    BY DEF IInv, ReservationsAreOwned
  <2>2. \A d \in Clients : inFlight[d] \subseteq Comparing(d)'
    BY <1>4, <1>6, <1>7, <1>9, <2>1
  <2>3. c \notin overrun' => inFlight[c] = Comparing(c)'
    BY <1>1, <1>4, <1>6, <1>8, <1>9
  <2>4. ASSUME NEW d \in Clients, d # c, d \notin overrun' PROVE inFlight[d] = Comparing(d)'
    <3>1. attemptsInFlight[d] = Comparing(d)' /\ attemptsInFlight[d] \subseteq inFlight[d]
      BY <1>7, <1>8, <2>4
    <3>2. inFlight[d] = attemptsInFlight[d] \/ inFlight[d] = {}
      BY <1>4, <2>4
    <3> QED
      BY <3>1, <3>2
  <2> QED
    BY <1>2, <2>2, <2>3, <2>4 DEF ReservationsAreOwned
<1>11. Cardinality(inFlight[c]) \in Nat /\ Cardinality(inFlight[c]) <= MAX_ATTEMPTS_IN_FLIGHT
  <2>1. /\ liveReservations(c) \in SUBSET Slots
        /\ Cardinality(liveReservations(c)) + n <= MAX_ATTEMPTS_IN_FLIGHT
        /\ Cardinality(liveReservations(c)) \in Nat
    BY <1>3, AdmittedFound
  <2>2. /\ Cardinality(liveReservations(c) \cup Reserved(r, n)) \in Nat
        /\ Cardinality(liveReservations(c) \cup Reserved(r, n)) <= Cardinality(liveReservations(c)) + n
    BY <1>1, <2>1, SlotsAdd
  <2> QED
    BY <1>1, <1>4, <2>1, <2>2
<1>12. InFlightIsBounded'
  <2>1. Cardinality({}) = 0
    BY FS_EmptySet
  <2>2. ASSUME NEW d \in Clients, d # c
        PROVE  Cardinality(inFlight[d]) <= MAX_ATTEMPTS_IN_FLIGHT
    <3>1. Cardinality(attemptsInFlight[d]) <= MAX_ATTEMPTS_IN_FLIGHT
      BY DEF IInv, InFlightIsBounded
    <3>2. CASE inFlight[d] = attemptsInFlight[d]
      BY <3>1, <3>2
    <3>3. CASE inFlight[d] = {}
      BY <2>1, <3>3
    <3> QED
      BY <1>4, <2>2, <3>2, <3>3
  <2> QED
    BY <1>2, <1>11, <2>2 DEF InFlightIsBounded
<1>13. BudgetHeld'
  <2>1. c \notin overrun' => Comparing(c)' = inFlight[c]
    BY <1>2, <1>10 DEF ReservationsAreOwned
  <2>2. Counted(c) < MAX_FAILED_ATTEMPTS /\ Counted(c) \in Nat
    BY <1>1, <1>3, AdmittedFound DEF Counted, IInv, ThrottleTypeOK
  <2>3. c \notin overrun' => Counted(c) + Cardinality(Comparing(c)')
                               < MAX_FAILED_ATTEMPTS + MAX_ATTEMPTS_IN_FLIGHT
    BY <1>11, <2>1, <2>2
  <2>4. \A d \in Clients : d # c /\ d \notin overrun' =>
          Counted(d) + Cardinality(Comparing(d)') < MAX_FAILED_ATTEMPTS + MAX_ATTEMPTS_IN_FLIGHT
    BY <1>2, <1>7 DEF Counted, IInv, BudgetHeld
  <2> QED
    BY <1>3, <2>3, <2>4 DEF Counted, BudgetHeld
<1> QED
  BY <1>5, <1>10, <1>12, <1>13 DEF IInv

\* A settled request takes its own reservations out and no more.
LEMMA SettleIInv ==
    ASSUME IInv, NEW r \in Requests, NEW failed \in 0..MaxCandidates, NEW cleared \in BOOLEAN,
           Settle(r, failed, cleared)
    PROVE  IInv'
<1> DEFINE c == ClientOf[r]
           tickets == [ticket EXCEPT ![r] = 0]
<1>1. c \in Clients /\ ticket[r] \in 0..MaxCandidates /\ failed <= ticket[r]
  BY DEF Settle, IInv, ThrottleTypeOK
<1>2. /\ attemptsInFlight' = SettledTable(r)
      /\ overrun' = overrun \cup Forgotten(SettledTable(r), tickets)
      /\ ticket' = tickets
      /\ stale' = stale \ {r}
      /\ Charged(r, failed, cleared)
  BY DEF Settle
<1>3. /\ failedAttempts' \in [Clients -> Nat] /\ windowOver' \subseteq Clients
      /\ Counted(c)' <= Counted(c) + failed
      /\ \A d \in Clients : d # c => Counted(d)' <= Counted(d)
  BY <1>2, ChargedBounds DEF IInv
<1>4. /\ \A d \in Clients : SettledTable(r)[d] \subseteq attemptsInFlight[d]
      /\ \A s \in SettledTable(r)[c] : s[1] # r
      /\ \A d \in Clients : d # c => SettledTable(r)[d] = attemptsInFlight[d]
      /\ SettledTable(r) \in [Clients -> SUBSET Slots]
  BY <1>1 DEF SettledTable, liveReservations, IInv, ThrottleTypeOK
<1>5. ThrottleTypeOK'
  BY <1>1, <1>2, <1>3, <1>4 DEF IInv, ThrottleTypeOK, Forgotten
<1>6. Comparing(c)' = {s \in Comparing(c) : s[1] # r}
  BY <1>1, <1>2 DEF Comparing, Slots, IInv, ThrottleTypeOK
<1>7. \A d \in Clients : d # c => Comparing(d)' = Comparing(d)
  BY <1>2 DEF Comparing, Slots, IInv, ThrottleTypeOK
<1>8. ReservationsAreOwned'
  <2>1. \A d \in Clients : attemptsInFlight[d] \subseteq Comparing(d)
    BY DEF IInv, ReservationsAreOwned
  <2>2. \A d \in Clients : SettledTable(r)[d] \subseteq Comparing(d)'
    BY <1>4, <1>6, <1>7, <2>1
  <2>3. ASSUME NEW d \in Clients, d \notin overrun'
        PROVE  Comparing(d)' \subseteq SettledTable(r)[d]
    <3>1. attemptsInFlight[d] = Comparing(d)
      BY <1>2, <2>3 DEF IInv, ReservationsAreOwned
    <3>2. \A s \in attemptsInFlight[d] : s[2] <= tickets[s[1]] => s \in SettledTable(r)[d]
      BY <1>2, <2>3, NothingForgotten
    <3>3. \A s \in Comparing(d)' : s \in attemptsInFlight[d] /\ s[2] <= tickets[s[1]]
      BY <1>2, <1>6, <1>7, <3>1 DEF Comparing
    <3> QED
      BY <3>2, <3>3
  <2> QED
    BY <1>2, <2>2, <2>3 DEF ReservationsAreOwned
<1>9. InFlightIsBounded'
  <2>1. ASSUME NEW d \in Clients
        PROVE  Cardinality(SettledTable(r)[d]) <= MAX_ATTEMPTS_IN_FLIGHT
    <3>1. attemptsInFlight[d] \in SUBSET Slots
      BY DEF IInv, ThrottleTypeOK
    <3>2. Cardinality(attemptsInFlight[d]) <= MAX_ATTEMPTS_IN_FLIGHT
      BY DEF IInv, InFlightIsBounded
    <3> QED
      BY <1>4, <3>1, <3>2, SubsetSize
  <2> QED
    BY <1>2, <2>1 DEF InFlightIsBounded
<1>10. BudgetHeld'
  <2>1. Cardinality(Comparing(c)) = Cardinality(Comparing(c)') + ticket[r]
    <3>1. Comparing(c) = Comparing(c)' \cup Reserved(r, ticket[r])
      BY <1>1, <1>6 DEF Comparing, Reserved, Slots
    <3>2. Comparing(c)' \cap Reserved(r, ticket[r]) = {}
      BY <1>6 DEF Reserved
    <3>3. Comparing(c)' \in SUBSET Slots
      BY <1>6 DEF Comparing
    <3> QED
      BY <1>1, <3>1, <3>2, <3>3, SlotsAdd
  <2>2. Cardinality(Comparing(c)) \in Nat /\ Cardinality(Comparing(c)') \in Nat
    <3>1. Comparing(c)' \subseteq Comparing(c)
      BY <1>6
    <3> QED
      BY <1>1, <3>1, ComparingSize, SubsetSize
  <2>3. /\ Counted(c) \in Nat /\ Counted(c)' \in Nat
        /\ c \notin overrun =>
             Counted(c) + Cardinality(Comparing(c)) < MAX_FAILED_ATTEMPTS + MAX_ATTEMPTS_IN_FLIGHT
    BY <1>1, <1>3 DEF Counted, IInv, ThrottleTypeOK, BudgetHeld
  <2>4. c \notin overrun =>
          Counted(c)' + Cardinality(Comparing(c)') < MAX_FAILED_ATTEMPTS + MAX_ATTEMPTS_IN_FLIGHT
    BY <1>1, <1>3, <2>1, <2>2, <2>3
  <2>5. ASSUME NEW d \in Clients, d # c, d \notin overrun
        PROVE  Counted(d)' + Cardinality(Comparing(d)') < MAX_FAILED_ATTEMPTS + MAX_ATTEMPTS_IN_FLIGHT
    <3>1. Comparing(d)' = Comparing(d) /\ Counted(d)' <= Counted(d)
      BY <1>3, <1>7, <2>5
    <3>2. Counted(d) + Cardinality(Comparing(d)) < MAX_FAILED_ATTEMPTS + MAX_ATTEMPTS_IN_FLIGHT
      BY <2>5 DEF Counted, IInv, BudgetHeld
    <3>3. Counted(d) \in Nat /\ Counted(d)' \in Nat /\ Cardinality(Comparing(d)) \in Nat
      BY <1>3, ComparingSize DEF Counted, IInv, ThrottleTypeOK
    <3> QED
      BY <3>1, <3>2, <3>3
  <2>6. overrun \subseteq overrun'
    BY <1>2
  <2> QED
    BY <2>4, <2>5, <2>6 DEF Counted, BudgetHeld
<1> QED
  BY <1>5, <1>8, <1>9, <1>10 DEF IInv

\* The setup token's reservation is gone before anybody else runs.
LEMMA ReserveAndSettleIInv ==
    ASSUME IInv, NEW r \in Requests, NEW n \in 1..MaxCandidates,
           NEW failed \in 0..MaxCandidates, NEW cleared \in BOOLEAN,
           ReserveAndSettle(r, n, failed, cleared)
    PROVE  IInv'
<1> DEFINE c == ClientOf[r]
<1>1. c \in Clients /\ n \in Nat /\ failed <= n
  BY DEF ReserveAndSettle
<1>2. PICK inFlight \in WithOwn(r, n) :
        LET after == [inFlight EXCEPT ![c] = @ \ Reserved(r, n)] IN
        /\ attemptsInFlight' = after
        /\ overrun' = overrun \cup Forgotten(after, ticket)
  BY DEF ReserveAndSettle
<1> DEFINE after == [inFlight EXCEPT ![c] = @ \ Reserved(r, n)]
<1>3. Admitted(r, n) /\ Charged(r, failed, cleared) /\ UNCHANGED <<ticket, stale>>
  BY DEF ReserveAndSettle
<1>4. /\ attemptsInFlight' = after
      /\ overrun' = overrun \cup Forgotten(after, ticket)
  BY <1>2
<1>5. /\ Counted(c) < MAX_FAILED_ATTEMPTS
      /\ liveReservations(c) \in SUBSET Slots
      /\ Cardinality(liveReservations(c)) + n <= MAX_ATTEMPTS_IN_FLIGHT
      /\ Cardinality(liveReservations(c)) \in Nat
      /\ liveReservations(c) \cap Reserved(r, n) = {}
  BY <1>3, AdmittedFound
<1>6. /\ inFlight \in [Clients -> SUBSET Slots]
      /\ inFlight[c] = liveReservations(c) \cup Reserved(r, n)
      /\ \A d \in Clients : d # c => inFlight[d] = attemptsInFlight[d] \/ inFlight[d] = {}
  BY <1>3, OwnTable
<1>7. /\ after \in [Clients -> SUBSET Slots]
      /\ after[c] = liveReservations(c)
      /\ \A d \in Clients : d # c => after[d] = attemptsInFlight[d] \/ after[d] = {}
  BY <1>1, <1>5, <1>6
<1> HIDE DEF after
<1>8. \A d \in Clients : after[d] \subseteq attemptsInFlight[d]
  BY <1>7 DEF liveReservations
<1>9. /\ failedAttempts' \in [Clients -> Nat] /\ windowOver' \subseteq Clients
      /\ Counted(c)' <= Counted(c) + failed
      /\ \A d \in Clients : d # c => Counted(d)' <= Counted(d)
  BY <1>3, ChargedBounds DEF IInv
<1>10. ThrottleTypeOK'
  BY <1>3, <1>4, <1>7, <1>9 DEF IInv, ThrottleTypeOK, Forgotten
<1>11. \A d \in Clients : Comparing(d)' = Comparing(d)
  BY <1>3 DEF Comparing
<1>12. ReservationsAreOwned'
  <2>1. \A d \in Clients : after[d] \subseteq Comparing(d)
    BY <1>8 DEF IInv, ReservationsAreOwned
  <2>2. ASSUME NEW d \in Clients, d \notin overrun' PROVE Comparing(d) \subseteq after[d]
    <3>1. attemptsInFlight[d] = Comparing(d)
      BY <1>4, <2>2 DEF IInv, ReservationsAreOwned
    <3>2. \A s \in attemptsInFlight[d] : s[2] <= ticket[s[1]] => s \in after[d]
      BY <1>4, <2>2, NothingForgotten
    <3> QED
      BY <3>1, <3>2 DEF Comparing
  <2> QED
    BY <1>4, <1>11, <2>1, <2>2 DEF ReservationsAreOwned
<1>13. InFlightIsBounded'
  <2>1. ASSUME NEW d \in Clients PROVE Cardinality(after[d]) <= MAX_ATTEMPTS_IN_FLIGHT
    <3>1. attemptsInFlight[d] \in SUBSET Slots
      BY DEF IInv, ThrottleTypeOK
    <3>2. Cardinality(attemptsInFlight[d]) <= MAX_ATTEMPTS_IN_FLIGHT
      BY DEF IInv, InFlightIsBounded
    <3> QED
      BY <1>8, <3>1, <3>2, SubsetSize
  <2> QED
    BY <1>4, <2>1 DEF InFlightIsBounded
<1>14. BudgetHeld'
  <2>1. ASSUME NEW d \in Clients, d \notin overrun'
        PROVE  Counted(d)' + Cardinality(Comparing(d)) < MAX_FAILED_ATTEMPTS + MAX_ATTEMPTS_IN_FLIGHT
    <3>1. Counted(d) \in Nat /\ Counted(d)' \in Nat /\ Cardinality(Comparing(d)) \in Nat
      BY <1>9, ComparingSize DEF Counted, IInv, ThrottleTypeOK
    <3>2. CASE d = c
      <4>1. Comparing(c) = liveReservations(c)
        BY <1>1, <1>4, <1>7, <1>11, <1>12, <2>1, <3>2 DEF ReservationsAreOwned
      <4> QED
        BY <1>1, <1>5, <1>9, <3>1, <3>2, <4>1
    <3>3. CASE d # c
      <4>1. Counted(d) + Cardinality(Comparing(d)) < MAX_FAILED_ATTEMPTS + MAX_ATTEMPTS_IN_FLIGHT
        BY <1>4, <2>1 DEF Counted, IInv, BudgetHeld
      <4> QED
        BY <1>9, <3>1, <3>3, <4>1
    <3> QED
      BY <3>2, <3>3
  <2> QED
    BY <1>11, <2>1 DEF Counted, BudgetHeld
<1> QED
  BY <1>10, <1>12, <1>13, <1>14 DEF IInv

\* Steps that only lower what is counted, or only mark time.
LEMMA ForgiveIInv ==
    ASSUME IInv, NEW r \in Requests, Forgive(r)
    PROVE  IInv'
<1> DEFINE c == ClientOf[r]
<1>1. c \in Clients
  OBVIOUS
<1>2. /\ failedAttempts' = [failedAttempts EXCEPT ![c] = 0]
      /\ windowOver' = windowOver \ {c}
      /\ UNCHANGED <<attemptsInFlight, ticket, stale, overrun>>
  BY DEF Forgive, Forgiven
<1>3. ThrottleTypeOK'
  BY <1>1, <1>2 DEF IInv, ThrottleTypeOK
<1>4. \A d \in Clients : Comparing(d)' = Comparing(d)
  BY <1>2 DEF Comparing
<1>5. ReservationsAreOwned' /\ InFlightIsBounded'
  BY <1>2, <1>4 DEF IInv, ReservationsAreOwned, InFlightIsBounded
<1>6. BudgetHeld'
  <2>1. ASSUME NEW d \in Clients, d \notin overrun
        PROVE  Counted(d)' + Cardinality(Comparing(d)) < MAX_FAILED_ATTEMPTS + MAX_ATTEMPTS_IN_FLIGHT
    <3>1. Counted(d) \in Nat /\ Counted(d)' \in Nat /\ Counted(d)' <= Counted(d)
      BY <1>1, <1>2 DEF Counted, IInv, ThrottleTypeOK
    <3>2. Cardinality(Comparing(d)) \in Nat
      BY ComparingSize
    <3>3. Counted(d) + Cardinality(Comparing(d)) < MAX_FAILED_ATTEMPTS + MAX_ATTEMPTS_IN_FLIGHT
      BY <2>1 DEF Counted, IInv, BudgetHeld
    <3> QED
      BY <3>1, <3>2, <3>3
  <2> QED
    BY <1>2, <1>4, <2>1 DEF Counted, BudgetHeld
<1> QED
  BY <1>3, <1>5, <1>6 DEF IInv

LEMMA WindowEndsIInv ==
    ASSUME IInv, NEW c \in Clients, WindowEnds(c)
    PROVE  IInv'
<1>1. /\ windowOver' = windowOver \cup {c}
      /\ UNCHANGED <<failedAttempts, attemptsInFlight, ticket, stale, overrun>>
  BY DEF WindowEnds
<1>2. ThrottleTypeOK'
  BY <1>1 DEF IInv, ThrottleTypeOK
<1>3. \A d \in Clients : Comparing(d)' = Comparing(d)
  BY <1>1 DEF Comparing
<1>4. ReservationsAreOwned' /\ InFlightIsBounded'
  BY <1>1, <1>3 DEF IInv, ReservationsAreOwned, InFlightIsBounded
<1>5. BudgetHeld'
  <2>1. ASSUME NEW d \in Clients, d \notin overrun
        PROVE  Counted(d)' + Cardinality(Comparing(d)) < MAX_FAILED_ATTEMPTS + MAX_ATTEMPTS_IN_FLIGHT
    <3>1. Counted(d) \in Nat /\ Counted(d)' \in Nat /\ Counted(d)' <= Counted(d)
      BY <1>1 DEF Counted, IInv, ThrottleTypeOK
    <3>2. Cardinality(Comparing(d)) \in Nat
      BY ComparingSize
    <3>3. Counted(d) + Cardinality(Comparing(d)) < MAX_FAILED_ATTEMPTS + MAX_ATTEMPTS_IN_FLIGHT
      BY <2>1 DEF Counted, IInv, BudgetHeld
    <3> QED
      BY <3>1, <3>2, <3>3
  <2> QED
    BY <1>1, <1>3, <2>1 DEF Counted, BudgetHeld
<1> QED
  BY <1>2, <1>4, <1>5 DEF IInv

LEMMA DeadlineIInv ==
    ASSUME IInv, NEW r \in Requests, DeadlinePasses(r)
    PROVE  IInv'
<1>1. /\ stale' = stale \cup {r}
      /\ UNCHANGED <<failedAttempts, windowOver, attemptsInFlight, ticket, overrun>>
  BY DEF DeadlinePasses
<1>2. \A d \in Clients : Comparing(d)' = Comparing(d)
  BY <1>1 DEF Comparing
<1> QED
  BY <1>1, <1>2 DEF IInv, ThrottleTypeOK, ReservationsAreOwned, InFlightIsBounded, BudgetHeld

LEMMA ForgottenIInv == ThrottleForgotten => IInv'
<1> SUFFICES ASSUME ThrottleForgotten PROVE IInv'
  OBVIOUS
<1>1. ThrottleTypeOK'
  BY DEF ThrottleForgotten, ThrottleTypeOK
<1>2. ASSUME NEW c \in Clients PROVE Comparing(c)' = {}
  BY DEF ThrottleForgotten, Comparing, Slots
<1>3. Cardinality({}) = 0
  BY FS_EmptySet
<1>4. ReservationsAreOwned'
  BY <1>2 DEF ThrottleForgotten, ReservationsAreOwned
<1>5. InFlightIsBounded'
  BY <1>3 DEF ThrottleForgotten, InFlightIsBounded
<1>6. BudgetHeld'
  BY <1>2, <1>3 DEF ThrottleForgotten, BudgetHeld
<1> QED
  BY <1>1, <1>4, <1>5, <1>6 DEF IInv

LEMMA StutterIInv ==
    ASSUME IInv, UNCHANGED throttleVars
    PROVE  IInv'
<1>1. \A d \in Clients : Comparing(d)' = Comparing(d)
  BY DEF throttleVars, Comparing
<1> QED
  BY <1>1 DEF throttleVars, IInv, ThrottleTypeOK, ReservationsAreOwned, InFlightIsBounded, BudgetHeld

LEMMA NextIInv == IInv /\ [ThrottleNext]_throttleVars => IInv'
<1> SUFFICES ASSUME IInv, [ThrottleNext]_throttleVars PROVE IInv'
  OBVIOUS
<1>1. CASE UNCHANGED throttleVars
  BY <1>1, StutterIInv
<1>2. ASSUME NEW r \in Requests, NEW n \in 1..MaxCandidates, Busy(r, n) PROVE IInv'
  BY <1>2, BusyIInv
<1>3. ASSUME NEW r \in Requests, NEW n \in 1..MaxCandidates, Reserve(r, n) PROVE IInv'
  BY <1>3, ReserveIInv
<1>4. ASSUME NEW r \in Requests, NEW n \in 1..MaxCandidates, NEW cleared \in BOOLEAN,
             NEW failed \in 0..MaxCandidates, ReserveAndSettle(r, n, failed, cleared)
      PROVE  IInv'
  BY <1>4, ReserveAndSettleIInv
<1>5. ASSUME NEW r \in Requests, NEW cleared \in BOOLEAN, NEW failed \in 0..MaxCandidates,
             Settle(r, failed, cleared)
      PROVE  IInv'
  BY <1>5, SettleIInv
<1>6. ASSUME NEW r \in Requests, Forgive(r) \/ DeadlinePasses(r) PROVE IInv'
  BY <1>6, ForgiveIInv, DeadlineIInv
<1>7. ASSUME NEW c \in Clients, WindowEnds(c) PROVE IInv'
  BY <1>7, WindowEndsIInv
<1>8. CASE ThrottleForgotten
  BY <1>8, ForgottenIInv
<1> QED
  BY <1>1, <1>2, <1>3, <1>4, <1>5, <1>6, <1>7, <1>8 DEF ThrottleNext

\* However its requests interleave, a client that lost no reservation of a running
\* comparison never has twice the budget between the wrong guesses of its window
\* and the comparisons under way (reserveAttempt, releaseWith, recordFailure).
THEOREM BudgetIsHeld == ThrottleSpec => []BudgetHeld
<1>1. IInv => BudgetHeld
  BY DEF IInv
<1> QED
  BY InitIInv, NextIInv, <1>1, PTL DEF ThrottleSpec

\* No path of a request leaves a reservation behind (releaseWith).
THEOREM ReservationsOwned == ThrottleSpec => []ReservationsAreOwned
<1>1. IInv => ReservationsAreOwned
  BY DEF IInv
<1> QED
  BY InitIInv, NextIInv, <1>1, PTL DEF ThrottleSpec
=============================================================================
